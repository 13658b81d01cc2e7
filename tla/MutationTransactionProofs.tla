----------------------- MODULE MutationTransactionProofs -----------------------
(***************************************************************************)
(* Type correctness and the safety properties of one Context mutation, for *)
(* any plan, any number of files, crashes, recoveries and edits.           *)
(*                                                                         *)
(* ShapeInv says what the disk, the journal and the command look like at   *)
(* each point; the proofs of the properties start from it, and from what   *)
(* the lemmas <Action>Cases and <Action>Effect say of each action.         *)
(***************************************************************************)
EXTENDS MutationTransaction, MutationDiskProofs, Integers, FiniteSetTheorems, TLAPS

LoopPc == {"prepare", "restage", "record temporary", "publish", "commit",
           "unlink temporary", "confirm"}

Forward == command.op # "rollback"

DesiredData(f) == Planned(f)[DesiredSide].data

JournalOK ==
  journal # NoJournal =>
    /\ journal \in Journal
    /\ \A f \in File : ChangeOK(Change(f))
    /\ AcceptedProgress

\* Which command is at a point, how far it is and in which state of the journal.
CommandOK ==
  /\ command \in [op : {"none", "execute", "complete", "rollback"},
                  pc : Pc, f : 0..(N + 1)]
  /\ command = Idle \/ /\ command.op # "none" /\ command.pc # "idle"
                       /\ journal # NoJournal
  /\ command.pc \in {"stage", "record staged", "recheck"} => command.op = "execute"
  /\ command.pc \in {"mkdir", "validating"} => Forward
  /\ command.pc = "rmdir" => ~Forward
  /\ \/ command.pc = "mkdir" /\ command.op = "execute"
     \/ command.pc \in {"stage", "record staged"}
     => journal.state = "planning"
  /\ command.pc = "recheck" => journal.state = "prepared"
  /\ \/ command.pc = "mkdir" /\ command.op = "complete"
     \/ command.pc \in LoopPc \cup {"validating"}
     => journal.state = "committing"
  /\ command.pc \in LoopPc \cup {"record staged", "cleanup"} => command.f \in File
  /\ command.pc = "stage" => command.f \in 1..(N + 1)
  /\ command.pc \in LoopPc /\ Forward => journal.applied >= command.f - 1
  /\ command.pc = "validating" => journal.applied = N

NoneFrom(f) == \A g \in f..N : temporary[g] = Absent

\* The temporary of f is the command's own and has the bytes that are wanted.
OwnTemporary(f) == /\ Exists(temporary[f]) /\ temporary[f].nlink = 1
                   /\ temporary[f].data = DesiredData(f)

\* Where the journal does not know of the temporary yet, and where it will be
\* renamed or linked to its place.
TemporaryOK ==
  /\ command = Idle /\ phase = "planned" => NoneFrom(1)
  /\ command.pc = "mkdir" /\ command.op = "execute" => NoneFrom(1)
  /\ command.pc = "stage" => NoneFrom(command.f)
  /\ command.pc = "record staged" =>
       Desires(command.f) /\ OwnTemporary(command.f) /\ NoneFrom(command.f + 1)
  /\ command.pc = "restage" => temporary[command.f] = Absent
  /\ command.pc \in {"record temporary", "commit"} /\ Desires(command.f) =>
       OwnTemporary(command.f)

HistoryOK ==
  /\ theirs \in [File -> Nat]
  /\ directory \in BOOLEAN /\ stray \in BOOLEAN /\ drift \in BOOLEAN
  /\ phase \in {"planned", "open", "completed", "rolled back", "refused"}
  /\ phase = "open" <=> journal # NoJournal
  /\ crashes \in Nat /\ recoveries \in Nat /\ edits \in Nat

ShapeInv ==
  DiskOK(File) /\ JournalOK /\ CommandOK /\ TemporaryOK /\ HistoryOK

-----------------------------------------------------------------------------
LEMMA KindFacts ==
  /\ N \in Nat \ {0} /\ File = 1..N
  /\ \A f \in File : Kind[f] \in {"create", "update", "delete"}
BY KindAssumption DEF N, File

\* Every file has a side at which it exists, and its sides differ.
LEMMA PlannedFacts ==
  ASSUME NEW f \in File, NEW s \in Side
  PROVE  /\ Planned(f)[s] \in FileState
         /\ Planned(f)[s].data \in {"absent", "old", "new"}
         /\ Planned(f)[s].ino \in {0, 1}
         /\ Exists(Planned(f)[s]) => Planned(f)[s].data \in {"old", "new"}
         /\ Planned(f)[s].data # Planned(f)[OppositeSide(s)].data
         /\ Exists(Planned(f)[s]) \/ Exists(Planned(f)[OppositeSide(s)])
         /\ Planned(f)["before"] = Original(f)
         /\ BeforeData(f) = Planned(f)["before"].data
         /\ AfterData(f) = Planned(f)["after"].data
<1> USE DEF Planned, Original, Exists, Absent, PlannedNew, FileState, Data, BeforeData, AfterData
<1>1. CASE s = "before"
  BY <1>1, KindFacts, SideFacts
<1>2. CASE s = "after"
  BY <1>2, KindFacts, SideFacts
<1> QED
  BY <1>1, <1>2, SideFacts

LEMMA SidesOfCommand ==
  /\ DesiredSide \in Side /\ ExpectedSide \in Side
  /\ ExpectedSide = OppositeSide(DesiredSide)
  /\ DesiredSide = OppositeSide(ExpectedSide)
BY SideFacts DEF DesiredSide, ExpectedSide

LEMMA JournalFacts ==
  /\ NoJournal \notin Journal
  /\ InitialJournal \in Journal
<1>1. NoJournal \notin Journal
  BY DEF NoJournal, Journal, JournalState
<1>2. [f \in File |-> NoTemporary] \in [File -> [side : Side, state : FileState] \cup {NoTemporary}]
  OBVIOUS
<1>3. [f \in File |-> [before |-> Unrecorded, after |-> Unrecorded]]
        \in [File -> [Side -> FileState \cup {Unrecorded}]]
  <2>1. [before |-> Unrecorded, after |-> Unrecorded] \in [Side -> FileState \cup {Unrecorded}]
    BY DEF Side
  <2> QED
    BY <2>1
<1> QED
  BY <1>1, <1>2, <1>3, KindFacts DEF InitialJournal, Journal, JournalState

LEMMA PcNames ==
  /\ {"idle", "mkdir", "stage", "record staged", "recheck", "prepare",
      "restage", "record temporary", "publish", "commit", "unlink temporary",
      "confirm", "validating", "check", "cleanup", "rmdir", "finish"} = Pc
  /\ "idle" \in Pc /\ "mkdir" \in Pc /\ "stage" \in Pc /\ "record staged" \in Pc
  /\ "recheck" \in Pc /\ "prepare" \in Pc /\ "restage" \in Pc
  /\ "record temporary" \in Pc /\ "publish" \in Pc /\ "commit" \in Pc
  /\ "unlink temporary" \in Pc /\ "confirm" \in Pc /\ "validating" \in Pc
  /\ "check" \in Pc /\ "cleanup" \in Pc /\ "rmdir" \in Pc /\ "finish" \in Pc
BY DEF Pc

LEMMA FileFacts ==
  /\ 0 \in 0..(N + 1) /\ 1 \in 0..(N + 1) /\ N \in 0..(N + 1) /\ 1 \in File /\ N \in File
  /\ \A f \in File : f \in 0..(N + 1) /\ f + 1 \in 0..(N + 1) /\ f \in Nat
BY KindFacts

LEMMA IdleFields ==
  /\ Idle.op = "none" /\ Idle.pc = "idle" /\ Idle.f = 0
  /\ Idle \in [op : {"none", "execute", "complete", "rollback"},
               pc : Pc, f : 0..(N + 1)]
BY KindFacts DEF Idle, Pc

LEMMA GotoFacts ==
  ASSUME CommandOK, NEW pc \in Pc, NEW f \in 0..(N + 1), Goto(pc, f)
  PROVE  /\ command' \in [op : {"none", "execute", "complete", "rollback"},
                          pc : Pc, f : 0..(N + 1)]
         /\ command'.op = command.op /\ command'.pc = pc /\ command'.f = f
BY DEF CommandOK, Goto

\* The sides of the command are those of its operation.
LEMMA SameSides ==
  ASSUME command'.op = command.op
  PROVE  /\ DesiredSide' = DesiredSide /\ ExpectedSide' = ExpectedSide
         /\ Forward' = Forward
         /\ \A f : Desires(f)' <=> Desires(f)
         /\ \A f : DesiredData(f)' = DesiredData(f)
BY DEF DesiredSide, ExpectedSide, Forward, Desires, DesiredData, Exists

LEMMA EnterFileFacts ==
  ASSUME CommandOK, NEW f \in File, EnterFile(f)
  PROVE  /\ command' \in [op : {"none", "execute", "complete", "rollback"},
                          pc : Pc, f : 0..(N + 1)]
         /\ command'.op = command.op /\ command'.f = f
         /\ command'.pc \in {"publish", "prepare"}
<1>1. PICK pc \in {"publish", "prepare"} : Goto(pc, f)
  BY DEF EnterFile
<1> QED
  BY <1>1, GotoFacts, PcNames, FileFacts

\* A command that runs has a journal.
LEMMA RunningFacts ==
  ASSUME ShapeInv, command.pc # "idle"
  PROVE  /\ command # Idle /\ command.op \in {"execute", "complete", "rollback"}
         /\ journal # NoJournal /\ journal \in Journal /\ phase = "open"
         /\ journal.applied \in 0..N /\ journal.applied \in Nat
<1>1. command # Idle
  BY IdleFields
<1>2. /\ command.op \in {"execute", "complete", "rollback"}
      /\ journal # NoJournal /\ phase = "open"
  BY <1>1 DEF ShapeInv, CommandOK, HistoryOK
<1>3. journal \in Journal /\ journal.applied \in 0..N
  BY <1>2 DEF ShapeInv, JournalOK, Journal
<1> QED
  BY <1>1, <1>2, <1>3

LEMMA IdleFacts ==
  ASSUME ShapeInv, command.pc = "idle" \/ command.op = "none"
  PROVE  command = Idle
BY DEF ShapeInv, CommandOK

LEMMA InLoop ==
  ASSUME command' \in [op : {"none", "execute", "complete", "rollback"},
                       pc : Pc, f : 0..(N + 1)],
         command'.op # "none", command'.pc \in LoopPc, command'.f \in File,
         journal' # NoJournal, journal'.state = "committing",
         command'.op # "rollback" => journal'.applied >= command'.f - 1
  PROVE  CommandOK'
BY DEF CommandOK, LoopPc, Forward

LEMMA NoTemporaryNeeded ==
  ASSUME command'.pc \notin {"idle", "mkdir", "stage", "record staged", "restage",
                             "record temporary", "commit"}
  PROVE  TemporaryOK'
BY IdleFields DEF TemporaryOK

LEMMA JournalKept ==
  ASSUME JournalOK, journal' = journal
  PROVE  /\ JournalOK'
         /\ \A f \in File : Change(f)' = Change(f)
<1>1. \A f \in File : Change(f)' = Change(f)
  BY DEF Change, Planned, Original
<1>2. \A f \in File : ChangeOK(Change(f))' = ChangeOK(Change(f)')
  OBVIOUS
<1> QED
  BY <1>1 DEF JournalOK, AcceptedProgress, ChangeOK, Exists, SamePayload

\* No command runs.
LEMMA IdleCommand ==
  ASSUME command' = Idle
  PROVE  CommandOK'
BY IdleFields DEF CommandOK, LoopPc

LEMMA IdleTemporary ==
  ASSUME ShapeInv, command' = Idle, temporary' = temporary, phase' = phase
  PROVE  TemporaryOK'
<1>1. command = Idle \/ phase = "open"
  BY DEF ShapeInv, CommandOK, HistoryOK
<1>2. phase' = "planned" => NoneFrom(1)
  BY <1>1 DEF ShapeInv, TemporaryOK
<1>3. phase' = "planned" => NoneFrom(1)'
  BY <1>2 DEF NoneFrom
<1>4. command'.pc = "idle"
  BY IdleFields
<1> QED
  BY <1>3, <1>4 DEF TemporaryOK

\* A command that ends without touching anything.
LEMMA FailKeepsShape ==
  ASSUME ShapeInv, NEW reason, Fail(reason), UNCHANGED environment
  PROVE  ShapeInv'
<1>1. DiskOK(File)' /\ JournalOK'
  BY DiskKept, JournalKept DEF ShapeInv, Fail, disk
<1>2. command' = Idle /\ temporary' = temporary /\ phase' = phase
  BY DEF Fail, Ended, disk
<1>3. CommandOK' /\ TemporaryOK'
  BY <1>2, IdleCommand, IdleTemporary
<1>6. HistoryOK'
  BY DEF ShapeInv, HistoryOK, Fail, disk, environment
<1> QED
  BY <1>1, <1>3, <1>6 DEF ShapeInv

\* A step of a command that writes no snapshot.
LEMMA CommandGoesOn ==
  ASSUME ShapeInv, Continues, UNCHANGED <<environment, journal>>,
         directory' \in BOOLEAN, DiskOK(File)', CommandOK', TemporaryOK'
  PROVE  ShapeInv'
<1>1. JournalOK'
  BY JournalKept DEF ShapeInv
<1>2. HistoryOK'
  BY DEF ShapeInv, HistoryOK, Continues, environment
<1> QED
  BY <1>1, <1>2 DEF ShapeInv

\* A snapshot that is published: the disk stays.
LEMMA SnapshotGoesOn ==
  ASSUME ShapeInv, Continues, UNCHANGED <<environment, disk>>, journal # NoJournal,
         journal' \in Journal, \A g \in File : ChangeOK(Change(g)'),
         AcceptedProgress', CommandOK', TemporaryOK'
  PROVE  ShapeInv'
<1>1. JournalOK'
  BY JournalFacts DEF JournalOK, ChangeOK, Exists, SamePayload
<1>2. HistoryOK'
  BY JournalFacts DEF ShapeInv, HistoryOK, Continues, environment, disk
<1>3. DiskOK(File)'
  BY DiskKept DEF ShapeInv, disk
<1> QED
  BY <1>1, <1>2, <1>3 DEF ShapeInv

LEMMA ExecuteShape ==
  ASSUME ShapeInv, Execute
  PROVE  ShapeInv'
<1>0. command = Idle /\ phase = "planned" /\ journal = NoJournal
  BY DEF Execute, ShapeInv, HistoryOK
<1>1. DiskOK(File)'
  BY DiskKept DEF Execute, ShapeInv, disk
<1>2. CASE directory = MakesDirectory \/ ~StillAsPlanned
  <2>1. /\ phase' = "refused" /\ journal' = NoJournal /\ command' = Idle
        /\ UNCHANGED <<disk, environment, crashes, recoveries>>
    BY <1>0, <1>2 DEF Execute
  <2>2. CommandOK'
    BY <1>0, <2>1, IdleFields DEF ShapeInv, CommandOK, LoopPc
  <2>3. TemporaryOK' /\ JournalOK'
    BY <2>1, IdleFields DEF TemporaryOK, JournalOK
  <2>4. HistoryOK'
    BY <2>1, <1>0 DEF ShapeInv, HistoryOK, disk, environment
  <2> QED
    BY <1>1, <2>2, <2>3, <2>4 DEF ShapeInv
<1>3. CASE ~(directory = MakesDirectory \/ ~StillAsPlanned)
  <2>1. /\ phase' = "open" /\ journal' = InitialJournal
        /\ command' = [op |-> "execute", pc |-> "mkdir", f |-> 0]
        /\ UNCHANGED <<disk, environment, crashes, recoveries>>
    BY <1>3 DEF Execute
  <2>2. journal' # NoJournal /\ journal' \in Journal
    BY <2>1, JournalFacts
  <2>3. CommandOK'
    BY <2>1, <2>2, KindFacts, IdleFields DEF CommandOK, LoopPc, Pc, Forward, InitialJournal
  <2>4. TemporaryOK'
    BY <1>0, <2>1, IdleFields DEF ShapeInv, TemporaryOK, NoneFrom, disk
  <2>5. ASSUME NEW g \in File PROVE ChangeOK(Change(g)')
    <3>1. /\ Change(g)'.temporary = NoTemporary
          /\ Change(g)'.published = [before |-> Unrecorded, after |-> Unrecorded]
          /\ Change(g)'.planned = Planned(g)
      BY <2>1 DEF Change, InitialJournal, Planned, Original
    <3> QED
      BY <3>1, PlannedFacts, SideFacts DEF ChangeOK
  <2>6. AcceptedProgress'
    <3>1. \A f \in File, s \in Side : journal'.published[f][s] = Unrecorded
      BY <2>1, SideFacts DEF InitialJournal
    <3>2. journal'.applied = 0 /\ journal'.state = "planning"
      BY <2>1 DEF InitialJournal
    <3> QED
      BY <3>1, <3>2 DEF AcceptedProgress
  <2>7. JournalOK'
    BY <2>2, <2>5, <2>6 DEF JournalOK, ChangeOK, SamePayload, Exists
  <2>8. HistoryOK'
    BY <2>1, <2>2, <1>0 DEF ShapeInv, HistoryOK, disk, environment
  <2> QED
    BY <1>1, <2>3, <2>4, <2>7, <2>8 DEF ShapeInv
<1> QED
  BY <1>2, <1>3

LEMMA PrepareDirectoriesShape ==
  ASSUME ShapeInv, PrepareDirectories
  PROVE  ShapeInv'
<1> USE KindFacts DEF ShapeInv
<1>1. /\ command.op \in {"execute", "complete"} /\ command.pc = "mkdir"
      /\ target' = target /\ temporary' = temporary /\ clock' = clock
      /\ journal' = journal
  BY IdleFields DEF PrepareDirectories, At, CommandOK, Forward
<1>2. DiskOK(File)'
  BY <1>1, DiskKept
<1>3. CASE command.op = "execute"
  <2>0. Goto("stage", 1)
    BY <1>3 DEF PrepareDirectories
  <2>1. /\ command' \in [op : {"none", "execute", "complete", "rollback"},
                         pc : Pc, f : 0..(N + 1)]
        /\ command'.op = command.op /\ command'.pc = "stage" /\ command'.f = 1
    BY <2>0, GotoFacts, PcNames, FileFacts
  <2>2. CommandOK'
    BY <1>1, <2>1, <1>3, IdleFields DEF CommandOK, LoopPc
  <2>3. TemporaryOK'
    BY <1>1, <2>1, <1>3, IdleFields DEF TemporaryOK, NoneFrom
  <2> QED
    BY <1>1, <1>2, <2>2, <2>3, CommandGoesOn DEF PrepareDirectories
<1>4. CASE command.op = "complete"
  <2>0. EnterFile(1)
    BY <1>4 DEF PrepareDirectories
  <2>1. /\ command' \in [op : {"none", "execute", "complete", "rollback"},
                         pc : Pc, f : 0..(N + 1)]
        /\ command'.op = command.op /\ command'.pc \in {"publish", "prepare"}
        /\ command'.f = 1
    BY <2>0, EnterFileFacts, FileFacts
  <2>2. CommandOK'
    <3>1. /\ journal' # NoJournal /\ journal'.state = "committing"
          /\ journal'.applied >= 0
      BY <1>1, <1>4, RunningFacts DEF CommandOK
    <3> QED
      <4>1. command'.pc \in LoopPc /\ command'.op # "none" /\ command'.f \in File
        BY <1>4, <2>1, FileFacts DEF LoopPc
      <4>2. journal'.applied >= command'.f - 1
        BY <2>1, <3>1, <1>1, RunningFacts
      <4> QED
        BY <2>1, <3>1, <4>1, <4>2, InLoop
  <2>3. TemporaryOK'
    BY <2>1, NoTemporaryNeeded
  <2> QED
    BY <1>1, <1>2, <2>2, <2>3, CommandGoesOn DEF PrepareDirectories
<1> QED
  BY <1>1, <1>3, <1>4

LEMMA StageTemporaryShape ==
  ASSUME ShapeInv, StageTemporary
  PROVE  ShapeInv'
<1> USE KindFacts DEF ShapeInv
<1>0. PICK f \in File : f = command.f
  <2>1. command.pc = "stage" /\ command.f <= N
    BY DEF StageTemporary, At
  <2>2. command.f \in 1..(N + 1)
    BY <2>1 DEF CommandOK
  <2> QED
    BY <2>1, <2>2
<1>1. /\ command.op = "execute" /\ command.pc = "stage" /\ f \in File
      /\ journal' = journal /\ directory' \in BOOLEAN /\ journal.state = "planning"
      /\ DesiredSide = "after"
      /\ NoneFrom(f)
  BY <1>0 DEF StageTemporary, At, CommandOK, TemporaryOK, HistoryOK, DesiredSide
<1>2. CASE Desires(f)
  <2>0. WriteTemporary(f, "after") /\ Goto("record staged", f)
    BY <1>0, <1>1, <1>2 DEF StageTemporary
  <2>1. /\ command' \in [op : {"none", "execute", "complete", "rollback"},
                         pc : Pc, f : 0..(N + 1)]
        /\ command'.op = command.op /\ command'.pc = "record staged" /\ command'.f = f
    BY <1>1, <2>0, GotoFacts, PcNames, FileFacts
  <2>2. /\ DesiredData(f) \in {"old", "new"} /\ DesiredData(f) = Planned(f)["after"].data
        /\ temporary[f] = Absent
    BY <1>1, <1>2, PlannedFacts, SideFacts DEF Desires, DesiredData, NoneFrom
  <2>3. /\ DiskOK(File)' /\ OnlyAt(File, f) /\ temporary'[f] = Fresh(f, DesiredData(f))
    BY <1>1, <2>0, <2>2, CreateTemporaryEffect DEF WriteTemporary
  <2>4. Desires(f)' /\ DesiredData(f)' = DesiredData(f)
    BY <1>2, <2>1, SameSides
  <2>5. CommandOK'
    BY <1>1, <2>1, IdleFields DEF CommandOK, LoopPc
  <2>6. TemporaryOK'
    <3>1. OwnTemporary(f)'
      BY <1>1, <2>2, <2>3, <2>4, FreshOnDisk DEF OwnTemporary
    <3>2. NoneFrom(f + 1)'
      BY <1>1, <2>3 DEF OnlyAt, NoneFrom
    <3> QED
      BY <1>1, <2>1, <2>4, <3>1, <3>2, IdleFields DEF TemporaryOK
  <2> QED
    BY <1>1, <2>3, <2>5, <2>6, CommandGoesOn DEF StageTemporary
<1>3. CASE ~Desires(f)
  <2>0. Goto("stage", f + 1) /\ UNCHANGED <<target, temporary, clock>>
    BY <1>0, <1>1, <1>3 DEF StageTemporary
  <2>1. /\ command' \in [op : {"none", "execute", "complete", "rollback"},
                         pc : Pc, f : 0..(N + 1)]
        /\ command'.op = command.op /\ command'.pc = "stage" /\ command'.f = f + 1
    BY <1>1, <2>0, GotoFacts, PcNames, FileFacts
  <2>2. CommandOK'
    BY <1>1, <2>1, IdleFields DEF CommandOK, LoopPc
  <2>3. TemporaryOK'
    BY <1>1, <2>0, <2>1, IdleFields DEF TemporaryOK, NoneFrom
  <2>4. DiskOK(File)'
    BY <2>0, DiskKept
  <2> QED
    BY <1>1, <2>2, <2>3, <2>4, CommandGoesOn DEF StageTemporary
<1> QED
  BY <1>2, <1>3

\* A snapshot that records a temporary.
LEMMA RecordsTemporary ==
  ASSUME journal \in Journal, NEW f \in File, NEW r \in [side : Side, state : FileState],
         journal' = [journal EXCEPT !.temporary[f] = r]
  PROVE  /\ journal' \in Journal
         /\ journal'.state = journal.state /\ journal'.applied = journal.applied
         /\ journal'.published = journal.published
         /\ journal'.temporary[f] = r
         /\ \A g \in File \ {f} : journal'.temporary[g] = journal.temporary[g]
BY DEF Journal

\* A snapshot that records an endpoint.
EndpointIs(f, s, state, applied) ==
  journal' = [journal EXCEPT !.published[f][s] = state, !.applied = applied]

LEMMA RecordsEndpoint ==
  ASSUME journal \in Journal, NEW f \in File, NEW s \in Side, NEW state \in FileState,
         NEW applied \in 0..N,
         EndpointIs(f, s, state, applied)
  PROVE  /\ journal' \in Journal
         /\ journal'.state = journal.state /\ journal'.applied = applied
         /\ journal'.temporary = journal.temporary
         /\ journal'.published[f][s] = state
         /\ \A g \in File, t \in Side :
              g # f \/ t # s => journal'.published[g][t] = journal.published[g][t]
BY DEF Journal, EndpointIs

LEMMA RecordsState ==
  ASSUME journal \in Journal, NEW state \in JournalState,
         journal' = [journal EXCEPT !.state = state]
  PROVE  /\ journal' \in Journal
         /\ journal'.state = state /\ journal'.applied = journal.applied
         /\ journal'.temporary = journal.temporary
         /\ journal'.published = journal.published
         /\ \A g \in File : Change(g)' = Change(g)
BY DEF Journal, Change, Planned, Original

TemporaryRecorded(f, side, state) ==
  journal' = [journal EXCEPT !.temporary[f] = [side |-> side, state |-> state]]

\* The entry of f stays one that is accepted when a temporary is recorded that
\* has the planned bytes.
LEMMA RecordedTemporaryAccepted ==
  ASSUME ShapeInv, journal # NoJournal, NEW f \in File,
         NEW side \in Side, NEW state \in OnDisk,
         Exists(state), state.data = Planned(f)[side].data,
         state.nlink = 2 => ~Exists(Planned(f)[OppositeSide(side)]),
         TemporaryRecorded(f, side, state)
  PROVE  /\ journal' \in Journal /\ AcceptedProgress'
         /\ journal'.state = journal.state /\ journal'.applied = journal.applied
         /\ \A g \in File : ChangeOK(Change(g)')
<1> DEFINE r == [side |-> side, state |-> state]
<1>1. r \in [side : Side, state : FileState] /\ state.nlink \in {1, 2}
  BY DEF OnDisk, Absent, Exists
<1>2. /\ journal' \in Journal
      /\ journal'.state = journal.state /\ journal'.applied = journal.applied
      /\ journal'.published = journal.published
      /\ journal'.temporary[f] = r
      /\ \A g \in File \ {f} : journal'.temporary[g] = journal.temporary[g]
  BY <1>1, RecordsTemporary DEF ShapeInv, JournalOK, TemporaryRecorded
<1>3. AcceptedProgress'
  BY <1>2 DEF ShapeInv, JournalOK, AcceptedProgress
<1>4. ASSUME NEW g \in File PROVE ChangeOK(Change(g)')
  <2>0. ChangeOK(Change(g))
    BY DEF ShapeInv, JournalOK
  <2>1. /\ Change(g)'.planned = Planned(g)
        /\ Change(g)'.published = journal.published[g]
        /\ Change(g)'.temporary = journal'.temporary[g]
        /\ Change(g).planned = Planned(g)
        /\ Change(g).published = journal.published[g]
        /\ Change(g).temporary = journal.temporary[g]
    BY <1>2 DEF Change, Planned, Original
  <2>2. CASE g = f
    <3>1. Change(g)'.temporary.side = side /\ Change(g)'.temporary.state = state
      BY <1>2, <2>1, <2>2
    <3> QED
      BY <2>0, <2>1, <2>2, <1>1, <3>1 DEF ChangeOK, SamePayload
  <2>3. CASE g # f
    BY <2>0, <2>1, <2>3, <1>2 DEF ChangeOK
  <2> QED
    BY <2>2, <2>3
<1> QED
  BY <1>2, <1>3, <1>4

LEMMA RecordStagedShape ==
  ASSUME ShapeInv, RecordStaged
  PROVE  ShapeInv'
<1> USE KindFacts DEF ShapeInv
<1>0. PICK f \in File : f = command.f
  BY DEF RecordStaged, At, CommandOK
<1>1. /\ command.op = "execute" /\ command.pc = "record staged"
      /\ journal.state = "planning" /\ DesiredSide = "after"
      /\ Desires(f) /\ OwnTemporary(f) /\ NoneFrom(f + 1)
      /\ journal # NoJournal
  BY <1>0, RunningFacts DEF RecordStaged, At, CommandOK, TemporaryOK, DesiredSide
<1>2. /\ TemporaryRecorded(f, "after", temporary[f])
      /\ Goto("stage", f + 1) /\ Continues /\ UNCHANGED <<disk, environment>>
  BY <1>0 DEF RecordStaged, TemporaryRecorded
<1>3. /\ temporary[f] \in OnDisk /\ Exists(temporary[f]) /\ temporary[f].nlink = 1
      /\ temporary[f].data = Planned(f)["after"].data
  BY <1>1, PairAt DEF OwnTemporary, DesiredData
<1>4. /\ journal' \in Journal /\ AcceptedProgress'
      /\ journal'.state = journal.state
      /\ \A g \in File : ChangeOK(Change(g)')
  <2>1. "after" \in Side /\ TemporaryRecorded(f, "after", temporary[f])
        /\ (temporary[f].nlink = 2 => ~Exists(Planned(f)[OppositeSide("after")]))
    BY <1>2, <1>3, SideFacts
  <2> QED
    BY <1>0, <1>1, <1>3, <2>1, RecordedTemporaryAccepted
<1>5. /\ command' \in [op : {"none", "execute", "complete", "rollback"},
                       pc : Pc, f : 0..(N + 1)]
      /\ command'.op = command.op /\ command'.pc = "stage" /\ command'.f = f + 1
  BY <1>2, GotoFacts, PcNames, FileFacts
<1>6. CommandOK'
  <2>1. f + 1 \in 1..(N + 1) /\ journal' # NoJournal
    BY <1>4, JournalFacts
  <2> QED
    BY <1>1, <1>4, <1>5, <2>1 DEF CommandOK, LoopPc
<1>7. TemporaryOK'
  BY <1>1, <1>2, <1>5, IdleFields DEF TemporaryOK, NoneFrom, disk
<1> QED
  BY <1>1, <1>2, <1>4, <1>6, <1>7, SnapshotGoesOn

LEMMA MarkPreparedShape ==
  ASSUME ShapeInv, MarkPrepared
  PROVE  ShapeInv'
<1> USE KindFacts DEF ShapeInv
<1>1. /\ command.op = "execute" /\ command.pc = "stage" /\ journal.state = "planning"
      /\ journal # NoJournal /\ journal \in Journal
  BY RunningFacts DEF MarkPrepared, At, CommandOK
<1>2. /\ journal' = [journal EXCEPT !.state = "prepared"]
      /\ Goto("recheck", 0) /\ Continues /\ UNCHANGED <<disk, environment>>
  BY DEF MarkPrepared
<1>3. /\ journal' \in Journal
      /\ journal'.state = "prepared" /\ journal'.applied = journal.applied
      /\ journal'.published = journal.published
      /\ \A g \in File : Change(g)' = Change(g)
  BY <1>1, <1>2, RecordsState DEF JournalState
<1>4. AcceptedProgress' /\ \A g \in File : ChangeOK(Change(g)')
  BY <1>1, <1>3 DEF JournalOK, AcceptedProgress
<1>5. /\ command' \in [op : {"none", "execute", "complete", "rollback"},
                       pc : Pc, f : 0..(N + 1)]
      /\ command'.op = command.op /\ command'.pc = "recheck" /\ command'.f = 0
  BY <1>2, GotoFacts, PcNames, FileFacts
<1>6. CommandOK'
  BY <1>1, <1>3, <1>5, JournalFacts DEF CommandOK, LoopPc
<1>7. TemporaryOK'
  BY <1>5, NoTemporaryNeeded
<1> QED
  BY <1>1, <1>2, <1>3, <1>4, <1>6, <1>7, SnapshotGoesOn

LEMMA BeginCommitShape ==
  ASSUME ShapeInv, BeginCommit
  PROVE  ShapeInv'
<1> USE KindFacts DEF ShapeInv
<1>1. /\ command.op = "execute" /\ command.pc = "recheck" /\ journal.state = "prepared"
      /\ journal # NoJournal /\ journal \in Journal
  BY RunningFacts DEF BeginCommit, At, CommandOK
<1>2. CASE ~StillAsPlanned /\ Fail("cas_conflict")
  BY <1>2, FailKeepsShape DEF BeginCommit
<1>3. CASE /\ StillAsPlanned
           /\ journal' = [journal EXCEPT !.state = "committing"]
           /\ EnterFile(1) /\ Continues /\ UNCHANGED disk
  <2>1. /\ journal' \in Journal /\ journal' # NoJournal
        /\ journal'.state = "committing" /\ journal'.applied = journal.applied
        /\ journal'.published = journal.published
        /\ \A g \in File : Change(g)' = Change(g)
    BY <1>1, <1>3, RecordsState, JournalFacts DEF JournalState
  <2>2. AcceptedProgress' /\ \A g \in File : ChangeOK(Change(g)')
    BY <1>1, <2>1 DEF JournalOK, AcceptedProgress
  <2>3. /\ command' \in [op : {"none", "execute", "complete", "rollback"},
                         pc : Pc, f : 0..(N + 1)]
        /\ command'.op = command.op /\ command'.pc \in {"publish", "prepare"}
        /\ command'.f = 1
    BY <1>3, EnterFileFacts, FileFacts
  <2>4. CommandOK'
    <3>1. command'.pc \in LoopPc /\ command'.op # "none" /\ command'.f \in File
      BY <1>1, <2>3, FileFacts DEF LoopPc
    <3>2. journal'.applied >= command'.f - 1
      BY <1>1, <2>1, <2>3, RunningFacts
    <3> QED
      BY <2>1, <2>3, <3>1, <3>2, InLoop
  <2>5. TemporaryOK'
    BY <2>3, NoTemporaryNeeded
  <2> QED
    BY <1>1, <1>3, <2>1, <2>2, <2>4, <2>5, SnapshotGoesOn DEF BeginCommit
<1> QED
  BY <1>2, <1>3 DEF BeginCommit

LEMMA LoopFacts ==
  ASSUME ShapeInv, command.pc \in LoopPc
  PROVE  /\ command.f \in File /\ command.op \in {"execute", "complete", "rollback"}
         /\ journal # NoJournal /\ journal \in Journal /\ journal.state = "committing"
         /\ command.op # "rollback" => journal.applied >= command.f - 1
         /\ ChangeOK(Change(command.f))
         /\ target[command.f] \in OnDisk /\ temporary[command.f] \in OnDisk
<1>1. command.pc # "idle"
  BY DEF LoopPc
<1>2. /\ command.f \in File /\ journal.state = "committing"
      /\ command.op # "rollback" => journal.applied >= command.f - 1
  BY DEF ShapeInv, CommandOK, Forward
<1> QED
  BY <1>1, <1>2, RunningFacts, PairAt DEF ShapeInv, JournalOK

\* A step inside the handling of one file.
LEMMA LoopGoesOn ==
  ASSUME ShapeInv, command.pc \in LoopPc, NEW pc \in LoopPc, Goto(pc, command.f),
         journal' # NoJournal,
         journal'.state = journal.state, journal'.applied = journal.applied
  PROVE  /\ CommandOK'
         /\ command'.op = command.op /\ command'.pc = pc /\ command'.f = command.f
<1>1. pc \in Pc /\ command.f \in 0..(N + 1)
  BY LoopFacts, FileFacts DEF LoopPc, Pc
<1>2. /\ command' \in [op : {"none", "execute", "complete", "rollback"},
                       pc : Pc, f : 0..(N + 1)]
      /\ command'.op = command.op /\ command'.pc = pc /\ command'.f = command.f
  BY <1>1, GotoFacts DEF ShapeInv
<1> QED
  BY <1>2, LoopFacts, InLoop

\* Enough of TemporaryOK for a point of the loop.
LEMMA LoopTemporary ==
  ASSUME command'.pc \in LoopPc,
         command'.pc = "restage" => temporary'[command'.f] = Absent,
         command'.pc \in {"record temporary", "commit"} /\ Desires(command.f)' =>
           OwnTemporary(command.f)'
  PROVE  TemporaryOK'
<1>1. command'.pc \notin {"idle", "mkdir", "stage", "record staged"}
  BY DEF LoopPc
<1> QED
  BY <1>1, IdleFields DEF TemporaryOK

LEMMA LoopPcNames ==
  /\ "prepare" \in LoopPc /\ "restage" \in LoopPc /\ "record temporary" \in LoopPc
  /\ "publish" \in LoopPc /\ "commit" \in LoopPc /\ "unlink temporary" \in LoopPc
  /\ "confirm" \in LoopPc
BY DEF LoopPc

LEMMA LeaveFileFacts ==
  ASSUME ShapeInv, command.pc \in LoopPc, NEW f, f = command.f, LeaveFile(f),
         journal' # NoJournal, journal'.state = "committing", journal'.applied \in 0..N,
         command.op # "rollback" => journal'.applied >= f
  PROVE  /\ CommandOK' /\ TemporaryOK'
         /\ command'.op = command.op
         /\ \/ /\ command.op = "rollback" /\ f = 1
               /\ command'.pc = "check"
            \/ /\ command.op = "rollback" /\ f # 1 /\ f - 1 \in File
               /\ command'.pc \in {"prepare", "publish"} /\ command'.f = f - 1
            \/ /\ command.op # "rollback" /\ f = N
               /\ command'.pc = "validating"
            \/ /\ command.op # "rollback" /\ f # N /\ f + 1 \in File
               /\ command'.pc \in {"prepare", "publish"} /\ command'.f = f + 1
<1>0. f \in File /\ command.op \in {"execute", "complete", "rollback"}
  BY LoopFacts
<1>1. CASE command.op = "rollback" /\ f = 1
  <2>1. /\ command' \in [op : {"none", "execute", "complete", "rollback"},
                         pc : Pc, f : 0..(N + 1)]
        /\ command'.op = command.op /\ command'.pc = "check" /\ command'.f = 0
    BY <1>1, GotoFacts, PcNames, FileFacts DEF LeaveFile, ShapeInv
  <2>2. CommandOK'
    BY <1>0, <2>1 DEF CommandOK, LoopPc
  <2> QED
    BY <1>1, <2>1, <2>2, NoTemporaryNeeded
<1>2. CASE command.op # "rollback" /\ f = N
  <2>1. /\ command' \in [op : {"none", "execute", "complete", "rollback"},
                         pc : Pc, f : 0..(N + 1)]
        /\ command'.op = command.op /\ command'.pc = "validating" /\ command'.f = 0
    BY <1>2, GotoFacts, PcNames, FileFacts DEF LeaveFile, ShapeInv
  <2>2. journal'.applied = N
    BY <1>2, KindFacts
  <2>3. CommandOK'
    BY <1>0, <1>2, <2>1, <2>2 DEF CommandOK, LoopPc, Forward
  <2> QED
    BY <1>2, <2>1, <2>3, NoTemporaryNeeded
<1>3. ASSUME NEW g \in File, EnterFile(g), command.op # "rollback" => g = f + 1
      PROVE  /\ CommandOK' /\ TemporaryOK'
             /\ command'.op = command.op
             /\ command'.pc \in {"prepare", "publish"} /\ command'.f = g
  <2>1. /\ command' \in [op : {"none", "execute", "complete", "rollback"},
                         pc : Pc, f : 0..(N + 1)]
        /\ command'.op = command.op /\ command'.pc \in {"publish", "prepare"}
        /\ command'.f = g
    BY <1>3, EnterFileFacts DEF ShapeInv
  <2>2. command'.pc \in LoopPc /\ command'.f \in File /\ command'.op # "none"
    BY <1>0, <1>3, <2>1, LoopPcNames
  <2>3. command'.op # "rollback" => journal'.applied >= command'.f - 1
    BY <1>0, <1>3, <2>1, FileFacts
  <2> QED
    BY <2>1, <2>2, <2>3, InLoop, NoTemporaryNeeded
<1>4. CASE command.op = "rollback" /\ f # 1
  <2>1. f - 1 \in File /\ EnterFile(f - 1)
    BY <1>0, <1>4, KindFacts DEF LeaveFile
  <2> QED
    BY <1>3, <1>4, <2>1
<1>5. CASE command.op # "rollback" /\ f # N
  <2>1. f + 1 \in File /\ EnterFile(f + 1)
    BY <1>0, <1>5, KindFacts DEF LeaveFile
  <2> QED
    BY <1>3, <1>5, <2>1
<1> QED
  BY <1>1, <1>2, <1>4, <1>5

\* The new length of the prefix.
NewApplied(f) == IF command.op = "rollback" THEN MarkRolledBack(f) ELSE MarkApplied(f)

LEMMA NewAppliedFacts ==
  ASSUME journal \in Journal, NEW f \in File
  PROVE  /\ NewApplied(f) \in 0..N
         /\ command.op = "rollback" => /\ NewApplied(f) <= journal.applied
                                       /\ NewApplied(f) <= f - 1
                                       /\ NewApplied(f) \in {journal.applied, f - 1}
         /\ command.op # "rollback" => /\ NewApplied(f) >= f
                                       /\ NewApplied(f) \in {journal.applied, f}
<1>1. journal.applied \in 0..N
  BY DEF Journal
<1> QED
  BY <1>1, KindFacts DEF NewApplied, MarkRolledBack, MarkApplied

EndpointRecorded(f) == EndpointIs(f, DesiredSide, target[f], NewApplied(f))

LEMMA RecordEndpointCases ==
  ASSUME ShapeInv, RecordEndpoint, NEW f, f = command.f
  PROVE  /\ command.pc \in {"confirm", "prepare", "publish"}
         /\ UNCHANGED environment
         /\ \/ Fail("post_commit_mismatch")
            \/ /\ DesiredEndpointReached(Change(f), target[f], temporary[f], DesiredSide)
               /\ EndpointRecorded(f) /\ LeaveFile(f) /\ Continues /\ UNCHANGED disk
BY DEF RecordEndpoint, At, EndpointRecorded, EndpointIs, NewApplied

LEMMA EndpointRecordedFacts ==
  ASSUME ShapeInv, command.pc \in LoopPc, NEW f \in File, f = command.f,
         DesiredEndpointReached(Change(f), target[f], temporary[f], DesiredSide),
         EndpointRecorded(f)
  PROVE  /\ journal' \in Journal /\ journal' # NoJournal
         /\ journal'.state = "committing" /\ journal'.applied = NewApplied(f)
         /\ journal'.temporary = journal.temporary
         /\ journal'.published[f][DesiredSide] = target[f]
         /\ \A g \in File, t \in Side : g # f \/ t # DesiredSide =>
              journal'.published[g][t] = journal.published[g][t]
         /\ target[f].data = DesiredData(f)
         /\ AcceptedProgress' /\ \A g \in File : ChangeOK(Change(g)')
<1>0. /\ journal \in Journal /\ journal.state = "committing" /\ journal # NoJournal
      /\ target[f] \in OnDisk /\ temporary[f] \in OnDisk /\ ChangeOK(Change(f))
      /\ command.op # "rollback" => journal.applied >= f - 1
  BY LoopFacts
<1>1. target[f] \in FileState /\ NewApplied(f) \in 0..N /\ DesiredSide \in Side
  BY <1>0, NewAppliedFacts, SidesOfCommand DEF OnDisk
<1>2. /\ journal' \in Journal
      /\ journal'.state = "committing" /\ journal'.applied = NewApplied(f)
      /\ journal'.temporary = journal.temporary
      /\ journal'.published[f][DesiredSide] = target[f]
      /\ \A g \in File, t \in Side : g # f \/ t # DesiredSide =>
           journal'.published[g][t] = journal.published[g][t]
  BY <1>0, <1>1, RecordsEndpoint DEF EndpointRecorded
<1>3. SamePayload(target[f], Planned(f)[DesiredSide])
  BY <1>0, <1>1, EndpointSound DEF Change
<1>4. ASSUME NEW g \in File PROVE ChangeOK(Change(g)')
  <2>0. ChangeOK(Change(g))
    BY <1>0 DEF ShapeInv, JournalOK
  <2>1. /\ Change(g)'.planned = Planned(g) /\ Change(g).planned = Planned(g)
        /\ Change(g)'.published = journal'.published[g]
        /\ Change(g).published = journal.published[g]
        /\ Change(g)'.temporary = Change(g).temporary
    BY <1>2 DEF Change, Planned, Original
  <2>2. \A s \in Side : Change(g)'.published[s] = Change(g).published[s]
                          \/ SamePayload(Change(g)'.published[s], Planned(g)[s])
    BY <1>2, <1>3, <2>1
  <2> QED
    BY <2>0, <2>1, <2>2 DEF ChangeOK
<1>5. AcceptedProgress'
  <2>1. ASSUME NEW g \in 1..NewApplied(f) PROVE journal'.published[g]["after"] # Unrecorded
    <3>1. g \in File
      BY <1>1, KindFacts
    <3>2. CASE g = f /\ DesiredSide = "after"
      BY <1>0, <1>2, <3>2 DEF OnDisk, Absent, Unrecorded
    <3>3. CASE ~(g = f /\ DesiredSide = "after")
      <4>1. journal'.published[g]["after"] = journal.published[g]["after"]
        BY <1>2, <3>1, <3>3, SideFacts
      <4>2. g <= journal.applied
        <5>1. CASE command.op = "rollback"
          BY <1>0, <5>1, <3>1, NewAppliedFacts, KindFacts DEF Journal
        <5>2. CASE command.op # "rollback"
          <6>1. g # f /\ NewApplied(f) \in {journal.applied, f}
            BY <3>3, <5>2, <1>0, NewAppliedFacts DEF DesiredSide
          <6>2. journal.applied \in Nat /\ g \in Nat /\ f \in Nat
            BY <1>0, <3>1, KindFacts DEF Journal
          <6> QED
            BY <1>0, <5>2, <6>1, <6>2
        <5> QED
          BY <5>1, <5>2
      <4>3. g \in 1..journal.applied
        BY <1>0, <3>1, <4>2, KindFacts DEF Journal
      <4> QED
        BY <1>0, <4>1, <4>3 DEF ShapeInv, JournalOK, AcceptedProgress
    <3> QED
      BY <3>2, <3>3
  <2> QED
    BY <1>2, <2>1 DEF AcceptedProgress
<1> QED
  BY <1>2, <1>3, <1>4, <1>5, JournalFacts DEF SamePayload, DesiredData

LEMMA RecordEndpointShape ==
  ASSUME ShapeInv, RecordEndpoint
  PROVE  ShapeInv'
<1> USE DEF ShapeInv
<1>0. PICK f \in File : f = command.f
  BY RecordEndpointCases, LoopFacts, LoopPcNames
<1>1. command.pc \in LoopPc /\ UNCHANGED environment
  BY RecordEndpointCases, LoopPcNames
<1>2. CASE Fail("post_commit_mismatch")
  BY <1>1, <1>2, FailKeepsShape
<1>3. CASE /\ DesiredEndpointReached(Change(f), target[f], temporary[f], DesiredSide)
           /\ EndpointRecorded(f) /\ LeaveFile(f) /\ Continues /\ UNCHANGED disk
  <2>1. /\ journal' \in Journal /\ journal' # NoJournal
        /\ journal'.state = "committing" /\ journal'.applied = NewApplied(f)
        /\ AcceptedProgress' /\ \A g \in File : ChangeOK(Change(g)')
    BY <1>0, <1>1, <1>3, EndpointRecordedFacts
  <2>2. /\ journal'.applied \in 0..N /\ journal # NoJournal
        /\ command.op # "rollback" => journal'.applied >= f
    BY <1>0, <1>1, <2>1, NewAppliedFacts, LoopFacts
  <2>3. CommandOK' /\ TemporaryOK'
    BY <1>0, <1>1, <1>3, <2>1, <2>2, LeaveFileFacts
  <2> QED
    BY <1>1, <1>3, <2>1, <2>2, <2>3, SnapshotGoesOn
<1> QED
  BY <1>0, <1>2, <1>3, RecordEndpointCases

LEMMA KeepTemporaryShape ==
  ASSUME ShapeInv, KeepTemporary
  PROVE  ShapeInv'
<1>1. /\ command.pc \in LoopPc /\ Goto("publish", command.f) /\ Continues
      /\ UNCHANGED <<disk, environment, journal>>
  BY LoopPcNames DEF KeepTemporary, At
<1>2. CommandOK' /\ command'.pc = "publish"
  BY <1>1, LoopGoesOn, LoopFacts, LoopPcNames
<1>3. TemporaryOK'
  BY <1>2, NoTemporaryNeeded
<1>4. directory' \in BOOLEAN /\ DiskOK(File)'
  BY <1>1, DiskKept DEF disk, ShapeInv, HistoryOK
<1> QED
  BY <1>1, <1>2, <1>3, <1>4, CommandGoesOn

LEMMA DropTemporaryCases ==
  ASSUME ShapeInv, DropTemporary, NEW f, f = command.f
  PROVE  /\ command.pc = "prepare" /\ UNCHANGED environment
         /\ \/ Fail("temporary_identity_changed")
            \/ /\ UnlinkTemporary(f) /\ Goto("restage", f) /\ Continues
               /\ UNCHANGED <<directory, journal>>
BY DEF DropTemporary, At

LEMMA DropTemporaryShape ==
  ASSUME ShapeInv, DropTemporary
  PROVE  ShapeInv'
<1>0. PICK f \in File : f = command.f
  BY DropTemporaryCases, LoopFacts, LoopPcNames
<1>1. command.pc \in LoopPc /\ UNCHANGED environment
  BY DropTemporaryCases, LoopPcNames
<1>2. CASE Fail("temporary_identity_changed")
  BY <1>1, <1>2, FailKeepsShape
<1>3. CASE /\ UnlinkTemporary(f) /\ Goto("restage", f) /\ Continues
           /\ UNCHANGED <<directory, journal>>
  <2>1. DiskOK(File)' /\ temporary'[f] = Absent
    BY <1>0, <1>3, UnlinkTemporaryEffect DEF ShapeInv
  <2>2. /\ CommandOK' /\ command'.pc = "restage" /\ command'.f = f
    BY <1>0, <1>1, <1>3, LoopGoesOn, LoopFacts, LoopPcNames
  <2>3. TemporaryOK'
    BY <2>1, <2>2, LoopTemporary, LoopPcNames
  <2>4. directory' \in BOOLEAN
    BY <1>3 DEF ShapeInv, HistoryOK
  <2> QED
    BY <1>1, <1>3, <2>1, <2>2, <2>3, <2>4, CommandGoesOn
<1> QED
  BY <1>0, <1>2, <1>3, DropTemporaryCases

LEMMA StageReplacementFacts ==
  ASSUME ShapeInv, StageReplacement, NEW f, f = command.f
  PROVE  /\ command.pc \in LoopPc /\ UNCHANGED environment /\ f \in File
         /\ Desires(f) /\ temporary[f] = Absent
         /\ CreateTemporary(f, DesiredData(f)) /\ Goto("record temporary", f)
         /\ Continues /\ UNCHANGED <<directory, journal>>
         /\ DesiredData(f) \in {"old", "new"}
<1>1. command.pc \in {"restage", "prepare"}
  BY DEF StageReplacement, At
<1>2. command.pc \in LoopPc /\ f \in File
  BY <1>1, LoopFacts, LoopPcNames
<1>3. temporary[f] = Absent
  <2>1. temporary[f] \in OnDisk
    BY <1>2, PairAt DEF ShapeInv
  <2> QED
    BY <1>2, <2>1, AbsentOnDisk DEF StageReplacement, At, ShapeInv, TemporaryOK
<1>4. Desires(f)
  BY DEF StageReplacement
<1>5. DesiredData(f) \in {"old", "new"}
  BY <1>2, <1>4, PlannedFacts, SidesOfCommand DEF Desires, DesiredData
<1> QED
  BY <1>2, <1>3, <1>4, <1>5 DEF StageReplacement, WriteTemporary, DesiredData

LEMMA StageReplacementShape ==
  ASSUME ShapeInv, StageReplacement
  PROVE  ShapeInv'
<1>0. PICK f \in File : f = command.f
  BY StageReplacementFacts
<1>1. /\ command.pc \in LoopPc /\ UNCHANGED environment
      /\ Desires(f) /\ temporary[f] = Absent
      /\ CreateTemporary(f, DesiredData(f)) /\ Goto("record temporary", f)
      /\ Continues /\ UNCHANGED <<directory, journal>>
      /\ DesiredData(f) \in {"old", "new"}
  BY <1>0, StageReplacementFacts
<1>2. DiskOK(File)' /\ temporary'[f] = Fresh(f, DesiredData(f))
  BY <1>0, <1>1, CreateTemporaryEffect DEF ShapeInv
<1>3. /\ CommandOK' /\ command'.op = command.op /\ command'.pc = "record temporary"
      /\ command'.f = f
  BY <1>0, <1>1, LoopGoesOn, LoopFacts, LoopPcNames
<1>4. OwnTemporary(f)'
  <2>1. /\ Exists(temporary'[f]) /\ temporary'[f].nlink = 1
        /\ temporary'[f].data = DesiredData(f)
    <3>1. DiskOK(File) /\ DesiredData(f) \in {"old", "new", "foreign"}
      BY <1>1 DEF ShapeInv
    <3> QED
      BY <1>0, <1>2, <3>1, FreshOnDisk
  <2>2. DesiredData(f)' = DesiredData(f)
    BY <1>3, SameSides
  <2> QED
    BY <2>1, <2>2 DEF OwnTemporary
<1>5. TemporaryOK'
  BY <1>3, <1>4, IdleFields DEF TemporaryOK
<1>6. directory' \in BOOLEAN
  BY <1>1 DEF ShapeInv, HistoryOK
<1> QED
  BY <1>1, <1>2, <1>3, <1>5, <1>6, CommandGoesOn

LEMMA StageDeletionTombstoneCases ==
  ASSUME ShapeInv, StageDeletionTombstone, NEW f, f = command.f
  PROVE  /\ command.pc \in LoopPc /\ UNCHANGED environment /\ f \in File /\ ~Desires(f)
         /\ \/ Fail("recovery_conflict")
            \/ /\ Disposition(f) = ExpectedSide /\ target[f].nlink = 1
               /\ Exists(target[f]) /\ temporary[f] = Absent
               /\ LinkBoth(f, target[f]) /\ Goto("record temporary", f)
               /\ Continues /\ UNCHANGED <<directory, journal>>
<1>1. command.pc \in {"restage", "prepare"}
  BY DEF StageDeletionTombstone, At
<1>2. command.pc \in LoopPc /\ f \in File
  BY <1>1, LoopFacts, LoopPcNames
<1>3. temporary[f] = Absent
  <2>1. temporary[f] \in OnDisk
    BY <1>2, PairAt DEF ShapeInv
  <2> QED
    BY <1>2, <2>1, AbsentOnDisk DEF StageDeletionTombstone, At, ShapeInv, TemporaryOK
<1>4. target[f].nlink = 1 => Exists(target[f])
  <2>1. target[f] \in OnDisk
    BY <1>2, PairAt DEF ShapeInv
  <2> QED
    BY <2>1 DEF OnDisk, Absent, Exists
<1> QED
  BY <1>2, <1>3, <1>4 DEF StageDeletionTombstone

LEMMA StageDeletionTombstoneShape ==
  ASSUME ShapeInv, StageDeletionTombstone
  PROVE  ShapeInv'
<1>0. PICK f \in File : f = command.f
  BY StageDeletionTombstoneCases
<1>1. command.pc \in LoopPc /\ UNCHANGED environment /\ ~Desires(f)
  BY <1>0, StageDeletionTombstoneCases
<1>2. CASE Fail("recovery_conflict")
  BY <1>1, <1>2, FailKeepsShape
<1>3. CASE /\ Exists(target[f])
           /\ LinkBoth(f, target[f]) /\ Goto("record temporary", f)
           /\ Continues /\ UNCHANGED <<directory, journal>>
  <2>1. DiskOK(File)'
    <3>1. target[f] \in OnDisk /\ target[f].ino <= clock[f]
      BY <1>0, PairAt DEF ShapeInv, PairOK
    <3> QED
      BY <1>0, <1>3, <3>1, LinkBothEffect DEF ShapeInv
  <2>2. /\ CommandOK' /\ command'.op = command.op /\ command'.pc = "record temporary"
        /\ command'.f = f
    BY <1>0, <1>1, <1>3, LoopGoesOn, LoopFacts, LoopPcNames
  <2>3. ~Desires(f)'
    BY <1>1, <2>2, SameSides
  <2>4. TemporaryOK'
    BY <2>2, <2>3, IdleFields DEF TemporaryOK
  <2>5. directory' \in BOOLEAN
    BY <1>3 DEF ShapeInv, HistoryOK
  <2> QED
    BY <1>1, <1>3, <2>1, <2>2, <2>4, <2>5, CommandGoesOn
<1> QED
  BY <1>0, <1>2, <1>3, StageDeletionTombstoneCases

LEMMA RecordTemporaryCases ==
  ASSUME ShapeInv, RecordTemporary, NEW f, f = command.f
  PROVE  /\ command.pc = "record temporary" /\ UNCHANGED environment /\ f \in File
         /\ \/ Fail("deletion_tombstone_readback_mismatch")
            \/ \E side \in Side :
                 /\ TemporaryRecorded(f, side, temporary[f])
                 /\ temporary[f] \in OnDisk /\ Exists(temporary[f])
                 /\ temporary[f].data = Planned(f)[side].data
                 /\ temporary[f].nlink = 2 => ~Exists(Planned(f)[OppositeSide(side)])
                 /\ Goto("publish", f) /\ Continues /\ UNCHANGED disk
<1>1. command.pc = "record temporary" /\ UNCHANGED environment
  BY DEF RecordTemporary, At
<1>2. f \in File /\ temporary[f] \in OnDisk
  BY <1>1, LoopFacts, LoopPcNames
<1>3. CASE Desires(f)
  <2>1. OwnTemporary(f)
    BY <1>1, <1>3 DEF ShapeInv, TemporaryOK
  <2>2. /\ TemporaryRecorded(f, DesiredSide, temporary[f])
        /\ Goto("publish", f) /\ Continues /\ UNCHANGED disk
    BY <1>3 DEF RecordTemporary, TemporaryRecorded
  <2>3. /\ DesiredSide \in Side /\ temporary[f].nlink # 2 /\ Exists(temporary[f])
        /\ temporary[f].data = Planned(f)[DesiredSide].data
    BY <2>1, SidesOfCommand DEF OwnTemporary, DesiredData
  <2> QED
    BY <1>1, <1>2, <2>2, <2>3
<1>4. CASE ~Desires(f)
  <2>1. ~Exists(Planned(f)[OppositeSide(ExpectedSide)])
    BY <1>4, SidesOfCommand DEF Desires
  <2>2. CASE ~(/\ target[f] = temporary[f] /\ temporary[f].nlink = 2
               /\ SamePayload(target[f], Planned(f)[ExpectedSide]))
    BY <1>1, <1>2, <1>4, <2>2 DEF RecordTemporary
  <2>3. CASE /\ target[f] = temporary[f] /\ temporary[f].nlink = 2
             /\ SamePayload(target[f], Planned(f)[ExpectedSide])
    <3>1. /\ TemporaryRecorded(f, ExpectedSide, temporary[f])
          /\ Goto("publish", f) /\ Continues /\ UNCHANGED disk
      BY <1>4, <2>3 DEF RecordTemporary, TemporaryRecorded
    <3>2. Exists(temporary[f]) /\ temporary[f].data = Planned(f)[ExpectedSide].data
      BY <1>2, <2>3 DEF OnDisk, Absent, Exists, SamePayload
    <3> QED
      BY <1>1, <1>2, <2>1, <3>1, <3>2, SidesOfCommand
  <2> QED
    BY <2>2, <2>3
<1> QED
  BY <1>3, <1>4

LEMMA RecordTemporaryShape ==
  ASSUME ShapeInv, RecordTemporary
  PROVE  ShapeInv'
<1>0. PICK f \in File : f = command.f
  BY RecordTemporaryCases
<1>1. command.pc \in LoopPc /\ UNCHANGED environment /\ journal # NoJournal
  <2>1. command.pc = "record temporary" /\ UNCHANGED environment
    BY DEF RecordTemporary, At
  <2> QED
    BY <2>1, LoopFacts, LoopPcNames
<1>2. CASE Fail("deletion_tombstone_readback_mismatch")
  BY <1>1, <1>2, FailKeepsShape
<1>3. CASE \E side \in Side :
             /\ TemporaryRecorded(f, side, temporary[f])
             /\ temporary[f] \in OnDisk /\ Exists(temporary[f])
             /\ temporary[f].data = Planned(f)[side].data
             /\ temporary[f].nlink = 2 => ~Exists(Planned(f)[OppositeSide(side)])
             /\ Goto("publish", f) /\ Continues /\ UNCHANGED disk
  <2>1. /\ journal' \in Journal /\ AcceptedProgress'
        /\ journal'.state = journal.state /\ journal'.applied = journal.applied
        /\ \A g \in File : ChangeOK(Change(g)')
        /\ Goto("publish", f) /\ Continues /\ UNCHANGED disk
    BY <1>0, <1>1, <1>3, RecordedTemporaryAccepted
  <2>2. CommandOK' /\ command'.pc = "publish"
    BY <1>0, <1>1, <2>1, LoopGoesOn, LoopPcNames, JournalFacts
  <2>3. TemporaryOK'
    BY <2>2, NoTemporaryNeeded
  <2> QED
    BY <1>1, <2>1, <2>2, <2>3, SnapshotGoesOn
<1> QED
  BY <1>0, <1>2, <1>3, RecordTemporaryCases

\* The second compare: the file is at the expected side, the temporary is ready.
LEMMA SecondCompareCases ==
  ASSUME ShapeInv, SecondCompare, NEW f, f = command.f
  PROVE  /\ command.pc = "publish" /\ UNCHANGED environment /\ f \in File
         /\ \/ Fail("recovery_conflict")
            \/ /\ Disposition(f) = ExpectedSide /\ ReadyToPublish(f)
               /\ Desires(f) => OwnTemporary(f)
               /\ Goto("commit", f) /\ Continues /\ UNCHANGED <<disk, journal>>
<1>1. command.pc = "publish" /\ UNCHANGED environment
  BY DEF SecondCompare, At
<1>2. f \in File /\ temporary[f] \in OnDisk /\ ChangeOK(Change(f))
  BY <1>1, LoopFacts, LoopPcNames
<1>3. ASSUME ReadyToPublish(f), Desires(f) PROVE OwnTemporary(f)
  <2>1. TemporaryReady(Change(f), temporary[f], DesiredSide)
    BY <1>3 DEF ReadyToPublish
  <2>2. /\ Change(f).temporary.side = DesiredSide /\ temporary[f].nlink = 1
        /\ temporary[f].data = Change(f).temporary.state.data
    BY <2>1 DEF TemporaryReady, IsOwnedDeletionRemainder, SameFileObject
  <2>3. Change(f).temporary # NoTemporary
    BY <2>2, SidesOfCommand, SideFacts DEF NoTemporary
  <2>4. temporary[f].data = Planned(f)[DesiredSide].data
    BY <1>2, <2>2, <2>3 DEF ChangeOK, SamePayload, Change
  <2> QED
    BY <1>3, <2>2, <2>4 DEF OwnTemporary, DesiredData, Desires, Exists
<1> QED
  BY <1>1, <1>2, <1>3 DEF SecondCompare

LEMMA SecondCompareShape ==
  ASSUME ShapeInv, SecondCompare
  PROVE  ShapeInv'
<1>0. PICK f \in File : f = command.f
  BY SecondCompareCases
<1>1. command.pc \in LoopPc /\ UNCHANGED environment
  BY <1>0, SecondCompareCases, LoopPcNames
<1>2. CASE Fail("recovery_conflict")
  BY <1>1, <1>2, FailKeepsShape
<1>3. CASE /\ Desires(f) => OwnTemporary(f)
           /\ Goto("commit", f) /\ Continues /\ UNCHANGED <<disk, journal>>
  <2>1. CommandOK' /\ command'.op = command.op /\ command'.pc = "commit" /\ command'.f = f
    BY <1>0, <1>1, <1>3, LoopGoesOn, LoopFacts, LoopPcNames
  <2>2. Desires(f)' => OwnTemporary(f)'
    BY <1>3, <2>1, SameSides DEF OwnTemporary, disk, Exists
  <2>3. TemporaryOK'
    BY <2>1, <2>2, IdleFields DEF TemporaryOK
  <2>4. directory' \in BOOLEAN /\ DiskOK(File)'
    BY <1>3, DiskKept DEF disk, ShapeInv, HistoryOK
  <2> QED
    BY <1>1, <1>3, <2>1, <2>3, <2>4, CommandGoesOn
<1> QED
  BY <1>0, <1>2, <1>3, SecondCompareCases

LEMMA PublishChangeCases ==
  ASSUME ShapeInv, PublishChange, NEW f, f = command.f
  PROVE  /\ command.pc = "commit" /\ UNCHANGED environment /\ f \in File
         /\ \/ Fail("destination_collision")
            \/ /\ Continues /\ UNCHANGED <<directory, journal>>
               /\ \/ /\ ~Desires(f) /\ Exists(Planned(f)[ExpectedSide])
                     /\ UnlinkTarget(f) /\ Goto("confirm", f)
                  \/ /\ Desires(f) /\ Exists(Planned(f)[ExpectedSide]) /\ OwnTemporary(f)
                     /\ RenameTemporary(f) /\ Goto("confirm", f)
                  \/ /\ Desires(f) /\ ~Exists(target[f]) /\ OwnTemporary(f)
                     /\ LinkBoth(f, temporary[f]) /\ Goto("unlink temporary", f)
<1>1. command.pc = "commit" /\ UNCHANGED environment
  BY DEF PublishChange, At
<1>2. f \in File
  BY <1>1, LoopFacts, LoopPcNames
<1>3. Desires(f) => OwnTemporary(f)
  BY <1>1 DEF ShapeInv, TemporaryOK
<1>4. ~Desires(f) => Exists(Planned(f)[ExpectedSide])
  BY <1>2, PlannedFacts, SidesOfCommand DEF Desires
<1> QED
  BY <1>1, <1>2, <1>3, <1>4 DEF PublishChange, Replaces

\* What a publication leaves: the target has the desired bytes.
LEMMA PublishChangeEffect ==
  ASSUME ShapeInv, PublishChange, NEW f, f = command.f, ~Fail("destination_collision")
  PROVE  /\ DiskOK(File)' /\ OnlyAt(File, f) /\ f \in File
         /\ target'[f].data = DesiredData(f)
         /\ command'.pc \in {"confirm", "unlink temporary"} /\ command'.f = f
         /\ command'.op = command.op
         /\ CommandOK'
<1>0. DiskOK(File) /\ f \in File /\ command.pc \in LoopPc
  BY PublishChangeCases, LoopPcNames DEF ShapeInv
<1>1. target[f] \in OnDisk /\ temporary[f] \in OnDisk /\ temporary[f].ino <= clock[f]
  BY <1>0, PairAt DEF PairOK
<1>2. /\ DiskOK(File)' /\ OnlyAt(File, f) /\ target'[f].data = DesiredData(f)
      /\ Goto("confirm", f) \/ Goto("unlink temporary", f)
  <2>1. CASE ~Desires(f) /\ UnlinkTarget(f) /\ Goto("confirm", f)
    <3>1. DesiredData(f) = Absent.data
      BY <2>1 DEF Desires, DesiredData, Exists, Absent
    <3> QED
      BY <1>0, <2>1, <3>1, UnlinkTargetEffect
  <2>2. CASE OwnTemporary(f) /\ RenameTemporary(f) /\ Goto("confirm", f)
    BY <1>0, <2>2, RenameTemporaryEffect DEF OwnTemporary
  <2>3. CASE OwnTemporary(f) /\ LinkBoth(f, temporary[f]) /\ Goto("unlink temporary", f)
    BY <1>0, <1>1, <2>3, LinkBothEffect DEF OwnTemporary
  <2> QED
    BY <2>1, <2>2, <2>3, PublishChangeCases
<1>3. journal' = journal
  BY PublishChangeCases
<1> QED
  BY <1>0, <1>2, <1>3, LoopGoesOn, LoopFacts, LoopPcNames

LEMMA PublishChangeShape ==
  ASSUME ShapeInv, PublishChange
  PROVE  ShapeInv'
<1>0. PICK f \in File : f = command.f
  BY PublishChangeCases
<1>1. UNCHANGED environment
  BY PublishChangeCases
<1>2. CASE Fail("destination_collision")
  BY <1>1, <1>2, FailKeepsShape
<1>3. CASE ~Fail("destination_collision")
  <2>1. Continues /\ UNCHANGED <<directory, journal>>
    BY <1>0, <1>3, PublishChangeCases
  <2>2. TemporaryOK'
    BY <1>0, <1>3, PublishChangeEffect, NoTemporaryNeeded
  <2>3. directory' \in BOOLEAN
    BY <2>1 DEF ShapeInv, HistoryOK
  <2> QED
    BY <1>0, <1>1, <1>3, <2>1, <2>2, <2>3, PublishChangeEffect, CommandGoesOn
<1> QED
  BY <1>2, <1>3

LEMMA UnlinkPublishedTemporaryShape ==
  ASSUME ShapeInv, UnlinkPublishedTemporary
  PROVE  ShapeInv'
<1>0. command.pc = "unlink temporary" /\ command.pc \in LoopPc
  BY LoopPcNames DEF UnlinkPublishedTemporary, At
<1>1. PICK f \in File : f = command.f
  BY <1>0, LoopFacts
<1>2. /\ UnlinkTemporary(f) /\ Goto("confirm", f)
      /\ Continues /\ UNCHANGED <<directory, environment, journal>>
  BY <1>1 DEF UnlinkPublishedTemporary
<1>3. DiskOK(File)'
  BY <1>1, <1>2, UnlinkTemporaryEffect DEF ShapeInv
<1>4. CommandOK' /\ command'.pc = "confirm"
  BY <1>0, <1>1, <1>2, LoopGoesOn, LoopFacts, LoopPcNames
<1>5. TemporaryOK'
  BY <1>4, NoTemporaryNeeded
<1>6. directory' \in BOOLEAN
  BY <1>2 DEF ShapeInv, HistoryOK
<1> QED
  BY <1>2, <1>3, <1>4, <1>5, <1>6, CommandGoesOn

LEMMA MarkValidatingShape ==
  ASSUME ShapeInv, MarkValidating
  PROVE  ShapeInv'
<1> USE KindFacts DEF ShapeInv
<1>1. /\ Forward /\ command.pc = "validating" /\ journal.state = "committing"
      /\ journal.applied = N /\ journal # NoJournal /\ journal \in Journal
      /\ command.op \in {"execute", "complete", "rollback"}
  BY RunningFacts DEF MarkValidating, At, CommandOK
<1>2. /\ journal' = [journal EXCEPT !.state = "validating"]
      /\ Goto("check", 0) /\ Continues /\ UNCHANGED <<disk, environment>>
  BY DEF MarkValidating
<1>3. /\ journal' \in Journal /\ journal' # NoJournal
      /\ journal'.state = "validating" /\ journal'.applied = journal.applied
      /\ journal'.published = journal.published
      /\ \A g \in File : Change(g)' = Change(g)
  BY <1>1, <1>2, RecordsState, JournalFacts DEF JournalState
<1>4. AcceptedProgress' /\ \A g \in File : ChangeOK(Change(g)')
  BY <1>1, <1>3 DEF JournalOK, AcceptedProgress
<1>5. /\ command' \in [op : {"none", "execute", "complete", "rollback"},
                       pc : Pc, f : 0..(N + 1)]
      /\ command'.op = command.op /\ command'.pc = "check" /\ command'.f = 0
  BY <1>2, GotoFacts, PcNames, FileFacts
<1>6. CommandOK'
  BY <1>1, <1>3, <1>5 DEF CommandOK, LoopPc
<1>7. TemporaryOK'
  BY <1>5, NoTemporaryNeeded
<1> QED
  BY <1>1, <1>2, <1>3, <1>4, <1>6, <1>7, SnapshotGoesOn

\* What follows the validation.
LEMMA EndGoesOn ==
  ASSUME ShapeInv, command.pc # "idle", NEW pc \in {"cleanup", "rmdir", "finish"},
         NEW f \in 0..(N + 1), Goto(pc, f), journal' = journal,
         pc = "cleanup" => f \in File, pc = "rmdir" => ~Forward
  PROVE  /\ CommandOK' /\ TemporaryOK'
         /\ command'.op = command.op /\ command'.pc = pc /\ command'.f = f
<1>1. /\ command' \in [op : {"none", "execute", "complete", "rollback"},
                       pc : Pc, f : 0..(N + 1)]
      /\ command'.op = command.op /\ command'.pc = pc /\ command'.f = f
  BY GotoFacts, PcNames DEF ShapeInv
<1>2. command.op # "none" /\ journal # NoJournal
  BY RunningFacts
<1>3. Forward' <=> Forward
  BY <1>1, SameSides
<1>4. CommandOK'
  BY <1>1, <1>2, <1>3 DEF CommandOK, LoopPc
<1> QED
  BY <1>1, <1>4, NoTemporaryNeeded

AfterCleanupFacts ==
  /\ AfterCleanup \in {"rmdir", "finish"}
  /\ AfterCleanup = "rmdir" <=> ~Forward

LEMMA AfterCleanupIs == AfterCleanupFacts
BY DEF AfterCleanupFacts, AfterCleanup, Forward

LEMMA CheckResultCases ==
  ASSUME CheckResult
  PROVE  /\ command.pc = "check" /\ UNCHANGED environment
         /\ \/ \E reason \in {"content_state_conflict", "catalog_mismatch"} : Fail(reason)
            \/ /\ ContentState(DesiredSide) /\ Goto("cleanup", 1) /\ Continues
               /\ UNCHANGED <<disk, journal>>
BY DEF CheckResult, At, BeginCleanup

LEMMA CheckResultShape ==
  ASSUME ShapeInv, CheckResult
  PROVE  ShapeInv'
<1>1. command.pc = "check" /\ UNCHANGED environment
  BY CheckResultCases
<1>2. ASSUME NEW reason, Fail(reason) PROVE ShapeInv'
  BY <1>1, <1>2, FailKeepsShape
<1>3. CASE Goto("cleanup", 1) /\ Continues /\ UNCHANGED <<disk, journal>>
  <2>1. CommandOK' /\ TemporaryOK'
    BY <1>1, <1>3, EndGoesOn, FileFacts
  <2>2. directory' \in BOOLEAN /\ DiskOK(File)'
    BY <1>3, DiskKept DEF disk, ShapeInv, HistoryOK
  <2> QED
    BY <1>1, <1>3, <2>1, <2>2, CommandGoesOn
<1> QED
  BY <1>2, <1>3, CheckResultCases

LEMMA CleanupTemporaryCases ==
  ASSUME ShapeInv, CleanupTemporary, NEW f, f = command.f
  PROVE  /\ command.pc = "cleanup" /\ UNCHANGED environment /\ f \in File
         /\ \/ Fail("temporary_identity_changed")
            \/ /\ \/ UnlinkTemporary(f)
                  \/ temporary[f] = Absent /\ UNCHANGED <<target, temporary, clock>>
               /\ \/ f = N /\ Goto(AfterCleanup, 0)
                  \/ f # N /\ Goto("cleanup", f + 1)
               /\ Continues /\ UNCHANGED <<directory, journal>>
<1>1. command.pc = "cleanup" /\ UNCHANGED environment
  BY DEF CleanupTemporary, At
<1>2. f \in File
  BY <1>1 DEF ShapeInv, CommandOK
<1>3. temporary[f] \in OnDisk
  BY <1>2, PairAt DEF ShapeInv
<1> QED
  BY <1>1, <1>2, <1>3, AbsentOnDisk DEF CleanupTemporary

\* A cleanup step takes the temporary away and goes to the next file.
LEMMA CleanupTemporaryEffect ==
  ASSUME ShapeInv, CleanupTemporary, NEW f, f = command.f,
         ~Fail("temporary_identity_changed")
  PROVE  /\ DiskOK(File)' /\ f \in File
         /\ temporary'[f] = Absent
         /\ \A g \in File \ {f} : /\ temporary'[g] = temporary[g]
                                  /\ target'[g] = target[g]
         /\ target'[f].ino = target[f].ino /\ target'[f].data = target[f].data
         /\ CommandOK' /\ TemporaryOK' /\ command'.op = command.op
         /\ \/ f = N /\ command'.pc = AfterCleanup
            \/ f # N /\ command'.pc = "cleanup" /\ command'.f = f + 1
<1>0. DiskOK(File) /\ f \in File /\ command.pc = "cleanup" /\ command.pc # "idle"
  BY CleanupTemporaryCases DEF ShapeInv
<1>1. /\ DiskOK(File)' /\ temporary'[f] = Absent
      /\ \A g \in File \ {f} : temporary'[g] = temporary[g] /\ target'[g] = target[g]
      /\ target'[f].ino = target[f].ino /\ target'[f].data = target[f].data
  <2>1. CASE UnlinkTemporary(f)
    BY <1>0, <2>1, UnlinkTemporaryEffect DEF OnlyAt
  <2>2. CASE temporary[f] = Absent /\ UNCHANGED <<target, temporary, clock>>
    BY <1>0, <2>2, DiskKept
  <2> QED
    BY <2>1, <2>2, CleanupTemporaryCases
<1>2. journal' = journal
  BY CleanupTemporaryCases
<1>3. CASE f = N /\ Goto(AfterCleanup, 0)
  <2>1. AfterCleanup \in {"rmdir", "finish"} /\ (AfterCleanup = "rmdir" => ~Forward)
    BY AfterCleanupIs DEF AfterCleanupFacts
  <2> QED
    BY <1>0, <1>1, <1>2, <1>3, <2>1, EndGoesOn, FileFacts
<1>4. CASE f # N /\ Goto("cleanup", f + 1)
  <2>1. f + 1 \in File /\ f + 1 \in 0..(N + 1)
    BY <1>0, <1>4, KindFacts
  <2> QED
    BY <1>0, <1>1, <1>2, <1>4, <2>1, EndGoesOn
<1> QED
  BY <1>3, <1>4, CleanupTemporaryCases

LEMMA CleanupTemporaryShape ==
  ASSUME ShapeInv, CleanupTemporary
  PROVE  ShapeInv'
<1>0. PICK f \in File : f = command.f
  BY CleanupTemporaryCases
<1>1. UNCHANGED environment
  BY CleanupTemporaryCases
<1>2. CASE Fail("temporary_identity_changed")
  BY <1>1, <1>2, FailKeepsShape
<1>3. CASE ~Fail("temporary_identity_changed")
  <2>1. Continues /\ UNCHANGED <<directory, journal>>
    BY <1>0, <1>3, CleanupTemporaryCases
  <2>2. DiskOK(File)' /\ CommandOK' /\ TemporaryOK'
    BY <1>0, <1>3, CleanupTemporaryEffect
  <2>3. directory' \in BOOLEAN
    BY <2>1 DEF ShapeInv, HistoryOK
  <2> QED
    BY <1>1, <2>1, <2>2, <2>3, CommandGoesOn
<1> QED
  BY <1>2, <1>3

LEMMA RollbackDirectoriesShape ==
  ASSUME ShapeInv, RollbackDirectories
  PROVE  ShapeInv'
<1>1. command.pc = "rmdir" /\ UNCHANGED environment
  BY DEF RollbackDirectories, At
<1>2. CASE Fail("directory_recovery_not_empty")
  BY <1>1, <1>2, FailKeepsShape
<1>3. CASE /\ directory' = ~MakesDirectory
           /\ Goto("finish", 0) /\ Continues
           /\ UNCHANGED <<target, temporary, clock, journal>>
  <2>1. CommandOK' /\ TemporaryOK'
    BY <1>1, <1>3, EndGoesOn, FileFacts
  <2>2. directory' \in BOOLEAN /\ DiskOK(File)'
    BY <1>3, DiskKept, BoundsAssumption DEF ShapeInv
  <2> QED
    BY <1>1, <1>3, <2>1, <2>2, CommandGoesOn
<1> QED
  BY <1>2, <1>3 DEF RollbackDirectories

LEMMA RemoveJournalShape ==
  ASSUME ShapeInv, RemoveJournal
  PROVE  ShapeInv'
<1>1. command.pc = "finish" /\ journal' = NoJournal /\ command' = Idle
      /\ UNCHANGED <<disk, environment, crashes, recoveries>>
      /\ phase' \in {"completed", "rolled back"}
  BY DEF RemoveJournal, At, Ended
<1>2. DiskOK(File)' /\ JournalOK'
  BY <1>1, DiskKept DEF disk, ShapeInv, JournalOK
<1>3. CommandOK'
  BY <1>1, IdleFields DEF CommandOK, LoopPc
<1>4. TemporaryOK'
  BY <1>1, IdleFields DEF TemporaryOK
<1>5. HistoryOK'
  BY <1>1 DEF HistoryOK, ShapeInv, disk, environment
<1> QED
  BY <1>2, <1>3, <1>4, <1>5 DEF ShapeInv

LEMMA RecoverShape ==
  ASSUME ShapeInv, NEW op \in {"complete", "rollback"}, Recover(op)
  PROVE  ShapeInv'
<1>1. /\ command = Idle /\ journal # NoJournal /\ recoveries' = recoveries + 1
      /\ UNCHANGED <<disk, environment, phase, crashes>>
  BY DEF Recover
<1>2. DiskOK(File)' /\ journal \in Journal
  BY <1>1, DiskKept DEF disk, ShapeInv, JournalOK
<1>3. phase = "open" /\ phase' = "open"
  BY <1>1 DEF ShapeInv, HistoryOK
<1>4. CASE journal' = journal /\ command' = command
  <2>1. JournalOK'
    BY <1>4, JournalKept DEF ShapeInv
  <2>2. CommandOK' /\ TemporaryOK'
    <3>1. command' = Idle /\ temporary' = temporary /\ phase' = phase
      BY <1>1, <1>4 DEF disk
    <3>2. CommandOK'
      BY <3>1, IdleCommand
    <3>3. TemporaryOK'
      BY <3>1, IdleTemporary
    <3> QED
      BY <3>2, <3>3
  <2>3. recoveries' \in Nat
    <3>1. recoveries \in Nat
      BY DEF ShapeInv, HistoryOK
    <3> QED
      BY <1>1, <3>1
  <2>4. HistoryOK'
    BY <1>1, <1>4, <2>3 DEF HistoryOK, ShapeInv, disk, environment
  <2> QED
    BY <1>2, <2>1, <2>2, <2>4 DEF ShapeInv
<1>5. CASE /\ journal' = [journal EXCEPT !.state = "committing"]
           /\ command' = IF op = "complete"
                         THEN [op |-> op, pc |-> "mkdir", f |-> 0]
                         ELSE [op |-> op, pc |-> "prepare", f |-> N]
  <2>1. /\ journal' \in Journal /\ journal' # NoJournal
        /\ journal'.state = "committing" /\ journal'.applied = journal.applied
        /\ journal'.published = journal.published
        /\ \A g \in File : Change(g)' = Change(g)
    BY <1>2, <1>5, RecordsState, JournalFacts DEF JournalState
  <2>2. JournalOK'
    BY <1>1, <2>1 DEF ShapeInv, JournalOK, AcceptedProgress, ChangeOK, Exists, SamePayload
  <2>3. ASSUME op = "complete" PROVE CommandOK' /\ TemporaryOK'
    <3>1. /\ command' \in [op : {"none", "execute", "complete", "rollback"},
                           pc : Pc, f : 0..(N + 1)]
          /\ command'.op = "complete" /\ command'.pc = "mkdir"
      BY <1>5, <2>3, PcNames, FileFacts
    <3>2. CommandOK'
      BY <2>1, <3>1 DEF CommandOK, LoopPc, Forward
    <3>3. command' # Idle
      BY <3>1, IdleFields
    <3>4. TemporaryOK'
      BY <3>1, <3>3 DEF TemporaryOK
    <3> QED
      BY <3>2, <3>4
  <2>4. ASSUME op = "rollback" PROVE CommandOK' /\ TemporaryOK'
    <3>1. /\ command' \in [op : {"none", "execute", "complete", "rollback"},
                           pc : Pc, f : 0..(N + 1)]
          /\ command'.op = "rollback" /\ command'.pc = "prepare" /\ command'.f = N
      BY <1>5, <2>4, PcNames, FileFacts
    <3>2. /\ command'.op # "none" /\ command'.pc \in LoopPc /\ command'.f \in File
      BY <3>1, FileFacts, LoopPcNames
    <3> QED
      BY <2>1, <3>1, <3>2, InLoop, NoTemporaryNeeded
  <2>5. HistoryOK'
    BY <1>1, <1>3, <2>1 DEF HistoryOK, ShapeInv, disk, environment
  <2> QED
    BY <1>2, <2>2, <2>3, <2>4, <2>5 DEF ShapeInv
<1> QED
  BY <1>4, <1>5 DEF Recover

LEMMA CrashShape ==
  ASSUME ShapeInv, Crash
  PROVE  ShapeInv'
<1>1. /\ command' = Idle /\ crashes' = crashes + 1
      /\ UNCHANGED <<disk, environment, journal, phase, recoveries>>
  BY DEF Crash, Ended
<1>2. DiskOK(File)' /\ JournalOK'
  BY <1>1, DiskKept, JournalKept DEF disk, ShapeInv
<1>3. CommandOK' /\ TemporaryOK'
  <2>1. command' = Idle /\ temporary' = temporary /\ phase' = phase
    BY <1>1 DEF disk
  <2>2. CommandOK'
    BY <2>1, IdleCommand
  <2>3. TemporaryOK'
    BY <2>1, IdleTemporary
  <2> QED
    BY <2>2, <2>3
<1>4. crashes' \in Nat
  <2>1. crashes \in Nat
    BY DEF ShapeInv, HistoryOK
  <2> QED
    BY <1>1, <2>1
<1>5. HistoryOK'
  BY <1>1, <1>4 DEF ShapeInv, HistoryOK, disk, environment
<1> QED
  BY <1>2, <1>3, <1>5 DEF ShapeInv

LEMMA CommandKept ==
  ASSUME CommandOK, command' = command, journal' = journal
  PROVE  CommandOK'
<1>1. Forward' <=> Forward
  BY DEF Forward
<1> QED
  BY <1>1 DEF CommandOK

LEMMA OthersKeepCommand ==
  ASSUME ShapeInv, Edit
  PROVE  /\ JournalOK' /\ CommandOK' /\ edits' \in Nat /\ edits' = edits + 1
         /\ UNCHANGED <<journal, command, phase, last, died, crashes, recoveries>>
         /\ \A g : Change(g)' = Change(g)
         /\ \A g : Desires(g)' <=> Desires(g)
         /\ \A g : DesiredData(g)' = DesiredData(g)
         /\ DesiredSide' = DesiredSide /\ ExpectedSide' = ExpectedSide
         /\ Forward' <=> Forward
<1>1. UNCHANGED <<journal, command, phase, last, died, crashes, recoveries>>
  BY DEF Edit
<1>2. CommandOK'
  <2>1. command' = command /\ journal' = journal
    BY <1>1
  <2> QED
    BY <2>1, CommandKept DEF ShapeInv
<1>3. edits' \in Nat /\ edits' = edits + 1
  <2>1. edits \in Nat
    BY DEF ShapeInv, HistoryOK
  <2>2. edits' = edits + 1
    BY DEF Edit
  <2> QED
    BY <2>1, <2>2
<1>4. \A g : Change(g)' = Change(g)
  BY <1>1 DEF Change, Planned, Original
<1> QED
  BY <1>1, <1>2, <1>3, <1>4, JournalKept, SameSides DEF ShapeInv

\* What an edit of f leaves of the temporaries: none comes, and one that is not a
\* link of the target stays.
LEMMA EditKeepsTemporaries ==
  ASSUME ShapeInv, Edit, NEW f \in File, DiskOK(File)', OnlyAt(File, f),
         temporary[f] = Absent => temporary'[f] = Absent,
         ~Linked(f) => temporary'[f] = temporary[f]
  PROVE  TemporaryOK'
<1>1. \A g \in File : /\ temporary[g] = Absent => temporary'[g] = Absent
                      /\ OwnTemporary(g) => OwnTemporary(g)'
  <2>1. ASSUME NEW g \in File, OwnTemporary(g) PROVE OwnTemporary(g)'
    <3>1. ~Linked(g)
      BY <2>1, PairAt DEF OwnTemporary, PairOK, ShapeInv
    <3>2. temporary'[g] = temporary[g]
      BY <3>1 DEF OnlyAt
    <3> QED
      BY <2>1, <3>2, OthersKeepCommand DEF OwnTemporary
  <2> QED
    BY <2>1 DEF OnlyAt
<1>2. ASSUME NEW h \in Nat, NoneFrom(h), h >= 1 PROVE NoneFrom(h)'
  BY <1>1, <1>2, KindFacts DEF NoneFrom
<1>3. command' = command /\ phase' = phase /\ \A g : Desires(g)' <=> Desires(g)
  BY OthersKeepCommand
<1>4. /\ command.pc \in LoopPc \cup {"record staged"} => command.f \in File
      /\ command.pc = "stage" => command.f \in 1..(N + 1)
  BY DEF ShapeInv, CommandOK
<1>5. command.pc \in {"record staged", "record temporary", "commit", "restage"} =>
        command.f \in File /\ command.f + 1 \in Nat /\ command.f + 1 >= 1
  <2>1. /\ "record temporary" \in LoopPc /\ "commit" \in LoopPc /\ "restage" \in LoopPc
    BY LoopPcNames
  <2>2. \A h \in File : h + 1 \in Nat /\ h + 1 >= 1
    BY KindFacts
  <2> QED
    BY <1>4, <2>1, <2>2
<1>6. command.pc = "stage" => command.f \in Nat /\ command.f >= 1
  BY <1>4, KindFacts
<1>7. TemporaryOK
  BY DEF ShapeInv
<1>8. \/ command' = Idle /\ phase' = "planned"
      \/ command'.pc = "mkdir" /\ command'.op = "execute"
      => NoneFrom(1)'
  <2>1. 1 \in Nat /\ 1 >= 1
    OBVIOUS
  <2>2. NoneFrom(1) => NoneFrom(1)'
    BY <1>2, <2>1
  <2> QED
    BY <1>3, <1>7, <2>2 DEF TemporaryOK
<1>9. command'.pc = "stage" => NoneFrom(command.f)'
  BY <1>2, <1>3, <1>6, <1>7 DEF TemporaryOK
<1>10. command'.pc = "record staged" =>
         Desires(command.f)' /\ OwnTemporary(command.f)' /\ NoneFrom(command.f + 1)'
  BY <1>1, <1>2, <1>3, <1>5, <1>7 DEF TemporaryOK
<1>11. command'.pc = "restage" => temporary'[command'.f] = Absent
  BY <1>1, <1>3, <1>5, <1>7 DEF TemporaryOK
<1>12. command'.pc \in {"record temporary", "commit"} /\ Desires(command.f)' =>
         OwnTemporary(command.f)'
  BY <1>1, <1>3, <1>5, <1>7 DEF TemporaryOK
<1> QED
  BY <1>8, <1>9, <1>10, <1>11, <1>12 DEF TemporaryOK

LEMMA ReplaceFileEffect ==
  ASSUME ShapeInv, NEW f \in File, ReplaceFile(f)
  PROVE  /\ Edit /\ UNCHANGED <<directory, stray, drift>>
         /\ Leaves(f, clock[f] + 1)
         /\ DiskOK(File)' /\ OnlyAt(File, f)
         /\ target'[f].ino = clock[f] + 1 /\ Exists(target'[f])
         /\ temporary'[f].ino = temporary[f].ino
         /\ temporary[f] = Absent => temporary'[f] = Absent
         /\ ~Linked(f) => temporary'[f] = temporary[f]
<1>1. DiskOK(File) /\ target[f] \in OnDisk /\ temporary[f] \in OnDisk
  BY PairAt DEF ShapeInv
<1>2. PICK data \in {"foreign", target[f].data} \ {"absent"} : PutFile(f, data)
  BY DEF ReplaceFile
<1>3. data \in {"old", "new", "foreign"}
  BY <1>1, <1>2, AbsentOnDisk DEF OnDisk, Absent
<1>4. temporary[f] = Absent => ~Linked(f)
  BY AbsentOnDisk DEF Linked
<1>5. /\ DiskOK(File)' /\ OnlyAt(File, f) /\ target'[f] = Fresh(f, data)
      /\ temporary'[f].ino = temporary[f].ino
      /\ ~Linked(f) => temporary'[f] = temporary[f]
  BY <1>1, <1>2, <1>3, PutFileEffect
<1>6. Exists(Fresh(f, data)) /\ Fresh(f, data).ino = clock[f] + 1
  BY <1>1, <1>3, FreshOnDisk
<1> QED
  BY <1>4, <1>5, <1>6 DEF ReplaceFile

LEMMA OverwriteFileEffect ==
  ASSUME ShapeInv, NEW f \in File, OverwriteFile(f)
  PROVE  /\ Edit /\ UNCHANGED <<directory, stray, drift>>
         /\ Leaves(f, target[f].ino)
         /\ DiskOK(File)' /\ OnlyAt(File, f)
         /\ target'[f].ino = target[f].ino /\ target'[f].data = "foreign"
         /\ temporary'[f].ino = temporary[f].ino
         /\ temporary[f] = Absent => temporary'[f] = Absent
         /\ ~Linked(f) => temporary'[f] = temporary[f]
<1>1. DiskOK(File) /\ Exists(target[f]) /\ WriteInto(f)
  BY DEF ShapeInv, OverwriteFile
<1>2. temporary[f] = Absent => ~Linked(f)
  BY AbsentOnDisk DEF Linked
<1>3. Linked(f) => target[f].ino = temporary[f].ino
  BY DEF Linked
<1> QED
  BY <1>1, <1>2, <1>3, WriteIntoEffect DEF OverwriteFile

LEMMA RemoveFileEffect ==
  ASSUME ShapeInv, NEW f \in File, RemoveFile(f)
  PROVE  /\ Edit /\ UNCHANGED <<directory, stray, drift>>
         /\ Leaves(f, 0)
         /\ DiskOK(File)' /\ OnlyAt(File, f)
         /\ target'[f] = Absent
         /\ temporary'[f].ino = temporary[f].ino
         /\ temporary[f] = Absent => temporary'[f] = Absent
         /\ ~Linked(f) => temporary'[f] = temporary[f]
<1>1. DiskOK(File) /\ UnlinkTarget(f)
  BY DEF ShapeInv, RemoveFile
<1>2. temporary[f] = Absent => ~Linked(f)
  BY AbsentOnDisk DEF Linked
<1> QED
  BY <1>1, <1>2, UnlinkTargetEffect DEF RemoveFile

LEMMA LeavesNat ==
  ASSUME ShapeInv, NEW f \in File, NEW ino \in Nat, Leaves(f, ino)
  PROVE  theirs' \in [File -> Nat]
BY DEF ShapeInv, HistoryOK, Leaves

LEMMA OthersShape ==
  ASSUME ShapeInv, Others
  PROVE  ShapeInv'
<1>1. ASSUME Edit, {directory', stray', drift'} \subseteq BOOLEAN,
             theirs' \in [File -> Nat], DiskOK(File)', TemporaryOK'
      PROVE  ShapeInv'
  <2>1. HistoryOK'
    BY <1>1, OthersKeepCommand DEF ShapeInv, HistoryOK
  <2> QED
    BY <1>1, <2>1, OthersKeepCommand DEF ShapeInv
<1>2. {directory, stray, drift} \subseteq BOOLEAN
  BY DEF ShapeInv, HistoryOK
<1>3. ASSUME NEW f \in File, ReplaceFile(f) PROVE ShapeInv'
  <2>1. clock[f] + 1 \in Nat
    BY PairAt DEF ShapeInv
  <2> QED
    BY <1>1, <1>2, <1>3, <2>1, ReplaceFileEffect, LeavesNat, EditKeepsTemporaries
<1>4. ASSUME NEW f \in File, OverwriteFile(f) PROVE ShapeInv'
  <2>1. target[f].ino \in Nat
    BY PairAt DEF ShapeInv, OnDisk, FileState
  <2> QED
    BY <1>1, <1>2, <1>4, <2>1, OverwriteFileEffect, LeavesNat, EditKeepsTemporaries
<1>5. ASSUME NEW f \in File, RemoveFile(f) PROVE ShapeInv'
  BY <1>1, <1>2, <1>5, RemoveFileEffect, LeavesNat, EditKeepsTemporaries
<1>6. ASSUME Edit, UNCHANGED <<target, temporary, clock, theirs>>,
             {directory', stray', drift'} \subseteq BOOLEAN
      PROVE  ShapeInv'
  <2>1. DiskOK(File)' /\ theirs' \in [File -> Nat]
    BY <1>6, DiskKept DEF ShapeInv, HistoryOK
  <2>2. TemporaryOK'
    <3>1. /\ \A g : Desires(g)' <=> Desires(g)
          /\ \A g : OwnTemporary(g) => OwnTemporary(g)'
          /\ \A g : NoneFrom(g) => NoneFrom(g)'
          /\ command' = command /\ phase' = phase
      BY <1>6, OthersKeepCommand DEF OwnTemporary, NoneFrom
    <3> QED
      BY <1>6, <3>1 DEF ShapeInv, TemporaryOK
  <2> QED
    BY <1>1, <1>6, <2>1, <2>2
<1>7. ASSUME ChangeCatalog PROVE ShapeInv'
  BY <1>2, <1>6, <1>7 DEF ChangeCatalog, disk
<1>8. ASSUME UseDirectory PROVE ShapeInv'
  BY <1>2, <1>6, <1>8 DEF UseDirectory
<1> QED
  BY <1>3, <1>4, <1>5, <1>7, <1>8 DEF Others

LEMMA StutterShape ==
  ASSUME ShapeInv, UNCHANGED vars
  PROVE  ShapeInv'
<1> USE DEF vars, disk, environment
<1>1. DiskOK(File)' /\ JournalOK'
  BY DiskKept, JournalKept DEF ShapeInv
<1>2. command' = command
  OBVIOUS
<1>3. /\ \A g : Desires(g)' <=> Desires(g)
      /\ \A g : OwnTemporary(g) => OwnTemporary(g)'
      /\ \A g : NoneFrom(g) => NoneFrom(g)'
  BY <1>2, SameSides DEF OwnTemporary, NoneFrom
<1>4. TemporaryOK'
  BY <1>2, <1>3 DEF ShapeInv, TemporaryOK
<1>5. CommandOK' /\ HistoryOK'
  BY DEF ShapeInv, CommandOK, HistoryOK, Forward
<1> QED
  BY <1>1, <1>4, <1>5 DEF ShapeInv

LEMMA InitShape == Init => ShapeInv
<1> SUFFICES ASSUME Init PROVE ShapeInv
  OBVIOUS
<1> USE DEF Init
<1>1. ASSUME NEW f \in File PROVE Original(f) \in OnDisk /\ Original(f).nlink # 2 /\ Original(f).ino <= 1
  BY <1>1, KindFacts DEF Original, OnDisk, FileState, Data, Absent
<1>2. DiskOK(File)
  BY <1>1, AbsentOnDisk DEF DiskOK, PairOK, Linked, Absent
<1>3. JournalOK /\ CommandOK
  BY IdleFields DEF JournalOK, CommandOK, LoopPc
<1>4. TemporaryOK
  <2>1. NoneFrom(1)
    BY KindFacts DEF NoneFrom
  <2>2. command.pc = "idle"
    BY IdleFields
  <2> QED
    BY <2>1, <2>2 DEF TemporaryOK
<1>5. HistoryOK
  BY BoundsAssumption DEF HistoryOK
<1> QED
  BY <1>2, <1>3, <1>4, <1>5 DEF ShapeInv

LEMMA ShapeStep == ShapeInv /\ [Next]_vars => ShapeInv'
<1> SUFFICES ASSUME ShapeInv, [Next]_vars PROVE ShapeInv'
  OBVIOUS
<1>1. CASE Step
  BY <1>1, PrepareDirectoriesShape, StageTemporaryShape, RecordStagedShape,
     MarkPreparedShape, BeginCommitShape, RecordEndpointShape, KeepTemporaryShape,
     DropTemporaryShape, StageReplacementShape, StageDeletionTombstoneShape,
     RecordTemporaryShape, SecondCompareShape, PublishChangeShape,
     UnlinkPublishedTemporaryShape, MarkValidatingShape, CheckResultShape,
     CleanupTemporaryShape, RollbackDirectoriesShape, RemoveJournalShape
  DEF Step
<1>2. CASE Complete \/ Rollback
  BY <1>2, RecoverShape DEF Complete, Rollback
<1> QED
  BY <1>1, <1>2, ExecuteShape, CrashShape, OthersShape, StutterShape DEF Next

LEMMA ShapeInvariant == Spec => []ShapeInv
BY InitShape, ShapeStep, PTL DEF Spec

\* In any transaction every variable keeps its type, and every journal that is
\* published is one that validateContextMutationJournal accepts, so that complete
\* and rollback can read it (mutation-journal-validation.ts:26-103).
THEOREM TypeCorrect ==
  ASSUME AcceptedFileSet
  PROVE  Spec => []TypeOK
<1>1. ShapeInv => TypeOK
  <2> SUFFICES ASSUME ShapeInv PROVE TypeOK
    OBVIOUS
  <2>1. /\ target \in [File -> FileState] /\ temporary \in [File -> FileState]
        /\ clock \in [File -> Nat]
    BY DEF ShapeInv, DiskOK, OnDisk
  <2>2. ASSUME journal # NoJournal PROVE AcceptedJournal
    <3>1. ASSUME NEW f \in File PROVE AcceptedSides(f) /\ AcceptedTemporary(f) /\ AcceptedEndpoints(f)
      <4>1. ChangeOK(Change(f))
        BY <2>2, <3>1 DEF ShapeInv, JournalOK
      <4>2. AcceptedSides(f)
        BY <3>1, KindFacts
        DEF AcceptedSides, Planned, Original, Absent, PlannedNew, Exists
      <4>3. AcceptedTemporary(f) /\ AcceptedEndpoints(f)
        BY <4>1 DEF AcceptedTemporary, AcceptedEndpoints, ChangeOK, Change
      <4> QED
        BY <4>2, <4>3
    <3> QED
      BY <2>2, <3>1 DEF ShapeInv, JournalOK, AcceptedJournal
  <2>3. journal \in Journal \cup {NoJournal}
    BY DEF ShapeInv, JournalOK
  <2> QED
    BY <2>1, <2>2, <2>3 DEF ShapeInv, CommandOK, HistoryOK, TypeOK
<1> QED
  BY <1>1, ShapeInvariant, PTL
-----------------------------------------------------------------------------
(***************************************************************************)
(* The safety properties.                                                  *)
(***************************************************************************)

\* The inodes at f that the journal or the command knows.
Known(f) ==
  {0, 1, temporary[f].ino}
    \cup IF journal = NoJournal THEN {} ELSE Inodes(Change(f))

\* What somebody left at f is not taken for anything of the transaction: it has
\* other bytes or an inode that no record names.
TheirsAt(f) ==
  /\ \A i \in Known(f) : i <= clock[f]
  /\ theirs[f] # 0 =>
       /\ Exists(target[f]) /\ target[f].ino = theirs[f]
       /\ target[f].data = "foreign" \/ target[f].ino \notin Known(f)

\* And what is about to be renamed over or unlinked is nobody's.
TheirsInv ==
  /\ \A f \in File : TheirsAt(f)
  /\ \A f \in File : InWindow(f) => theirs[f] = 0

\* What the journal has when k files are at their new side.
JournalPosition(k) ==
  journal # NoJournal =>
    /\ journal.state \in {"planning", "prepared"} => k = 0
    /\ journal.state = "validating" => k = N
    /\ k \in {journal.applied - 1, journal.applied, journal.applied + 1}

\* Where the command is then: the files before the one that it handles are done.
EndPc == {"validating", "check", "cleanup", "rmdir", "finish"}

CommandPosition(k) ==
  /\ phase = "planned" => k = 0
  /\ command.pc \in LoopPc =>
       IF Forward THEN k >= command.f - 1
       ELSE k <= command.f /\ journal.applied <= command.f
  /\ command.pc = "commit" => k = IF Forward THEN command.f - 1 ELSE command.f
  /\ command.pc \in EndPc => k = IF Forward THEN N ELSE 0

Position(k) == PrefixOnDisk(k) /\ JournalPosition(k) /\ CommandPosition(k)

PositionInv == Undisturbed => \E k \in 0..N : Position(k)

\* What the cleanup has done so far.
CleanupInv ==
  /\ command.pc = "cleanup" => \A g \in 1..(command.f - 1) : temporary[g] = Absent
  /\ command.pc \in {"rmdir", "finish"} => \A g \in File : temporary[g] = Absent
  /\ command.pc = "finish" /\ ~Forward /\ Undisturbed => directory = ~MakesDirectory
-----------------------------------------------------------------------------
(***************************************************************************)
(* Other people's files.                                                   *)
(***************************************************************************)
LEMMA KnownNat ==
  ASSUME ShapeInv, NEW f \in File
  PROVE  Known(f) \subseteq Nat
<1>1. temporary[f].ino \in Nat
  BY PairAt DEF ShapeInv, OnDisk, FileState
<1>2. ASSUME journal # NoJournal PROVE Inodes(Change(f)) \subseteq Nat
  <2>1. journal \in Journal
    BY <1>2 DEF ShapeInv, JournalOK
  <2>2. \A s \in Side : Planned(f)[s].ino \in Nat
    BY PlannedFacts DEF FileState
  <2>3. \A s \in Side : journal.published[f][s].ino \in Nat
    BY <2>1 DEF Journal, FileState, Unrecorded
  <2>4. journal.temporary[f].state.ino \in Nat
    BY <2>1 DEF Journal, FileState, NoTemporary, Absent
  <2> QED
    BY <2>2, <2>3, <2>4 DEF Inodes, Change
<1> QED
  BY <1>1, <1>2 DEF Known

\* A file that is taken to be at a side is nobody else's.
LEMMA AtSideNotTheirs ==
  ASSUME ShapeInv, journal # NoJournal, NEW f \in File, TheirsAt(f), NEW s \in Side,
         \/ Disposition(f) = s
         \/ DesiredEndpointReached(Change(f), target[f], temporary[f], s)
  PROVE  /\ theirs[f] = 0
         /\ target[f].ino \in Known(f)
<1>1. /\ target[f] \in OnDisk /\ temporary[f] \in OnDisk /\ ChangeOK(Change(f))
  BY PairAt DEF ShapeInv, JournalOK
<1>2. /\ SamePayload(target[f], Change(f).planned[s])
      /\ Exists(target[f]) => target[f].ino \in Inodes(Change(f))
  BY <1>1, DispositionSound, EndpointSound DEF Disposition
<1>3. target[f].data # "foreign"
  BY <1>2, PlannedFacts DEF SamePayload, Change
<1>4. Exists(target[f]) => target[f].ino \in Known(f)
  BY <1>2 DEF Known
<1>5. ~Exists(target[f]) => target[f].ino = 0
  BY <1>1, AbsentOnDisk DEF Absent
<1> QED
  BY <1>3, <1>4, <1>5 DEF TheirsAt, Known

\* What a step may do to f without touching what somebody left there.
Harmless(f) ==
  /\ theirs'[f] = theirs[f]
  /\ \/ clock'[f] = clock[f] /\ Known(f)' \subseteq Known(f)
     \/ clock'[f] = clock[f] + 1 /\ Known(f)' \subseteq Known(f) \cup {clock[f] + 1}
     \/ /\ clock'[f] = clock[f] + 1 /\ Known(f)' \subseteq Known(f) \cup {target[f].ino}
        /\ theirs[f] = 0
  /\ theirs[f] # 0 => /\ target'[f].ino = target[f].ino
                      /\ target'[f].data = target[f].data

LEMMA HarmlessTheirs ==
  ASSUME ShapeInv, NEW f \in File, TheirsAt(f), Harmless(f)
  PROVE  TheirsAt(f)'
<1>1. /\ Known(f) \subseteq Nat /\ clock[f] \in Nat
      /\ target[f].ino \in Nat /\ target[f].ino <= clock[f]
  BY KnownNat, PairAt DEF ShapeInv, OnDisk, FileState, PairOK
<1>2. \A i \in Known(f)' : i <= clock'[f]
  BY <1>1 DEF TheirsAt, Harmless
<1>3. ASSUME theirs'[f] # 0
      PROVE  /\ Exists(target'[f]) /\ target'[f].ino = theirs'[f]
             /\ target'[f].data = "foreign" \/ target'[f].ino \notin Known(f)'
  <2>1. /\ theirs[f] # 0 /\ theirs'[f] = theirs[f]
        /\ target'[f].ino = target[f].ino /\ target'[f].data = target[f].data
        /\ Known(f)' \subseteq Known(f) \cup {clock[f] + 1}
    BY <1>3 DEF Harmless
  <2>2. target[f].ino # clock[f] + 1
    BY <1>1
  <2> QED
    BY <2>1, <2>2 DEF TheirsAt, Exists
<1> QED
  BY <1>2, <1>3 DEF TheirsAt, Exists

\* What the transaction knows, when the journal's entry stays.
LEMMA KnownKept ==
  ASSUME NEW f, Change(f)' = Change(f), journal' # NoJournal => journal # NoJournal
  PROVE  Known(f)' \subseteq Known(f) \cup {temporary'[f].ino}
<1>1. Inodes(Change(f))' = Inodes(Change(f))
  <2>1. Inodes(Change(f))' = Inodes(Change(f)')
    OBVIOUS
  <2> QED
    BY <2>1
<1> QED
  BY <1>1 DEF Known

LEMMA UntouchedHarmless ==
  ASSUME NEW f, Change(f)' = Change(f), journal' # NoJournal => journal # NoJournal,
         theirs'[f] = theirs[f], clock'[f] = clock[f], target'[f] = target[f],
         temporary'[f] = temporary[f]
  PROVE  Harmless(f)
<1>1. temporary[f].ino \in Known(f)
  BY DEF Known
<1> QED
  BY <1>1, KnownKept DEF Harmless

ChangesKept == /\ \A f \in File : Change(f)' = Change(f)
               /\ journal' # NoJournal => journal # NoJournal
               /\ theirs' = theirs

LEMMA ChangesKeptHolds ==
  ASSUME journal' = journal, UNCHANGED environment
  PROVE  ChangesKept
BY DEF ChangesKept, Change, Planned, Original, environment

\* A step that leaves the disk and the entries alone.
LEMMA DiskAndEntriesKept ==
  ASSUME ChangesKept, UNCHANGED disk
  PROVE  \A f \in File : Harmless(f)
BY UntouchedHarmless DEF ChangesKept, disk

\* A file system call at f that leaves the target's inode and bytes.
LEMMA CallHarmless ==
  ASSUME NEW f \in File, ChangesKept, OnlyAt(File, f),
         \/ temporary'[f].ino \in {0, temporary[f].ino, clock[f] + 1}
         \/ theirs[f] = 0 /\ temporary'[f].ino = target[f].ino,
         theirs[f] # 0 => /\ target'[f].ino = target[f].ino
                          /\ target'[f].data = target[f].data
  PROVE  \A g \in File : Harmless(g)
<1>1. ASSUME NEW g \in File, g # f PROVE Harmless(g)
  BY <1>1, UntouchedHarmless DEF OnlyAt, ChangesKept
<1>2. Harmless(f)
  <2>1. 0 \in Known(f) /\ temporary[f].ino \in Known(f)
    BY DEF Known
  <2>2. Known(f)' \subseteq Known(f) \cup {temporary'[f].ino}
    BY KnownKept DEF ChangesKept
  <2> QED
    BY <2>1, <2>2 DEF Harmless, OnlyAt, ChangesKept
<1> QED
  BY <1>1, <1>2

\* A snapshot at f that names a new inode that was known.
LEMMA SnapshotHarmless ==
  ASSUME NEW f \in File, UNCHANGED <<disk, environment>>, journal # NoJournal,
         \A g \in File \ {f} : Change(g)' = Change(g),
         NEW i \in Known(f), Inodes(Change(f)') \subseteq Inodes(Change(f)) \cup {i}
  PROVE  \A g \in File : Harmless(g)
<1>1. ASSUME NEW g \in File, g # f PROVE Harmless(g)
  BY <1>1, UntouchedHarmless DEF disk, environment
<1>2. Known(f)' \subseteq Known(f)
  <2>1. Inodes(Change(f))' = Inodes(Change(f)')
    OBVIOUS
  <2> QED
    BY <2>1 DEF Known, disk
<1>3. Harmless(f)
  BY <1>2 DEF Harmless, disk, environment
<1> QED
  BY <1>1, <1>3

\* A step of the transaction: it harms nobody's file, and enters the window only
\* when the file there is nobody's.
SafeStep ==
  /\ \A f \in File : Harmless(f)
  /\ \A f \in File : InWindow(f)' => theirs[f] = 0

LEMMA OutsideWindow ==
  ASSUME \A f \in File : Harmless(f), command'.pc # "commit"
  PROVE  SafeStep
BY DEF SafeStep, InWindow, At

LEMMA FailSafe ==
  ASSUME NEW reason, Fail(reason), UNCHANGED environment
  PROVE  SafeStep
<1>1. command'.pc = "idle"
  BY IdleFields DEF Fail, Ended
<1>2. ChangesKept /\ UNCHANGED disk
  BY ChangesKeptHolds DEF Fail
<1> QED
  BY <1>1, <1>2, DiskAndEntriesKept, OutsideWindow

LEMMA GotoPc ==
  ASSUME ShapeInv, NEW pc, NEW f, Goto(pc, f)
  PROVE  command'.pc = pc /\ command'.f = f /\ command'.op = command.op
BY DEF Goto, ShapeInv, CommandOK

LEMMA EnterPc ==
  ASSUME ShapeInv, NEW f, EnterFile(f)
  PROVE  command'.pc \in {"publish", "prepare"} /\ command'.f = f /\ command'.op = command.op
<1>1. PICK pc \in {"publish", "prepare"} : Goto(pc, f)
  BY DEF EnterFile
<1> QED
  BY <1>1, GotoPc

LEMMA LeavePc ==
  ASSUME ShapeInv, NEW f, LeaveFile(f)
  PROVE  command'.pc \in {"publish", "prepare", "check", "validating"}
<1>1. CASE \E g : EnterFile(g)
  BY <1>1, EnterPc
<1>2. CASE Goto("check", 0) \/ Goto("validating", 0)
  BY <1>2, GotoPc
<1> QED
  BY <1>1, <1>2 DEF LeaveFile

LEMMA ExecuteSafe ==
  ASSUME ShapeInv, Execute
  PROVE  SafeStep
<1>0. journal = NoJournal /\ UNCHANGED <<disk, environment>> /\ command = Idle
  BY DEF Execute, ShapeInv, HistoryOK
<1>1. command'.pc # "commit"
  BY <1>0, IdleFields DEF Execute
<1>2. CASE journal' = NoJournal
  <2>1. ChangesKept
    BY <1>0, <1>2, ChangesKeptHolds
  <2> QED
    BY <1>0, <1>1, <2>1, DiskAndEntriesKept, OutsideWindow
<1>3. CASE journal' = InitialJournal
  <2>1. ASSUME NEW g \in File PROVE Harmless(g)
    <3>1. Inodes(Change(g))' \subseteq {0, 1}
      <4>1. /\ Change(g)'.temporary = NoTemporary
            /\ Change(g)'.published = [before |-> Unrecorded, after |-> Unrecorded]
            /\ Change(g)'.planned = Planned(g)
        BY <1>3 DEF Change, InitialJournal, Planned, Original
      <4>2. \A s \in Side : Change(g)'.planned[s].ino \in {0, 1}
        BY <4>1, PlannedFacts
      <4>3. \A s \in Side : Change(g)'.published[s].ino = 0
        BY <4>1, SideFacts DEF Unrecorded
      <4>4. Change(g)'.temporary.state.ino = 0
        BY <4>1 DEF NoTemporary, Absent
      <4> QED
        BY <4>2, <4>3, <4>4 DEF Inodes
    <3>2. Known(g)' \subseteq Known(g)
      BY <1>0, <3>1 DEF Known, disk
    <3> QED
      BY <1>0, <3>2 DEF Harmless, disk, environment
  <2> QED
    BY <1>1, <2>1, OutsideWindow
<1> QED
  BY <1>0, <1>2, <1>3 DEF Execute

\* A step of a command that leaves the disk and the entries alone.
LEMMA QuietSafe ==
  ASSUME UNCHANGED <<disk, environment>>, command'.pc # "commit",
         \/ journal' = journal
         \/ journal # NoJournal /\ \A f \in File : Change(f)' = Change(f)
  PROVE  SafeStep
<1>1. ChangesKept
  BY ChangesKeptHolds DEF ChangesKept, environment
<1> QED
  BY <1>1, DiskAndEntriesKept, OutsideWindow

LEMMA PrepareDirectoriesSafe ==
  ASSUME ShapeInv, PrepareDirectories
  PROVE  SafeStep
<1>1. /\ UNCHANGED <<target, temporary, clock, environment, journal>>
      /\ Goto("stage", 1) \/ EnterFile(1)
  BY IdleFields DEF PrepareDirectories, At, ShapeInv, CommandOK, Forward
<1>2. ChangesKept
  BY <1>1, ChangesKeptHolds
<1>3. \A f \in File : Harmless(f)
  BY <1>1, <1>2, UntouchedHarmless DEF ChangesKept
<1>4. command'.pc # "commit"
  BY <1>1, GotoPc, EnterPc
<1> QED
  BY <1>3, <1>4, OutsideWindow

LEMMA StageTemporarySafe ==
  ASSUME ShapeInv, StageTemporary
  PROVE  SafeStep
<1>0. PICK f \in File : f = command.f
  <2>1. command.f \in 1..(N + 1) /\ command.f <= N
    BY DEF StageTemporary, At, ShapeInv, CommandOK
  <2> QED
    BY <2>1, KindFacts
<1>1. /\ UNCHANGED <<environment, journal>> /\ NoneFrom(f) /\ command.op = "execute"
      /\ Goto("record staged", f) \/ Goto("stage", f + 1)
  BY <1>0 DEF StageTemporary, At, ShapeInv, CommandOK, TemporaryOK
<1>2. ChangesKept
  BY <1>1, ChangesKeptHolds
<1>a. command'.pc # "commit"
  <2>1. \/ Goto("record staged", f)
        \/ Goto("stage", f + 1)
    BY <1>1
  <2>2. command'.pc \in {"record staged", "stage"}
    BY <2>1, GotoPc
  <2> QED
    BY <2>2
<1>3. CASE UNCHANGED <<target, temporary, clock>>
  <2>1. \A g \in File : Harmless(g)
    BY <1>2, <1>3, UntouchedHarmless DEF ChangesKept
  <2> QED
    BY <1>a, <2>1, OutsideWindow
<1>4. CASE Desires(f) /\ WriteTemporary(f, "after")
  <2>0. DesiredSide = "after" /\ temporary[f] = Absent
    <3>1. f \in f..N
      BY KindFacts
    <3> QED
      BY <1>1, <3>1 DEF DesiredSide, NoneFrom
  <2>1. Planned(f)["after"].data \in {"old", "new"} /\ temporary[f] = Absent
    BY <1>0, <1>4, <2>0, PlannedFacts, SideFacts DEF Desires
  <2>2. /\ OnlyAt(File, f) /\ temporary'[f].ino = clock[f] + 1 /\ target'[f] = target[f]
    <3>1. DiskOK(File) /\ Planned(f)["after"].data \in {"old", "new", "foreign"}
      BY <2>1 DEF ShapeInv
    <3> QED
      BY <1>0, <1>4, <2>1, <3>1, CreateTemporaryEffect, FreshOnDisk DEF WriteTemporary
  <2>3. \A g \in File : Harmless(g)
    BY <1>0, <1>2, <2>2, CallHarmless
  <2> QED
    BY <1>a, <2>3, OutsideWindow
<1> QED
  BY <1>0, <1>1, <1>3, <1>4 DEF StageTemporary

\* A snapshot records a temporary that is on disk.
LEMMA RecordedHarmless ==
  ASSUME ShapeInv, journal # NoJournal, NEW f \in File, NEW side,
         TemporaryRecorded(f, side, temporary[f]), UNCHANGED <<disk, environment>>
  PROVE  \A g \in File : Harmless(g)
<1>1. journal \in Journal
  BY DEF ShapeInv, JournalOK
<1>2. /\ journal'.published = journal.published
      /\ journal'.temporary[f] = [side |-> side, state |-> temporary[f]]
      /\ \A g \in File \ {f} : journal'.temporary[g] = journal.temporary[g]
  BY <1>1 DEF TemporaryRecorded, Journal
<1>3. \A g \in File \ {f} : Change(g)' = Change(g)
  BY <1>2 DEF Change, Planned, Original
<1>4. Inodes(Change(f)') \subseteq Inodes(Change(f)) \cup {temporary[f].ino}
  BY <1>2 DEF Inodes, Change, Planned, Original
<1>5. temporary[f].ino \in Known(f)
  BY DEF Known
<1> QED
  BY <1>3, <1>4, <1>5, SnapshotHarmless

LEMMA RecordStagedSafe ==
  ASSUME ShapeInv, RecordStaged
  PROVE  SafeStep
<1>0. PICK f \in File : f = command.f
  BY DEF RecordStaged, At, ShapeInv, CommandOK
<1>1. /\ TemporaryRecorded(f, "after", temporary[f]) /\ journal # NoJournal
      /\ UNCHANGED <<disk, environment>> /\ Goto("stage", f + 1)
  BY <1>0, RunningFacts DEF RecordStaged, TemporaryRecorded, At
<1> QED
  BY <1>0, <1>1, RecordedHarmless, GotoPc, OutsideWindow

LEMMA RecordTemporarySafe ==
  ASSUME ShapeInv, RecordTemporary
  PROVE  SafeStep
<1>0. PICK f \in File : f = command.f
  BY RecordTemporaryCases
<1>1. UNCHANGED environment /\ journal # NoJournal
  <2>1. command.pc = "record temporary" /\ UNCHANGED environment
    BY DEF RecordTemporary, At
  <2> QED
    BY <2>1, LoopFacts, LoopPcNames
<1>2. CASE Fail("deletion_tombstone_readback_mismatch")
  BY <1>1, <1>2, FailSafe
<1>3. CASE \E side \in Side : /\ TemporaryRecorded(f, side, temporary[f])
                              /\ Goto("publish", f) /\ UNCHANGED disk
  BY <1>0, <1>1, <1>3, RecordedHarmless, GotoPc, OutsideWindow
<1> QED
  BY <1>0, <1>2, <1>3, RecordTemporaryCases

LEMMA StateChangeKeepsEntries ==
  ASSUME ShapeInv, journal # NoJournal, NEW state \in JournalState,
         journal' = [journal EXCEPT !.state = state]
  PROVE  \A f \in File : Change(f)' = Change(f)
BY RecordsState DEF ShapeInv, JournalOK

LEMMA MarkPreparedSafe ==
  ASSUME ShapeInv, MarkPrepared
  PROVE  SafeStep
<1>1. /\ journal # NoJournal /\ journal' = [journal EXCEPT !.state = "prepared"]
      /\ UNCHANGED <<disk, environment>> /\ Goto("recheck", 0)
  BY RunningFacts DEF MarkPrepared, At
<1>2. \A f \in File : Change(f)' = Change(f)
  BY <1>1, StateChangeKeepsEntries DEF JournalState
<1> QED
  BY <1>1, <1>2, GotoPc, QuietSafe

LEMMA BeginCommitSafe ==
  ASSUME ShapeInv, BeginCommit
  PROVE  SafeStep
<1>1. journal # NoJournal /\ UNCHANGED environment
  BY RunningFacts DEF BeginCommit, At
<1>2. CASE Fail("cas_conflict")
  BY <1>1, <1>2, FailSafe
<1>3. CASE /\ journal' = [journal EXCEPT !.state = "committing"]
           /\ EnterFile(1) /\ UNCHANGED disk
  <2>1. \A f \in File : Change(f)' = Change(f)
    BY <1>1, <1>3, StateChangeKeepsEntries DEF JournalState
  <2> QED
    BY <1>1, <1>3, <2>1, EnterPc, QuietSafe
<1> QED
  BY <1>2, <1>3 DEF BeginCommit

LEMMA MarkValidatingSafe ==
  ASSUME ShapeInv, MarkValidating
  PROVE  SafeStep
<1>1. /\ journal # NoJournal /\ journal' = [journal EXCEPT !.state = "validating"]
      /\ UNCHANGED <<disk, environment>> /\ Goto("check", 0)
  BY RunningFacts DEF MarkValidating, At
<1>2. \A f \in File : Change(f)' = Change(f)
  BY <1>1, StateChangeKeepsEntries DEF JournalState
<1> QED
  BY <1>1, <1>2, GotoPc, QuietSafe

LEMMA RecordEndpointSafe ==
  ASSUME ShapeInv, TheirsInv, RecordEndpoint
  PROVE  SafeStep
<1>0. PICK f \in File : f = command.f
  BY RecordEndpointCases, LoopFacts, LoopPcNames
<1>1. command.pc \in LoopPc /\ UNCHANGED environment
  BY RecordEndpointCases, LoopPcNames
<1>2. CASE Fail("post_commit_mismatch")
  BY <1>1, <1>2, FailSafe
<1>3. CASE /\ DesiredEndpointReached(Change(f), target[f], temporary[f], DesiredSide)
           /\ EndpointRecorded(f) /\ LeaveFile(f) /\ UNCHANGED disk
  <2>1. journal # NoJournal /\ DesiredSide \in Side
    BY <1>1, LoopFacts, SidesOfCommand
  <2>2. target[f].ino \in Known(f)
    BY <1>0, <1>3, <2>1, AtSideNotTheirs DEF TheirsInv
  <2>3. /\ journal'.temporary = journal.temporary
        /\ journal'.published[f][DesiredSide] = target[f]
        /\ \A g \in File, t \in Side : g # f \/ t # DesiredSide =>
             journal'.published[g][t] = journal.published[g][t]
        /\ journal' \in Journal /\ journal \in Journal
    BY <1>0, <1>1, <1>3, EndpointRecordedFacts, LoopFacts
  <2>4. ASSUME NEW g \in File \ {f} PROVE Change(g)' = Change(g)
    <3>1. journal'.published[g] = journal.published[g]
      <4>1. /\ journal'.published[g] \in [Side -> FileState \cup {Unrecorded}]
            /\ journal.published[g] \in [Side -> FileState \cup {Unrecorded}]
        BY <2>3 DEF Journal
      <4>2. \A t \in Side : journal'.published[g][t] = journal.published[g][t]
        BY <2>3
      <4> QED
        BY <4>1, <4>2
    <3> QED
      BY <2>3, <3>1 DEF Change, Planned, Original
  <2>5. Inodes(Change(f)') \subseteq Inodes(Change(f)) \cup {target[f].ino}
    <3>1. /\ Change(f)'.planned = Change(f).planned
          /\ Change(f)'.temporary = Change(f).temporary
          /\ Change(f)'.published = journal'.published[f]
          /\ Change(f).published = journal.published[f]
      BY <2>3 DEF Change, Planned, Original
    <3>2. \A s \in Side : Change(f)'.published[s] = Change(f).published[s]
                            \/ Change(f)'.published[s] = target[f]
      BY <2>3, <3>1
    <3> QED
      BY <3>1, <3>2 DEF Inodes
  <2>6. \A g \in File : Harmless(g)
    BY <1>0, <1>1, <1>3, <2>1, <2>2, <2>4, <2>5, SnapshotHarmless
  <2>7. command'.pc # "commit"
    BY <1>3, LeavePc
  <2> QED
    BY <2>6, <2>7, OutsideWindow
<1> QED
  BY <1>0, <1>2, <1>3, RecordEndpointCases

LEMMA KeepTemporarySafe ==
  ASSUME ShapeInv, KeepTemporary
  PROVE  SafeStep
<1>1. Goto("publish", command.f) /\ UNCHANGED <<disk, environment, journal>>
  BY DEF KeepTemporary
<1> QED
  BY <1>1, GotoPc, QuietSafe

\* unlink(temporary) is harmless.
LEMMA UnlinkTemporaryHarmless ==
  ASSUME ShapeInv, NEW f \in File, UnlinkTemporary(f), UNCHANGED <<environment, journal>>
  PROVE  \A g \in File : Harmless(g)
<1>1. /\ OnlyAt(File, f) /\ temporary'[f].ino = 0
      /\ target'[f].ino = target[f].ino /\ target'[f].data = target[f].data
  BY UnlinkTemporaryEffect DEF ShapeInv, Absent
<1> QED
  BY <1>1, ChangesKeptHolds, CallHarmless

LEMMA DropTemporarySafe ==
  ASSUME ShapeInv, DropTemporary
  PROVE  SafeStep
<1>0. PICK f \in File : f = command.f
  BY DropTemporaryCases, LoopFacts, LoopPcNames
<1>1. UNCHANGED environment
  BY DropTemporaryCases
<1>2. CASE Fail("temporary_identity_changed")
  BY <1>1, <1>2, FailSafe
<1>3. CASE UnlinkTemporary(f) /\ Goto("restage", f) /\ journal' = journal
  BY <1>0, <1>1, <1>3, UnlinkTemporaryHarmless, GotoPc, OutsideWindow
<1> QED
  BY <1>0, <1>2, <1>3, DropTemporaryCases

LEMMA StageReplacementSafe ==
  ASSUME ShapeInv, StageReplacement
  PROVE  SafeStep
<1>0. PICK f \in File : f = command.f
  BY StageReplacementFacts
<1>1. /\ UNCHANGED environment /\ journal' = journal /\ temporary[f] = Absent
      /\ CreateTemporary(f, DesiredData(f)) /\ Goto("record temporary", f)
      /\ DesiredData(f) \in {"old", "new", "foreign"}
  BY <1>0, StageReplacementFacts
<1>2. OnlyAt(File, f) /\ temporary'[f].ino = clock[f] + 1 /\ target'[f] = target[f]
  <2>1. DiskOK(File)
    BY DEF ShapeInv
  <2>2. /\ OnlyAt(File, f) /\ target'[f] = target[f]
        /\ temporary'[f] = Fresh(f, DesiredData(f))
    BY <1>1, <2>1, CreateTemporaryEffect
  <2> QED
    BY <1>1, <2>1, <2>2, FreshOnDisk
<1>3. \A g \in File : Harmless(g)
  BY <1>1, <1>2, CallHarmless, ChangesKeptHolds
<1>4. command'.pc = "record temporary"
  BY <1>1, GotoPc
<1> QED
  BY <1>3, <1>4, OutsideWindow

LEMMA StageDeletionTombstoneSafe ==
  ASSUME ShapeInv, TheirsInv, StageDeletionTombstone
  PROVE  SafeStep
<1>0. PICK f \in File : f = command.f
  BY StageDeletionTombstoneCases
<1>1. UNCHANGED environment /\ command.pc \in LoopPc
  BY StageDeletionTombstoneCases
<1>2. CASE Fail("recovery_conflict")
  BY <1>1, <1>2, FailSafe
<1>3. CASE /\ Disposition(f) = ExpectedSide /\ Exists(target[f])
           /\ LinkBoth(f, target[f]) /\ Goto("record temporary", f)
           /\ journal' = journal
  <2>1. theirs[f] = 0
    BY <1>1, <1>3, AtSideNotTheirs, LoopFacts, SidesOfCommand DEF TheirsInv
  <2>2. target[f] \in OnDisk /\ target[f].ino <= clock[f] /\ DiskOK(File)
    BY PairAt DEF ShapeInv, PairOK
  <2>3. OnlyAt(File, f) /\ temporary'[f].ino = target[f].ino
    BY <1>3, <2>2, LinkBothEffect
  <2>4. \A g \in File : Harmless(g)
    BY <1>1, <1>3, <2>1, <2>3, CallHarmless, ChangesKeptHolds
  <2>5. command'.pc = "record temporary"
    BY <1>3, GotoPc
  <2> QED
    BY <2>4, <2>5, OutsideWindow
<1> QED
  BY <1>0, <1>2, <1>3, StageDeletionTombstoneCases

\* The second compare finds that nobody's file would be replaced or unlinked.
LEMMA SecondCompareSafe ==
  ASSUME ShapeInv, TheirsInv, SecondCompare
  PROVE  SafeStep
<1>0. PICK f \in File : f = command.f
  BY SecondCompareCases
<1>1. UNCHANGED environment /\ command.pc \in LoopPc
  BY <1>0, SecondCompareCases, LoopPcNames
<1>2. CASE Fail("recovery_conflict")
  BY <1>1, <1>2, FailSafe
<1>3. CASE /\ Disposition(f) = ExpectedSide
           /\ Goto("commit", f) /\ UNCHANGED <<disk, journal>>
  <2>1. theirs[f] = 0
    BY <1>1, <1>3, AtSideNotTheirs, LoopFacts, SidesOfCommand DEF TheirsInv
  <2>2. \A g \in File : Harmless(g)
    BY <1>1, <1>3, ChangesKeptHolds, DiskAndEntriesKept
  <2>3. \A g \in File : InWindow(g)' => g = f
    BY <1>3, GotoPc DEF InWindow
  <2> QED
    BY <2>1, <2>2, <2>3 DEF SafeStep
<1> QED
  BY <1>0, <1>2, <1>3, SecondCompareCases

LEMMA PublishChangeSafe ==
  ASSUME ShapeInv, TheirsInv, PublishChange
  PROVE  SafeStep
<1>0. PICK f \in File : f = command.f
  BY PublishChangeCases
<1>1. UNCHANGED environment /\ DiskOK(File) /\ command.pc = "commit"
  BY <1>0, PublishChangeCases DEF ShapeInv
<1>2. CASE Fail("destination_collision")
  BY <1>1, <1>2, FailSafe
<1>3. ASSUME OnlyAt(File, f), theirs[f] = 0,
             temporary'[f].ino \in {0, temporary[f].ino}, journal' = journal,
             Goto("confirm", f) \/ Goto("unlink temporary", f)
      PROVE  SafeStep
  <2>1. \A g \in File : Harmless(g)
    BY <1>1, <1>3, CallHarmless, ChangesKeptHolds
  <2>2. command'.pc \in {"confirm", "unlink temporary"}
    BY <1>3, GotoPc
  <2> QED
    BY <2>1, <2>2, OutsideWindow
<1>4. CASE /\ Exists(Planned(f)[ExpectedSide]) /\ journal' = journal
           /\ UnlinkTarget(f) \/ (OwnTemporary(f) /\ RenameTemporary(f))
           /\ Goto("confirm", f)
  <2>1. theirs[f] = 0
    BY <1>0, <1>1, <1>4 DEF TheirsInv, InWindow, At
  <2>2. OnlyAt(File, f) /\ temporary'[f].ino \in {0, temporary[f].ino}
    BY <1>1, <1>4, UnlinkTargetEffect, RenameTemporaryEffect DEF OwnTemporary, Absent
  <2> QED
    BY <1>3, <1>4, <2>1, <2>2
<1>5. CASE /\ ~Exists(target[f]) /\ OwnTemporary(f) /\ LinkBoth(f, temporary[f])
           /\ Goto("unlink temporary", f) /\ journal' = journal
  <2>1. theirs[f] = 0
    BY <1>5 DEF TheirsInv, TheirsAt
  <2>2. /\ temporary[f] \in OnDisk /\ temporary[f].ino <= clock[f]
        /\ Exists(temporary[f])
    BY <1>1, <1>5, PairAt DEF PairOK, OwnTemporary
  <2>3. OnlyAt(File, f) /\ temporary'[f].ino = temporary[f].ino
    BY <1>1, <1>5, <2>2, LinkBothEffect
  <2> QED
    BY <1>3, <1>5, <2>1, <2>3
<1> QED
  BY <1>0, <1>2, <1>4, <1>5, PublishChangeCases

LEMMA UnlinkPublishedTemporarySafe ==
  ASSUME ShapeInv, UnlinkPublishedTemporary
  PROVE  SafeStep
<1>0. PICK f \in File : f = command.f
  BY LoopFacts, LoopPcNames DEF UnlinkPublishedTemporary, At
<1>1. /\ UnlinkTemporary(f) /\ Goto("confirm", f)
      /\ UNCHANGED <<environment, journal>>
  BY <1>0 DEF UnlinkPublishedTemporary
<1> QED
  BY <1>0, <1>1, UnlinkTemporaryHarmless, GotoPc, OutsideWindow

LEMMA CheckResultSafe ==
  ASSUME ShapeInv, CheckResult
  PROVE  SafeStep
<1>1. ASSUME NEW reason, Fail(reason) PROVE SafeStep
  BY <1>1, CheckResultCases, FailSafe
<1>2. CASE Goto("cleanup", 1) /\ UNCHANGED <<disk, journal, environment>>
  BY <1>2, GotoPc, QuietSafe
<1> QED
  BY <1>1, <1>2, CheckResultCases

LEMMA CleanupTemporarySafe ==
  ASSUME ShapeInv, CleanupTemporary
  PROVE  SafeStep
<1>0. PICK f \in File : f = command.f
  BY CleanupTemporaryCases
<1>1. UNCHANGED environment
  BY CleanupTemporaryCases
<1>2. CASE Fail("temporary_identity_changed")
  BY <1>1, <1>2, FailSafe
<1>3. CASE /\ \/ UnlinkTemporary(f)
              \/ UNCHANGED <<target, temporary, clock>>
           /\ Goto(AfterCleanup, 0) \/ Goto("cleanup", f + 1)
           /\ UNCHANGED <<directory, journal>>
  <2>1. command'.pc # "commit"
    <3>1. AfterCleanup \in {"rmdir", "finish"}
      BY AfterCleanupIs DEF AfterCleanupFacts
    <3> QED
      BY <1>3, <3>1, GotoPc
  <2>2. CASE UnlinkTemporary(f)
    BY <1>1, <1>3, <2>1, <2>2, UnlinkTemporaryHarmless, OutsideWindow
  <2>3. CASE UNCHANGED <<target, temporary, clock>>
    BY <1>1, <1>3, <2>1, <2>3, QuietSafe DEF disk
  <2> QED
    BY <1>3, <2>2, <2>3
<1> QED
  BY <1>0, <1>2, <1>3, CleanupTemporaryCases

LEMMA RollbackDirectoriesSafe ==
  ASSUME ShapeInv, RollbackDirectories
  PROVE  SafeStep
<1>1. UNCHANGED environment
  BY DEF RollbackDirectories
<1>2. CASE Fail("directory_recovery_not_empty")
  BY <1>1, <1>2, FailSafe
<1>3. CASE Goto("finish", 0) /\ UNCHANGED <<target, temporary, clock, journal>>
  <2>1. ChangesKept
    BY <1>1, <1>3, ChangesKeptHolds
  <2>2. \A f \in File : Harmless(f)
    BY <1>3, <2>1, UntouchedHarmless DEF ChangesKept
  <2> QED
    BY <1>3, <2>2, GotoPc, OutsideWindow
<1> QED
  BY <1>2, <1>3 DEF RollbackDirectories

LEMMA RemoveJournalSafe ==
  ASSUME ShapeInv, RemoveJournal
  PROVE  SafeStep
<1>1. journal' = NoJournal /\ command' = Idle /\ UNCHANGED <<disk, environment>>
  BY DEF RemoveJournal, Ended
<1>2. \A f \in File : Known(f)' \subseteq Known(f)
  BY <1>1 DEF Known, disk
<1>3. \A f \in File : Harmless(f)
  BY <1>1, <1>2 DEF Harmless, disk, environment
<1> QED
  BY <1>1, <1>3, IdleFields, OutsideWindow

LEMMA RecoverSafe ==
  ASSUME ShapeInv, NEW op \in {"complete", "rollback"}, Recover(op)
  PROVE  SafeStep
<1>1. journal # NoJournal /\ command = Idle /\ UNCHANGED <<disk, environment>>
  BY DEF Recover
<1>2. CASE journal' = journal /\ command' = command
  BY <1>1, <1>2, IdleFields, QuietSafe
<1>3. CASE /\ journal' = [journal EXCEPT !.state = "committing"]
           /\ command' = IF op = "complete"
                         THEN [op |-> op, pc |-> "mkdir", f |-> 0]
                         ELSE [op |-> op, pc |-> "prepare", f |-> N]
  <2>1. \A f \in File : Change(f)' = Change(f)
    BY <1>1, <1>3, StateChangeKeepsEntries DEF JournalState
  <2> QED
    BY <1>1, <1>3, <2>1, QuietSafe
<1> QED
  BY <1>2, <1>3 DEF Recover

LEMMA CrashSafe ==
  ASSUME ShapeInv, Crash
  PROVE  SafeStep
<1>1. command' = Idle /\ UNCHANGED <<disk, environment, journal>>
  BY DEF Crash, Ended
<1> QED
  BY <1>1, IdleFields, QuietSafe

LEMMA TransactionSafe ==
  ASSUME ShapeInv, TheirsInv, Execute \/ Step \/ Complete \/ Rollback \/ Crash
  PROVE  SafeStep
<1>1. CASE Step
  BY <1>1, PrepareDirectoriesSafe, StageTemporarySafe, RecordStagedSafe,
     MarkPreparedSafe, BeginCommitSafe, RecordEndpointSafe, KeepTemporarySafe,
     DropTemporarySafe, StageReplacementSafe, StageDeletionTombstoneSafe,
     RecordTemporarySafe, SecondCompareSafe, PublishChangeSafe,
     UnlinkPublishedTemporarySafe, MarkValidatingSafe, CheckResultSafe,
     CleanupTemporarySafe, RollbackDirectoriesSafe, RemoveJournalSafe
  DEF Step
<1>2. CASE Complete \/ Rollback
  BY <1>2, RecoverSafe DEF Complete, Rollback
<1> QED
  BY <1>1, <1>2, ExecuteSafe, CrashSafe

\* An edit: what somebody leaves at f is an inode of their own, or has other bytes.
LEMMA EditTheirs ==
  ASSUME ShapeInv, TheirsInv, Edit, NEW f \in File, NEW ino \in Nat, Leaves(f, ino),
         OnlyAt(File, f), temporary'[f].ino = temporary[f].ino,
         ino # 0 => /\ Exists(target'[f]) /\ target'[f].ino = ino
                    /\ target'[f].data = "foreign" \/ ino = clock[f] + 1
  PROVE  TheirsInv'
<1>1. /\ journal' = journal /\ command' = command
      /\ \A g : Change(g)' = Change(g)
      /\ ExpectedSide' = ExpectedSide
  BY OthersKeepCommand
<1>2. theirs' = [theirs EXCEPT ![f] = IF InWindow(f) THEN 0 ELSE ino]
  BY DEF Leaves
<1>3. theirs \in [File -> Nat]
  BY DEF ShapeInv, HistoryOK
<1>4. ASSUME NEW g \in File, g # f PROVE TheirsAt(g)'
  BY <1>1, <1>2, <1>3, <1>4, UntouchedHarmless, HarmlessTheirs DEF OnlyAt, TheirsInv
<1>5. TheirsAt(f)'
  <2>1. Known(f)' \subseteq Known(f)
    BY <1>1, KnownKept DEF Known
  <2>2. Known(f) \subseteq Nat /\ clock[f] \in Nat /\ clock'[f] = clock[f] + 1
    BY KnownNat, PairAt DEF ShapeInv, OnlyAt
  <2>3. \A i \in Known(f)' : i <= clock'[f] /\ i # clock[f] + 1
    BY <2>1, <2>2 DEF TheirsInv, TheirsAt
  <2>4. theirs'[f] \in {0, ino}
    BY <1>2, <1>3
  <2> QED
    BY <2>3, <2>4 DEF TheirsAt, Exists
<1>6. ASSUME NEW g \in File, InWindow(g)' PROVE theirs'[g] = 0
  <2>1. InWindow(g)
    BY <1>1, <1>6 DEF InWindow, At, Exists, Planned, Original
  <2> QED
    BY <1>2, <1>3, <2>1 DEF TheirsInv
<1> QED
  BY <1>4, <1>5, <1>6 DEF TheirsInv

LEMMA OthersTheirs ==
  ASSUME ShapeInv, TheirsInv, Others
  PROVE  TheirsInv' /\ edits' # edits
<1>1. ASSUME NEW f \in File, ReplaceFile(f) PROVE TheirsInv' /\ Edit
  <2>1. clock[f] + 1 \in Nat
    BY PairAt DEF ShapeInv
  <2> QED
    BY <1>1, <2>1, ReplaceFileEffect, EditTheirs
<1>2. ASSUME NEW f \in File, OverwriteFile(f) PROVE TheirsInv' /\ Edit
  <2>1. target[f].ino \in Nat /\ Exists(target[f])
    BY <1>2, PairAt DEF ShapeInv, OnDisk, FileState, OverwriteFile
  <2> QED
    BY <1>2, <2>1, OverwriteFileEffect, EditTheirs DEF Exists
<1>3. ASSUME NEW f \in File, RemoveFile(f) PROVE TheirsInv' /\ Edit
  BY <1>3, RemoveFileEffect, EditTheirs
<1>4. ASSUME Edit, UNCHANGED <<target, temporary, clock, theirs>> PROVE TheirsInv'
  <2>1. /\ journal' = journal /\ command' = command
        /\ \A g : Change(g)' = Change(g)
        /\ ExpectedSide' = ExpectedSide
    BY <1>4, OthersKeepCommand
  <2>2. ASSUME NEW g \in File PROVE TheirsAt(g)'
    BY <1>4, <2>1, UntouchedHarmless, HarmlessTheirs DEF TheirsInv
  <2>3. \A g \in File : InWindow(g)' <=> InWindow(g)
    BY <2>1 DEF InWindow, At, Exists, Planned, Original
  <2> QED
    BY <1>4, <2>2, <2>3 DEF TheirsInv
<1>5. ASSUME ChangeCatalog \/ UseDirectory PROVE TheirsInv' /\ Edit
  BY <1>4, <1>5 DEF ChangeCatalog, UseDirectory, disk
<1>6. ASSUME Edit PROVE edits' # edits
  <2>1. edits \in Nat /\ edits' = edits + 1
    BY <1>6 DEF ShapeInv, HistoryOK, Edit
  <2> QED
    BY <2>1
<1> QED
  BY <1>1, <1>2, <1>3, <1>5, <1>6 DEF Others

LEMMA InitTheirs == Init => TheirsInv
<1> SUFFICES ASSUME Init PROVE TheirsInv
  OBVIOUS
<1>1. ASSUME NEW f \in File PROVE TheirsAt(f)
  BY DEF Init, TheirsAt, Known, Absent
<1>2. \A f \in File : theirs[f] = 0
  BY DEF Init
<1> QED
  BY <1>1, <1>2 DEF TheirsInv

LEMMA TheirsStep == ShapeInv /\ TheirsInv /\ [Next]_vars => TheirsInv'
<1> SUFFICES ASSUME ShapeInv, TheirsInv, [Next]_vars PROVE TheirsInv'
  OBVIOUS
<1>1. ASSUME SafeStep PROVE TheirsInv'
  BY <1>1, HarmlessTheirs DEF TheirsInv, SafeStep, Harmless
<1>2. ASSUME UNCHANGED vars PROVE TheirsInv'
  <2>1. UNCHANGED <<disk, environment, journal, command>>
    BY <1>2 DEF vars
  <2>2. \A g \in File : Harmless(g)
    BY <2>1, ChangesKeptHolds, DiskAndEntriesKept
  <2>3. \A g \in File : InWindow(g)' <=> InWindow(g)
    BY <2>1 DEF InWindow, At, Exists, Planned, Original, ExpectedSide, DesiredSide
  <2> QED
    BY <2>2, <2>3, HarmlessTheirs DEF TheirsInv, Harmless
<1> QED
  BY <1>1, <1>2, TransactionSafe, OthersTheirs DEF Next

LEMMA TheirsInvariant == Spec => [](ShapeInv /\ TheirsInv)
BY InitShape, ShapeStep, InitTheirs, TheirsStep, PTL DEF Spec

\* Whatever crashes, recoveries and edits there are, no step of execute, complete
\* or rollback replaces, changes or unlinks a file that somebody else left at a
\* planned path before the last compare (mutation-cas.ts:129-260).
THEOREM OthersFilesSurvive == Spec => TheirFilesSurvive
<1>1. ASSUME ShapeInv, TheirsInv, [Next]_vars, NEW f \in File, theirs[f] # 0, edits' = edits
      PROVE  target'[f].ino = target[f].ino /\ target'[f].data = target[f].data
  <2>1. CASE SafeStep
    BY <1>1, <2>1 DEF SafeStep, Harmless
  <2>2. CASE UNCHANGED vars
    BY <2>2 DEF vars, disk
  <2> QED
    BY <1>1, <2>1, <2>2, TransactionSafe, OthersTheirs DEF Next
<1>2. ShapeInv /\ TheirsInv /\ [Next]_vars =>
        [\A f \in File : /\ theirs[f] # 0
                         /\ edits' = edits
                         => /\ target'[f].ino = target[f].ino
                            /\ target'[f].data = target[f].data]_vars
  BY <1>1
<1> QED
  BY <1>2, TheirsInvariant, PTL DEF Spec, TheirFilesSurvive
-----------------------------------------------------------------------------
(***************************************************************************)
(* How far the files are.                                                  *)
(***************************************************************************)
LEMMA DataFacts ==
  ASSUME NEW f \in File
  PROVE  /\ AfterData(f) # BeforeData(f)
         /\ DesiredData(f) = IF Forward THEN AfterData(f) ELSE BeforeData(f)
         /\ Planned(f)[ExpectedSide].data = IF Forward THEN BeforeData(f) ELSE AfterData(f)
<1>1. "before" \in Side /\ OppositeSide("before") = "after"
  BY SideFacts
<1>2. AfterData(f) # BeforeData(f)
  BY <1>1, PlannedFacts
<1>3. /\ Forward => DesiredSide = "after" /\ ExpectedSide = "before"
      /\ ~Forward => DesiredSide = "before" /\ ExpectedSide = "after"
  BY SideFacts DEF Forward, DesiredSide, ExpectedSide
<1>4. AfterData(f) = Planned(f)["after"].data /\ BeforeData(f) = Planned(f)["before"].data
  BY <1>1, PlannedFacts
<1> QED
  BY <1>2, <1>3, <1>4 DEF DesiredData

\* A file at its old side is past the prefix, one at its new side is in it.
LEMMA PrefixFacts ==
  ASSUME NEW k \in 0..N, PrefixOnDisk(k), NEW f \in File
  PROVE  /\ target[f].data = AfterData(f) <=> f <= k
         /\ target[f].data = BeforeData(f) <=> f > k
<1>1. k \in Nat /\ N \in Nat /\ f \in Nat /\ f >= 1 /\ f <= N
  BY KindFacts
<1>2. f <= k => target[f].data = AfterData(f)
  BY <1>1 DEF PrefixOnDisk
<1>3. f > k => target[f].data = BeforeData(f)
  BY <1>1 DEF PrefixOnDisk
<1>4. AfterData(f) # BeforeData(f)
  BY DataFacts
<1>5. f <= k \/ f > k
  BY <1>1
<1>6. ~(f <= k /\ f > k)
  BY <1>1
<1> QED
  BY <1>2, <1>3, <1>4, <1>5, <1>6

LEMMA PrefixKept ==
  ASSUME NEW k \in 0..N, PrefixOnDisk(k), \A f \in File : target'[f].data = target[f].data
  PROVE  PrefixOnDisk(k)'
<1>1. \A f \in 1..k : f \in File
  BY KindFacts
<1>2. \A f \in (k + 1)..N : f \in File
  BY KindFacts
<1> QED
  BY <1>1, <1>2 DEF PrefixOnDisk, AfterData, BeforeData, Planned, Original

\* The next file of the prefix is published, or the last one is taken back.
LEMMA PrefixMoves ==
  ASSUME NEW k \in 0..N, PrefixOnDisk(k), NEW f \in File,
         \A g \in File \ {f} : target'[g].data = target[g].data,
         \/ k = f - 1 /\ target'[f].data = AfterData(f)
         \/ k = f /\ target'[f].data = BeforeData(f)
  PROVE  PrefixOnDisk(IF k = f THEN f - 1 ELSE f)'
<1>1. /\ \A g : AfterData(g)' = AfterData(g)
      /\ \A g : BeforeData(g)' = BeforeData(g)
  BY DEF AfterData, BeforeData, Planned, Original
<1>2. k \in Nat /\ N \in Nat /\ f \in Nat /\ f >= 1 /\ f <= N
  BY KindFacts
<1>3. CASE k = f
  <2>1. target'[f].data = BeforeData(f)
    BY <1>2, <1>3
  <2>2. ASSUME NEW g \in 1..(f - 1) PROVE target'[g].data = AfterData(g)
    <3>1. g \in File \ {f} /\ g \in 1..k
      BY <1>2, <1>3, KindFacts
    <3> QED
      BY <3>1 DEF PrefixOnDisk
  <2>3. ASSUME NEW g \in (f - 1 + 1)..N PROVE target'[g].data = BeforeData(g)
    <3>1. g = f \/ (g \in File \ {f} /\ g \in (k + 1)..N)
      BY <1>2, <1>3, KindFacts
    <3> QED
      BY <2>1, <3>1 DEF PrefixOnDisk
  <2>4. PrefixOnDisk(f - 1)'
    BY <1>1, <2>2, <2>3 DEF PrefixOnDisk
  <2> QED
    BY <1>3, <2>4
<1>4. CASE k # f
  <2>1. target'[f].data = AfterData(f) /\ k = f - 1
    BY <1>4
  <2>2. ASSUME NEW g \in 1..f PROVE target'[g].data = AfterData(g)
    <3>1. g = f \/ (g \in File \ {f} /\ g \in 1..k)
      BY <1>2, <2>1, KindFacts
    <3> QED
      BY <2>1, <3>1 DEF PrefixOnDisk
  <2>3. ASSUME NEW g \in (f + 1)..N PROVE target'[g].data = BeforeData(g)
    <3>1. g \in File \ {f} /\ g \in (k + 1)..N
      BY <1>2, <2>1, KindFacts
    <3> QED
      BY <3>1 DEF PrefixOnDisk
  <2>4. PrefixOnDisk(f)'
    BY <1>1, <2>2, <2>3 DEF PrefixOnDisk
  <2> QED
    BY <1>4, <2>4
<1> QED
  BY <1>3, <1>4

LEMMA JournalPositionKept ==
  ASSUME NEW k \in 0..N, JournalPosition(k), journal' = journal
  PROVE  JournalPosition(k)'
BY DEF JournalPosition

LEMMA OutsideLoop ==
  ASSUME NEW k, phase' # "planned" \/ k = 0, command'.pc \notin LoopPc \cup EndPc
  PROVE  CommandPosition(k)'
BY LoopPcNames DEF CommandPosition

LEMMA InsideLoop ==
  ASSUME NEW k, phase' = "open", command'.pc \in LoopPc \ {"commit"},
         command'.op # "rollback" => k >= command'.f - 1,
         command'.op = "rollback" => k <= command'.f /\ journal'.applied <= command'.f
  PROVE  CommandPosition(k)'
BY DEF CommandPosition, LoopPc, EndPc, Forward

LEMMA AtEnd ==
  ASSUME NEW k, phase' = "open", command'.pc \in EndPc,
         k = IF command'.op # "rollback" THEN N ELSE 0
  PROVE  CommandPosition(k)'
BY DEF CommandPosition, LoopPc, EndPc, Forward

\* The bytes of the files stay.
DataKept == \A f \in File : target'[f].data = target[f].data

LEMMA DataKeptHolds ==
  ASSUME target' = target
  PROVE  DataKept
BY DEF DataKept

LEMMA FailPosition ==
  ASSUME NEW k \in 0..N, Position(k), NEW reason, Fail(reason)
  PROVE  Position(k)' /\ DataKept
<1>1. command'.pc = "idle" /\ UNCHANGED <<journal, phase, disk>>
  BY IdleFields DEF Fail, Ended
<1>2. DataKept
  BY <1>1, DataKeptHolds DEF disk
<1>3. PrefixOnDisk(k)' /\ JournalPosition(k)'
  BY <1>1, <1>2, PrefixKept, JournalPositionKept DEF DataKept, Position
<1>4. phase' # "planned" \/ k = 0
  BY <1>1 DEF Position, CommandPosition
<1>5. "idle" \notin LoopPc \cup EndPc
  BY DEF LoopPc, EndPc
<1>6. CommandPosition(k)'
  BY <1>1, <1>4, <1>5, OutsideLoop
<1> QED
  BY <1>2, <1>3, <1>6 DEF Position

LEMMA KeptPosition ==
  ASSUME NEW k \in 0..N, Position(k), DataKept, JournalPosition(k)', CommandPosition(k)'
  PROVE  Position(k)' /\ DataKept
BY PrefixKept DEF DataKept, Position

LEMMA PhaseKept ==
  ASSUME ShapeInv, command.pc # "idle", Continues
  PROVE  phase' = "open" /\ journal # NoJournal
BY RunningFacts DEF Continues

\* A step that neither enters nor leaves the handling of a file.
LEMMA OutsidePosition ==
  ASSUME ShapeInv, NEW k \in 0..N, Position(k), command.pc # "idle", Continues,
         DataKept, journal' # NoJournal,
         journal'.state \in {journal.state, "committing"}
           \/ (journal.state = "planning" /\ journal'.state = "prepared"),
         journal'.applied = journal.applied,
         command'.pc \notin LoopPc \cup EndPc
  PROVE  Position(k)' /\ DataKept
<1>1. phase' = "open" /\ journal # NoJournal
  BY PhaseKept
<1>2. JournalPosition(k)'
  BY <1>1 DEF Position, JournalPosition
<1>3. CommandPosition(k)'
  BY <1>1, OutsideLoop
<1> QED
  BY <1>2, <1>3, KeptPosition

LEMMA ExecutePosition ==
  ASSUME ShapeInv, NEW k \in 0..N, Position(k), Execute
  PROVE  Position(k)' /\ DataKept
<1>1. k = 0 /\ phase = "planned" /\ journal = NoJournal /\ UNCHANGED disk
  BY DEF Execute, Position, CommandPosition, ShapeInv, HistoryOK
<1>2. /\ journal' \in {NoJournal, InitialJournal}
      /\ command'.pc \in {"idle", "mkdir"}
  BY <1>1, IdleFields DEF Execute
<1>3. JournalPosition(k)'
  BY <1>1, <1>2 DEF JournalPosition, InitialJournal
<1>4. "idle" \notin LoopPc \cup EndPc /\ "mkdir" \notin LoopPc \cup EndPc
  BY DEF LoopPc, EndPc
<1>5. CommandPosition(k)'
  BY <1>1, <1>2, <1>4, OutsideLoop
<1> QED
  BY <1>1, <1>3, <1>5, DataKeptHolds, KeptPosition DEF disk

LEMMA EarlyPc ==
  /\ {"idle", "mkdir", "stage", "record staged", "recheck"} \cap (LoopPc \cup EndPc) = {}
  /\ LoopPc \cap EndPc = {} /\ "idle" \notin LoopPc
  /\ "publish" \in LoopPc \ {"commit"} /\ "prepare" \in LoopPc \ {"commit"}
BY DEF LoopPc, EndPc

\* The command starts on the first file.
LEMMA StartsPosition ==
  ASSUME ShapeInv, NEW k \in 0..N, Position(k), command.pc # "idle", Continues,
         DataKept, command.op # "rollback", EnterFile(1),
         journal' # NoJournal, journal'.state = "committing",
         journal'.applied = journal.applied
  PROVE  Position(k)' /\ DataKept
<1>1. phase' = "open" /\ journal # NoJournal
  BY PhaseKept
<1>2. /\ command'.pc \in LoopPc \ {"commit"} /\ command'.f = 1
      /\ command'.op = command.op
  BY EnterPc, EarlyPc
<1>3. JournalPosition(k)'
  BY <1>1 DEF Position, JournalPosition
<1>4. k >= 1 - 1
  OBVIOUS
<1>5. CommandPosition(k)'
  BY <1>1, <1>2, <1>4, InsideLoop
<1> QED
  BY <1>3, <1>5, KeptPosition

LEMMA PrepareDirectoriesPosition ==
  ASSUME ShapeInv, NEW k \in 0..N, Position(k), PrepareDirectories
  PROVE  Position(k)' /\ DataKept
<1>1. /\ command.pc = "mkdir" /\ Continues /\ journal' = journal /\ target' = target
      /\ command.op \in {"execute", "complete"}
      /\ command.op = "execute" => Goto("stage", 1)
      /\ command.op = "complete" => EnterFile(1)
  BY IdleFields DEF PrepareDirectories, At, ShapeInv, CommandOK, Forward
<1>2. journal # NoJournal /\ DataKept
  BY <1>1, PhaseKept, DataKeptHolds
<1>3. CASE command.op = "execute"
  BY <1>1, <1>2, <1>3, GotoPc, EarlyPc, OutsidePosition
<1>4. CASE command.op = "complete"
  <2>1. journal.state = "committing"
    BY <1>1, <1>4 DEF ShapeInv, CommandOK
  <2> QED
    BY <1>1, <1>2, <1>4, <2>1, StartsPosition
<1> QED
  BY <1>1, <1>3, <1>4

LEMMA StageTemporaryPosition ==
  ASSUME ShapeInv, NEW k \in 0..N, Position(k), StageTemporary
  PROVE  Position(k)' /\ DataKept
<1>1. /\ command.pc = "stage" /\ Continues /\ journal' = journal /\ target' = target
      /\ \/ Goto("record staged", command.f)
         \/ Goto("stage", command.f + 1)
  BY DEF StageTemporary, At, WriteTemporary, CreateTemporary
<1>2. journal # NoJournal /\ DataKept
  BY <1>1, PhaseKept, DataKeptHolds
<1>3. command'.pc \notin LoopPc \cup EndPc
  BY <1>1, GotoPc, EarlyPc
<1> QED
  BY <1>1, <1>2, <1>3, OutsidePosition

LEMMA RecordStagedPosition ==
  ASSUME ShapeInv, NEW k \in 0..N, Position(k), RecordStaged
  PROVE  Position(k)' /\ DataKept
<1>1. /\ command.pc = "record staged" /\ Continues /\ UNCHANGED disk
      /\ Goto("stage", command.f + 1)
      /\ TemporaryRecorded(command.f, "after", temporary[command.f])
  BY DEF RecordStaged, At, TemporaryRecorded
<1>2. journal \in Journal
  BY <1>1, RunningFacts
<1>3. /\ journal'.state = journal.state /\ journal'.applied = journal.applied
      /\ journal' # NoJournal
  BY <1>1, <1>2 DEF TemporaryRecorded, Journal, NoJournal
<1>4. DataKept /\ command'.pc \notin LoopPc \cup EndPc
  BY <1>1, DataKeptHolds, GotoPc, EarlyPc DEF disk
<1> QED
  BY <1>1, <1>3, <1>4, OutsidePosition

LEMMA MarkPreparedPosition ==
  ASSUME ShapeInv, NEW k \in 0..N, Position(k), MarkPrepared
  PROVE  Position(k)' /\ DataKept
<1>1. /\ command.pc = "stage" /\ Continues /\ UNCHANGED disk
      /\ Goto("recheck", 0)
      /\ journal' = [journal EXCEPT !.state = "prepared"]
      /\ "prepared" \in JournalState
  BY DEF MarkPrepared, At, JournalState
<1>2. journal \in Journal /\ journal # NoJournal /\ journal.state = "planning"
  BY <1>1, RunningFacts DEF ShapeInv, CommandOK
<1>3. /\ journal'.state = "prepared" /\ journal'.applied = journal.applied
      /\ journal' # NoJournal
  BY <1>1, <1>2, RecordsState, JournalFacts
<1>4. DataKept /\ command'.pc \notin LoopPc \cup EndPc
  BY <1>1, DataKeptHolds, GotoPc, EarlyPc DEF disk
<1> QED
  BY <1>1, <1>2, <1>3, <1>4, OutsidePosition

LEMMA BeginCommitPosition ==
  ASSUME ShapeInv, NEW k \in 0..N, Position(k), BeginCommit
  PROVE  Position(k)' /\ DataKept
<1>1. /\ command.pc = "recheck" /\ command.op = "execute" /\ "committing" \in JournalState
  BY DEF BeginCommit, At, ShapeInv, CommandOK, JournalState
<1>2. CASE Fail("cas_conflict")
  BY <1>2, FailPosition
<1>3. CASE /\ journal' = [journal EXCEPT !.state = "committing"]
           /\ EnterFile(1) /\ Continues /\ UNCHANGED disk
  <2>1. journal \in Journal
    BY <1>1, RunningFacts
  <2>2. /\ journal'.state = "committing" /\ journal'.applied = journal.applied
        /\ journal' # NoJournal /\ DataKept
    BY <1>1, <1>3, <2>1, RecordsState, JournalFacts, DataKeptHolds DEF disk
  <2> QED
    BY <1>1, <1>3, <2>2, StartsPosition
<1> QED
  BY <1>2, <1>3 DEF BeginCommit

\* A step inside the handling of a file that goes on with the same file.
LEMMA LoopPosition ==
  ASSUME ShapeInv, NEW k \in 0..N, Position(k), command.pc \in LoopPc, Continues,
         DataKept, NEW pc \in LoopPc \ {"commit"}, Goto(pc, command.f),
         journal' # NoJournal, journal'.state = "committing",
         journal'.applied = journal.applied
  PROVE  Position(k)' /\ DataKept
<1>1. phase' = "open" /\ journal # NoJournal
  BY PhaseKept, EarlyPc
<1>2. /\ command'.pc = pc /\ command'.f = command.f /\ command'.op = command.op
  BY GotoPc
<1>3. JournalPosition(k)'
  BY <1>1 DEF Position, JournalPosition
<1>4. CommandPosition(k)'
  BY <1>1, <1>2, InsideLoop DEF Position, CommandPosition, Forward
<1> QED
  BY <1>3, <1>4, KeptPosition

LEMMA LoopJournal ==
  ASSUME ShapeInv, command.pc \in LoopPc, journal' = journal
  PROVE  /\ journal' # NoJournal /\ journal'.state = "committing"
         /\ journal'.applied = journal.applied
BY LoopFacts

LEMMA TakesTemporaryPosition ==
  ASSUME ShapeInv, NEW k \in 0..N, Position(k),
         \/ KeepTemporary \/ DropTemporary \/ StageReplacement
         \/ StageDeletionTombstone \/ UnlinkPublishedTemporary
  PROVE  Position(k)' /\ DataKept
<1>0. command.pc \in {"prepare", "restage", "unlink temporary"}
  BY DEF KeepTemporary, DropTemporary, StageReplacement, StageDeletionTombstone,
         UnlinkPublishedTemporary, At
<1>1. command.pc \in LoopPc
  BY <1>0, LoopPcNames
<1>2. PICK f \in File : f = command.f
  BY <1>1, LoopFacts
<1>3. DiskOK(File) /\ target[f] \in OnDisk /\ target[f].ino <= clock[f]
  BY PairAt DEF ShapeInv, PairOK
<1>4. ASSUME NEW reason, Fail(reason) PROVE Position(k)' /\ DataKept
  BY <1>4, FailPosition
<1>5. ASSUME Continues, DataKept, journal' = journal,
             NEW pc \in {"publish", "restage", "record temporary", "confirm"},
             Goto(pc, f)
      PROVE  Position(k)' /\ DataKept
  <2>1. pc \in LoopPc \ {"commit"}
    BY <1>5, LoopPcNames
  <2> QED
    BY <1>1, <1>2, <1>5, <2>1, LoopPosition, LoopJournal
<1>6. CASE KeepTemporary
  BY <1>2, <1>5, <1>6, DataKeptHolds DEF KeepTemporary, disk
<1>7. ASSUME UnlinkTemporary(f) PROVE DataKept
  BY <1>3, <1>7, UnlinkTemporaryEffect DEF DataKept, OnlyAt
<1>8. CASE DropTemporary
  BY <1>2, <1>4, <1>5, <1>7, <1>8, DropTemporaryCases
<1>9. CASE StageReplacement
  <2>1. /\ CreateTemporary(f, DesiredData(f)) /\ Goto("record temporary", f)
        /\ Continues /\ journal' = journal
    BY <1>2, <1>9, StageReplacementFacts
  <2>2. DataKept
    BY <2>1, DataKeptHolds DEF CreateTemporary
  <2> QED
    BY <1>5, <2>1, <2>2
<1>10. CASE StageDeletionTombstone
  <2>1. ASSUME LinkBoth(f, target[f]), Exists(target[f]) PROVE DataKept
    BY <1>3, <2>1, LinkBothEffect DEF DataKept, OnlyAt
  <2> QED
    BY <1>2, <1>4, <1>5, <1>10, <2>1, StageDeletionTombstoneCases
<1>11. CASE UnlinkPublishedTemporary
  BY <1>2, <1>5, <1>7, <1>11 DEF UnlinkPublishedTemporary
<1> QED
  BY <1>6, <1>8, <1>9, <1>10, <1>11

LEMMA RecordTemporaryPosition ==
  ASSUME ShapeInv, NEW k \in 0..N, Position(k), RecordTemporary
  PROVE  Position(k)' /\ DataKept
<1>1. PICK f \in File : f = command.f
  BY RecordTemporaryCases
<1>2. command.pc \in LoopPc
  BY LoopPcNames DEF RecordTemporary, At
<1>3. CASE Fail("deletion_tombstone_readback_mismatch")
  BY <1>3, FailPosition
<1>4. CASE \E side : /\ TemporaryRecorded(f, side, temporary[f])
                     /\ Goto("publish", f) /\ Continues /\ UNCHANGED disk
  <2>1. /\ journal'.state = "committing" /\ journal'.applied = journal.applied
        /\ journal' # NoJournal
    BY <1>2, <1>4, LoopFacts DEF TemporaryRecorded, Journal, NoJournal
  <2> QED
    BY <1>1, <1>2, <1>4, <2>1, DataKeptHolds, EarlyPc, LoopPosition DEF disk
<1> QED
  BY <1>1, <1>3, <1>4, RecordTemporaryCases

\* The second compare: this file is the next of the prefix, or its last one.
LEMMA SecondComparePosition ==
  ASSUME ShapeInv, NEW k \in 0..N, Position(k), SecondCompare
  PROVE  Position(k)' /\ DataKept
<1>1. PICK f \in File : f = command.f
  BY SecondCompareCases
<1>2. command.pc \in LoopPc
  BY LoopPcNames DEF SecondCompare, At
<1>3. CASE Fail("recovery_conflict")
  BY <1>3, FailPosition
<1>4. CASE /\ Disposition(f) = ExpectedSide
           /\ Goto("commit", f) /\ Continues /\ UNCHANGED <<disk, journal>>
  <2>1. /\ ChangeOK(Change(f)) /\ target[f] \in OnDisk /\ temporary[f] \in OnDisk
        /\ ExpectedSide \in Side
    BY <1>1, <1>2, LoopFacts, SidesOfCommand
  <2>2. target[f].data = Planned(f)[ExpectedSide].data
    BY <1>4, <2>1, DispositionSound DEF Disposition, SamePayload, Change
  <2>3. /\ Forward => k < f
        /\ ~Forward => k >= f
    <3>1. /\ Forward => f > k
          /\ ~Forward => f <= k
      BY <2>2, DataFacts, PrefixFacts DEF Position
    <3>2. f \in Nat /\ k \in Nat
      BY KindFacts
    <3> QED
      BY <3>1, <3>2
  <2>4. IF Forward THEN k >= f - 1 ELSE k <= f /\ journal.applied <= f
    BY <1>1, <1>2 DEF Position, CommandPosition
  <2>5. k = IF Forward THEN f - 1 ELSE f
    <3>1. f \in Nat /\ k \in Nat
      BY KindFacts
    <3> QED
      BY <2>3, <2>4, <3>1
  <2>6. /\ command'.pc = "commit" /\ command'.f = f /\ command'.op = command.op
    BY <1>4, GotoPc
  <2>7. phase' = "open" /\ journal' = journal /\ DataKept
    BY <1>2, <1>4, PhaseKept, EarlyPc, DataKeptHolds DEF disk
  <2>8. CommandPosition(k)'
    <3>1. Forward' <=> Forward
      BY <2>6 DEF Forward
    <3> QED
      BY <2>4, <2>5, <2>6, <2>7, <3>1 DEF CommandPosition, EndPc
  <2>9. JournalPosition(k)'
    BY <2>7, JournalPositionKept DEF Position
  <2> QED
    BY <2>7, <2>8, <2>9, KeptPosition
<1> QED
  BY <1>1, <1>3, <1>4, SecondCompareCases

\* One file is published on the way forward, or taken back.
Moved(j, k) ==
  /\ j \in 0..N
  /\ \/ Forward /\ j = k + 1
     \/ ~Forward /\ j = k - 1

LEMMA PublishChangePosition ==
  ASSUME ShapeInv, NEW k \in 0..N, Position(k), PublishChange
  PROVE  /\ phase = "open" /\ phase' = "open"
         /\ \/ Position(k)' /\ DataKept
            \/ \E j : Moved(j, k) /\ Position(j)'
<1>1. PICK f \in File : f = command.f
  BY PublishChangeCases
<1>2. command.pc = "commit" /\ command.pc \in LoopPc
  BY LoopPcNames DEF PublishChange, At
<1>0. phase = "open"
  BY <1>2, RunningFacts
<1>3. CASE Fail("destination_collision")
  BY <1>0, <1>3, FailPosition DEF Fail
<1>4. CASE ~Fail("destination_collision")
  <2>1. /\ OnlyAt(File, f) /\ target'[f].data = DesiredData(f)
        /\ command'.pc \in {"confirm", "unlink temporary"} /\ command'.f = f
        /\ command'.op = command.op
    BY <1>1, <1>4, PublishChangeEffect
  <2>2. Continues /\ journal' = journal
    BY <1>1, <1>4, PublishChangeCases
  <2>3. phase' = "open" /\ journal # NoJournal
    BY <1>2, <2>2, PhaseKept
  <2>4. /\ journal.state = "committing" /\ journal.applied \in 0..N
        /\ command.op # "rollback" => journal.applied >= f - 1
    BY <1>1, <1>2, LoopFacts DEF Journal
  <2>5. /\ k = IF Forward THEN f - 1 ELSE f
        /\ ~Forward => journal.applied <= f
        /\ k \in {journal.applied - 1, journal.applied, journal.applied + 1}
    BY <1>1, <1>2, <2>3 DEF Position, CommandPosition, JournalPosition
  <2> DEFINE j == IF k = f THEN f - 1 ELSE f
  <2>6. f \in Nat /\ f >= 1 /\ f <= N /\ N \in Nat /\ k \in Nat /\ journal.applied \in Nat
    BY <2>4, KindFacts
  <2>7. j = IF Forward THEN f ELSE f - 1
    BY <2>5, <2>6
  <2>8. Moved(j, k)
    BY <2>5, <2>6, <2>7 DEF Moved
  <2>9. PrefixOnDisk(j)'
    <3>1. \A g \in File \ {f} : target'[g].data = target[g].data
      BY <2>1 DEF OnlyAt
    <3>2. \/ k = f - 1 /\ target'[f].data = AfterData(f)
          \/ k = f /\ target'[f].data = BeforeData(f)
      BY <2>1, <2>5, DataFacts
    <3> QED
      BY <3>1, <3>2, PrefixMoves DEF Position
  <2>10. j \in {journal.applied - 1, journal.applied, journal.applied + 1}
    BY <2>4, <2>5, <2>6, <2>7 DEF Forward
  <2> HIDE DEF j
  <2>11. JournalPosition(j)'
    BY <2>2, <2>4, <2>10 DEF JournalPosition
  <2>12. command'.pc \in LoopPc \ {"commit"}
    BY <2>1, LoopPcNames
  <2>13. /\ command'.op # "rollback" => j >= command'.f - 1
         /\ command'.op = "rollback" => j <= command'.f /\ journal'.applied <= command'.f
    <3>1. /\ Forward => j >= f - 1
          /\ ~Forward => j <= f /\ journal.applied <= f
      BY <2>5, <2>6, <2>7
    <3> QED
      BY <2>1, <2>2, <3>1 DEF Forward
  <2>14. CommandPosition(j)'
    BY <2>3, <2>12, <2>13, InsideLoop
  <2> QED
    BY <1>0, <2>3, <2>8, <2>9, <2>11, <2>14 DEF Position
<1> QED
  BY <1>3, <1>4

LEMMA RecordEndpointPosition ==
  ASSUME ShapeInv, NEW k \in 0..N, Position(k), RecordEndpoint
  PROVE  Position(k)' /\ DataKept
<1>1. command.pc \in LoopPc
  BY RecordEndpointCases, LoopPcNames
<1>2. PICK f \in File : f = command.f
  BY <1>1, LoopFacts
<1>3. CASE Fail("post_commit_mismatch")
  BY <1>3, FailPosition
<1>4. CASE /\ DesiredEndpointReached(Change(f), target[f], temporary[f], DesiredSide)
           /\ EndpointRecorded(f) /\ LeaveFile(f) /\ Continues /\ UNCHANGED disk
  <2>1. /\ journal' \in Journal /\ journal' # NoJournal /\ journal'.state = "committing"
        /\ journal'.applied = NewApplied(f) /\ target[f].data = DesiredData(f)
    BY <1>1, <1>2, <1>4, EndpointRecordedFacts
  <2>2. phase' = "open" /\ journal # NoJournal /\ DataKept
    BY <1>1, <1>4, EarlyPc, PhaseKept, DataKeptHolds DEF disk
  <2>3. /\ journal.applied \in 0..N /\ journal \in Journal
        /\ Forward => journal.applied >= f - 1
    BY <1>1, <1>2, LoopFacts DEF Journal, Forward
  <2>4. /\ Forward => f <= k
        /\ ~Forward => f > k
    BY <2>1, DataFacts, PrefixFacts DEF Position
  <2>5. /\ k \in {journal.applied - 1, journal.applied, journal.applied + 1}
        /\ ~Forward => journal.applied <= f
    BY <1>1, <1>2, <2>2 DEF Position, JournalPosition, CommandPosition
  <2>6. /\ Forward => NewApplied(f) >= f /\ NewApplied(f) \in {journal.applied, f}
        /\ ~Forward => /\ NewApplied(f) <= f - 1
                       /\ NewApplied(f) \in {journal.applied, f - 1}
    BY <2>3, NewAppliedFacts DEF Forward
  <2>7. f \in Nat /\ f >= 1 /\ f <= N /\ N \in Nat /\ k \in Nat /\ journal.applied \in Nat
        /\ k <= N
    BY <2>3, KindFacts
  <2>8. k \in {NewApplied(f) - 1, NewApplied(f), NewApplied(f) + 1}
    <3>1. PICK a \in Nat : a = journal.applied
      BY <2>7
    <3>2. PICK b \in 0..N : b = NewApplied(f)
      BY <2>3, NewAppliedFacts
    <3>3. CASE Forward
      <4>1. b = a \/ (b = f /\ a = f - 1)
        <5>1. a >= f - 1 /\ command.op # "rollback"
          BY <2>3, <3>1, <3>3 DEF Forward
        <5>2. CASE a >= f
          BY <3>1, <3>2, <5>1, <5>2 DEF NewApplied, MarkApplied
        <5>3. CASE a = f - 1
          <6>1. b = a \/ b = f
            BY <2>6, <3>1, <3>2, <3>3
          <6> QED
            BY <5>3, <6>1
        <5> QED
          BY <2>7, <5>1, <5>2, <5>3
      <4>2. k \in {a - 1, a, a + 1} /\ f <= k
        BY <2>4, <2>5, <3>1, <3>3
      <4>3. k \in {b - 1, b, b + 1}
        BY <2>7, <4>1, <4>2
      <4> QED
        BY <3>2, <4>3
    <3>4. CASE ~Forward
      <4>1. b = a \/ (b = f - 1 /\ a = f)
        <5>1. a <= f /\ b <= f - 1 /\ (b = a \/ b = f - 1)
          BY <2>5, <2>6, <3>1, <3>2, <3>4
        <5>2. command.op = "rollback"
          BY <3>4 DEF Forward
        <5>3. CASE a < f
          BY <3>1, <3>2, <5>2, <5>3 DEF NewApplied, MarkRolledBack
        <5>4. CASE a = f
          BY <2>7, <3>1, <3>2, <5>1, <5>4
        <5> QED
          BY <2>7, <3>1, <5>1, <5>3, <5>4
      <4>2. k \in {a - 1, a, a + 1} /\ f > k
        BY <2>4, <2>5, <3>1, <3>4
      <4>3. k \in {b - 1, b, b + 1}
        BY <2>7, <4>1, <4>2
      <4> QED
        BY <3>2, <4>3
    <3> QED
      BY <3>3, <3>4
  <2>9. JournalPosition(k)'
    BY <2>1, <2>8 DEF JournalPosition
  <2>10. CommandPosition(k)'
    <3>1. CASE command.op = "rollback" /\ f = 1
      <4>1. command'.pc = "check" /\ command'.op = command.op
        BY <1>4, <3>1, GotoPc DEF LeaveFile
      <4>2. k = 0
        BY <2>4, <2>7, <3>1 DEF Forward
      <4> QED
        BY <2>2, <3>1, <4>1, <4>2, AtEnd DEF EndPc
    <3>2. CASE command.op # "rollback" /\ f = N
      <4>1. command'.pc = "validating" /\ command'.op = command.op
        BY <1>4, <3>2, GotoPc DEF LeaveFile
      <4>2. k = N
        BY <2>4, <2>7, <3>2 DEF Forward
      <4> QED
        BY <2>2, <3>2, <4>1, <4>2, AtEnd DEF EndPc
    <3>3. CASE command.op = "rollback" /\ f # 1
      <4>1. EnterFile(f - 1)
        BY <1>4, <3>3 DEF LeaveFile
      <4>2. /\ command'.pc \in LoopPc \ {"commit"} /\ command'.f = f - 1
            /\ command'.op = command.op
        BY <4>1, EnterPc, EarlyPc
      <4>3. k <= f - 1 /\ NewApplied(f) <= f - 1
        BY <2>4, <2>6, <2>7, <3>3 DEF Forward
      <4> QED
        BY <2>1, <2>2, <3>3, <4>2, <4>3, InsideLoop
    <3>4. CASE command.op # "rollback" /\ f # N
      <4>1. EnterFile(f + 1)
        BY <1>4, <3>4 DEF LeaveFile
      <4>2. /\ command'.pc \in LoopPc \ {"commit"} /\ command'.f = f + 1
            /\ command'.op = command.op
        BY <4>1, EnterPc, EarlyPc
      <4>3. k >= (f + 1) - 1
        BY <2>4, <2>7, <3>4 DEF Forward
      <4> QED
        BY <2>2, <3>4, <4>2, <4>3, InsideLoop
    <3> QED
      BY <3>1, <3>2, <3>3, <3>4
  <2> QED
    BY <2>2, <2>9, <2>10, KeptPosition
<1> QED
  BY <1>2, <1>3, <1>4, RecordEndpointCases

\* A step after the last file that goes on.
LEMMA EndPosition ==
  ASSUME ShapeInv, NEW k \in 0..N, Position(k), command.pc \in EndPc, Continues,
         DataKept, NEW pc \in EndPc, NEW f, Goto(pc, f), journal' # NoJournal,
         \/ journal'.state = journal.state
         \/ journal'.state = "validating" /\ Forward,
         journal'.applied = journal.applied
  PROVE  Position(k)' /\ DataKept
<1>1. phase' = "open" /\ journal # NoJournal
  BY PhaseKept DEF EndPc
<1>2. command'.pc = pc /\ command'.op = command.op
  BY GotoPc
<1>3. k = IF Forward THEN N ELSE 0
  BY DEF Position, CommandPosition
<1>4. JournalPosition(k)'
  BY <1>1, <1>3 DEF Position, JournalPosition
<1>5. CommandPosition(k)'
  BY <1>1, <1>2, <1>3, AtEnd DEF Forward
<1> QED
  BY <1>4, <1>5, KeptPosition

LEMMA EndNames ==
  /\ "validating" \in EndPc /\ "check" \in EndPc /\ "cleanup" \in EndPc
  /\ "rmdir" \in EndPc /\ "finish" \in EndPc /\ "idle" \notin EndPc
BY DEF EndPc

LEMMA MarkValidatingPosition ==
  ASSUME ShapeInv, NEW k \in 0..N, Position(k), MarkValidating
  PROVE  Position(k)' /\ DataKept
<1>1. /\ command.pc = "validating" /\ Continues /\ UNCHANGED disk /\ Goto("check", 0)
      /\ journal' = [journal EXCEPT !.state = "validating"]
      /\ "validating" \in JournalState /\ Forward
  BY DEF MarkValidating, At, JournalState, ShapeInv, CommandOK
<1>2. journal \in Journal
  BY <1>1, RunningFacts
<1>3. /\ journal'.state = "validating" /\ journal'.applied = journal.applied
      /\ journal' # NoJournal
  BY <1>1, <1>2, RecordsState, JournalFacts
<1> QED
  BY <1>1, <1>3, EndNames, DataKeptHolds, EndPosition DEF disk

LEMMA EndStepsPosition ==
  ASSUME ShapeInv, NEW k \in 0..N, Position(k),
         CheckResult \/ CleanupTemporary \/ RollbackDirectories
  PROVE  Position(k)' /\ DataKept
<1>1. command.pc \in {"check", "cleanup", "rmdir"}
  BY DEF CheckResult, CleanupTemporary, RollbackDirectories, At
<1>2. command.pc \in EndPc /\ journal # NoJournal
  BY <1>1, EndNames, RunningFacts
<1>3. ASSUME NEW reason, Fail(reason) PROVE Position(k)' /\ DataKept
  BY <1>3, FailPosition
<1>4. ASSUME Continues, DataKept, journal' = journal, NEW pc \in EndPc, NEW f, Goto(pc, f)
      PROVE  Position(k)' /\ DataKept
  BY <1>2, <1>4, EndPosition
<1>5. CASE CheckResult
  <2>1. CASE Goto("cleanup", 1) /\ Continues /\ UNCHANGED <<disk, journal>>
    BY <1>4, <2>1, EndNames, DataKeptHolds DEF disk
  <2> QED
    BY <1>3, <1>5, <2>1, CheckResultCases
<1>6. CASE CleanupTemporary
  <2>1. PICK f \in File : f = command.f
    BY <1>6, CleanupTemporaryCases
  <2>2. CASE Fail("temporary_identity_changed")
    BY <1>3, <2>2
  <2>3. CASE ~Fail("temporary_identity_changed")
    <3>1. DataKept
      BY <1>6, <2>1, <2>3, CleanupTemporaryEffect DEF DataKept
    <3>2. AfterCleanup \in EndPc
      BY AfterCleanupIs, EndNames DEF AfterCleanupFacts
    <3>3. /\ Continues /\ journal' = journal
          /\ Goto(AfterCleanup, 0) \/ Goto("cleanup", f + 1)
      BY <1>6, <2>1, <2>3, CleanupTemporaryCases
    <3> QED
      BY <1>4, <3>1, <3>2, <3>3, EndNames
  <2> QED
    BY <2>2, <2>3
<1>7. CASE RollbackDirectories
  <2>1. CASE Fail("directory_recovery_not_empty")
    BY <1>3, <2>1
  <2>2. CASE Goto("finish", 0) /\ Continues /\ target' = target /\ journal' = journal
    BY <1>4, <2>2, EndNames, DataKeptHolds
  <2> QED
    BY <1>7, <2>1, <2>2 DEF RollbackDirectories
<1> QED
  BY <1>5, <1>6, <1>7

LEMMA RemoveJournalPosition ==
  ASSUME ShapeInv, NEW k \in 0..N, Position(k), RemoveJournal
  PROVE  /\ Position(k)' /\ DataKept
         /\ phase = "open" /\ k = IF Forward THEN N ELSE 0
         /\ phase' = IF Forward THEN "completed" ELSE "rolled back"
<1>1. /\ command.pc = "finish" /\ journal' = NoJournal /\ command' = Idle /\ UNCHANGED disk
      /\ phase' = IF Forward THEN "completed" ELSE "rolled back"
  BY DEF RemoveJournal, At, Ended, Forward
<1>2. phase = "open" /\ k = IF Forward THEN N ELSE 0
  BY <1>1, EndNames, RunningFacts DEF Position, CommandPosition
<1>3. JournalPosition(k)'
  BY <1>1 DEF JournalPosition
<1>4. command'.pc \notin LoopPc \cup EndPc
  BY <1>1, IdleFields, EarlyPc
<1>5. CommandPosition(k)'
  BY <1>1, <1>4, OutsideLoop
<1> QED
  BY <1>1, <1>2, <1>3, <1>5, DataKeptHolds, KeptPosition DEF disk

LEMMA RecoverPosition ==
  ASSUME ShapeInv, NEW k \in 0..N, Position(k), NEW op \in {"complete", "rollback"},
         Recover(op)
  PROVE  Position(k)' /\ DataKept
<1>1. command = Idle /\ journal # NoJournal /\ UNCHANGED <<disk, phase>>
  BY DEF Recover
<1>2. DataKept /\ phase = "open" /\ journal \in Journal
  BY <1>1, DataKeptHolds DEF disk, ShapeInv, HistoryOK, JournalOK
<1>3. CASE journal' = journal /\ command' = command
  <2>1. command'.pc \notin LoopPc \cup EndPc
    BY <1>1, <1>3, IdleFields, EarlyPc
  <2>2. CommandPosition(k)'
    BY <1>1, <1>2, <2>1, OutsideLoop
  <2>3. JournalPosition(k)'
    BY <1>3, JournalPositionKept DEF Position
  <2> QED
    BY <1>2, <2>2, <2>3, KeptPosition
<1>4. CASE /\ journal' = [journal EXCEPT !.state = "committing"]
           /\ command' = IF op = "complete"
                         THEN [op |-> op, pc |-> "mkdir", f |-> 0]
                         ELSE [op |-> op, pc |-> "prepare", f |-> N]
  <2>1. /\ journal'.state = "committing" /\ journal'.applied = journal.applied
        /\ journal' # NoJournal
    BY <1>2, <1>4, RecordsState, JournalFacts DEF JournalState
  <2>2. JournalPosition(k)'
    BY <1>1, <2>1 DEF Position, JournalPosition
  <2>3. CASE op = "complete"
    <3>1. command'.pc \notin LoopPc \cup EndPc
      BY <1>4, <2>3, EarlyPc
    <3> QED
      BY <1>1, <1>2, <2>2, <3>1, OutsideLoop, KeptPosition
  <2>4. CASE op = "rollback"
    <3>1. /\ command'.pc \in LoopPc \ {"commit"} /\ command'.op = "rollback"
          /\ command'.f = N
      BY <1>4, <2>4, EarlyPc
    <3>2. k <= N /\ journal'.applied <= N
      BY <1>2, <2>1, KindFacts DEF Journal
    <3>3. CommandPosition(k)'
      BY <1>1, <1>2, <3>1, <3>2, InsideLoop
    <3> QED
      BY <1>2, <2>2, <3>3, KeptPosition
  <2> QED
    BY <2>3, <2>4
<1> QED
  BY <1>3, <1>4 DEF Recover

LEMMA CrashPosition ==
  ASSUME ShapeInv, NEW k \in 0..N, Position(k), Crash
  PROVE  Position(k)' /\ DataKept
<1>1. command' = Idle /\ UNCHANGED <<disk, journal, phase>>
  BY DEF Crash, Ended
<1>2. command'.pc \notin LoopPc \cup EndPc /\ DataKept
  BY <1>1, IdleFields, EarlyPc, DataKeptHolds DEF disk
<1>3. phase' # "planned" \/ k = 0
  BY <1>1 DEF Position, CommandPosition
<1>4. JournalPosition(k)'
  BY <1>1, JournalPositionKept DEF Position
<1> QED
  BY <1>2, <1>3, <1>4, OutsideLoop, KeptPosition

\* What a step does to the prefix: it stays, or one file is published or taken
\* back while the transaction is open.
LEMMA StepPosition ==
  ASSUME ShapeInv, NEW k \in 0..N, Position(k),
         Execute \/ Step \/ Complete \/ Rollback \/ Crash
  PROVE  \/ Position(k)' /\ DataKept
         \/ /\ PublishChange /\ phase = "open" /\ phase' = "open"
            /\ \E j : Moved(j, k) /\ Position(j)'
<1>1. CASE Step
  BY <1>1, PrepareDirectoriesPosition, StageTemporaryPosition, RecordStagedPosition,
     MarkPreparedPosition, BeginCommitPosition, RecordEndpointPosition,
     TakesTemporaryPosition, RecordTemporaryPosition, SecondComparePosition,
     PublishChangePosition, MarkValidatingPosition, EndStepsPosition,
     RemoveJournalPosition
  DEF Step
<1>2. CASE Complete \/ Rollback
  BY <1>2, RecoverPosition DEF Complete, Rollback
<1> QED
  BY <1>1, <1>2, ExecutePosition, CrashPosition

LEMMA OthersCount ==
  ASSUME ShapeInv, Others
  PROVE  Edit /\ edits' # edits /\ ~Undisturbed'
<1>1. Edit
  BY DEF Others, ReplaceFile, OverwriteFile, RemoveFile, ChangeCatalog, UseDirectory
<1>2. edits \in Nat /\ edits' = edits + 1
  BY <1>1 DEF Edit, ShapeInv, HistoryOK
<1>3. edits + 1 # 0 /\ edits + 1 # edits
  BY <1>2
<1> QED
  BY <1>1, <1>2, <1>3 DEF Undisturbed

\* Nobody undoes an edit.
LEMMA StaysDisturbed ==
  ASSUME ShapeInv, [Next]_vars, Undisturbed'
  PROVE  /\ Undisturbed
         /\ \/ Execute \/ Step \/ Complete \/ Rollback \/ Crash
            \/ UNCHANGED vars
<1>1. CASE Execute \/ Step \/ Complete \/ Rollback \/ Crash
  <2>1. edits' = edits
    <3>1. ASSUME NEW reason, Fail(reason), UNCHANGED environment PROVE edits' = edits
      BY <3>1 DEF environment
    <3> QED
      BY <1>1 DEF Execute, Step, Complete, Rollback, Recover, Crash, PrepareDirectories,
          StageTemporary, RecordStaged, MarkPrepared, BeginCommit, RecordEndpoint,
          KeepTemporary, DropTemporary, StageReplacement, StageDeletionTombstone,
          RecordTemporary, SecondCompare, PublishChange, UnlinkPublishedTemporary,
          MarkValidating, CheckResult, CleanupTemporary, RollbackDirectories,
          RemoveJournal, environment
  <2> QED
    BY <1>1, <2>1 DEF Undisturbed
<1>2. CASE UNCHANGED vars
  BY <1>2 DEF vars, environment, Undisturbed
<1> QED
  BY <1>1, <1>2, OthersCount DEF Next

LEMMA StutterPosition ==
  ASSUME NEW k \in 0..N, Position(k), UNCHANGED vars
  PROVE  Position(k)' /\ DataKept
<1>1. /\ command' = command /\ journal' = journal /\ phase' = phase /\ target' = target
  BY DEF vars, disk
<1>2. JournalPosition(k)' /\ CommandPosition(k)'
  BY <1>1 DEF Position, JournalPosition, CommandPosition, Forward
<1> QED
  BY <1>1, <1>2, DataKeptHolds, KeptPosition

LEMMA InitPosition == Init => Position(0)
<1> SUFFICES ASSUME Init PROVE Position(0)
  OBVIOUS
<1>1. \A f \in File : target[f].data = BeforeData(f)
  BY DEF Init, BeforeData, Planned
<1>2. PrefixOnDisk(0)
  BY <1>1, KindFacts DEF PrefixOnDisk
<1>3. JournalPosition(0) /\ command.pc = "idle"
  BY IdleFields DEF Init, JournalPosition
<1>4. CommandPosition(0)
  BY <1>3, EarlyPc DEF CommandPosition
<1> QED
  BY <1>2, <1>3, <1>4 DEF Position

LEMMA PositionStep == ShapeInv /\ PositionInv /\ [Next]_vars => PositionInv'
<1> SUFFICES ASSUME ShapeInv, PositionInv, [Next]_vars, Undisturbed'
             PROVE  \E k \in 0..N : Position(k)'
  BY DEF PositionInv
<1>1. /\ Undisturbed
      /\ Execute \/ Step \/ Complete \/ Rollback \/ Crash \/ UNCHANGED vars
  BY StaysDisturbed
<1>2. PICK k \in 0..N : Position(k)
  BY <1>1 DEF PositionInv
<1> QED
  BY <1>1, <1>2, StepPosition, StutterPosition DEF Moved

LEMMA PositionInvariant == Spec => [](ShapeInv /\ PositionInv)
<1>1. Init => PositionInv
  <2>1. 0 \in 0..N
    BY KindFacts
  <2> QED
    BY <2>1, InitPosition DEF PositionInv
<1> QED
  BY <1>1, InitShape, ShapeStep, PositionStep, PTL DEF Spec

\* While nobody edits the files, at every moment of every execution, crashes
\* included, the files at their new side are a prefix of the commit order and
\* the journal is at most one file off, which is what assertRecoveryLiveVector
\* (mutation-recovery.ts:224-255) accepts.
THEOREM JournalIsOneOff == Spec => []JournalTracksDisk
<1>1. PositionInv => JournalTracksDisk
  BY DEF PositionInv, Position, JournalPosition, JournalTracksDisk
<1> QED
  BY <1>1, PositionInvariant, PTL
-----------------------------------------------------------------------------
(***************************************************************************)
(* The end of the transaction.                                             *)
(***************************************************************************)
CleanPc == {"cleanup", "rmdir", "finish"}

LEMMA CleanNames ==
  /\ "idle" \notin CleanPc /\ "check" \notin CleanPc
  /\ LoopPc \cap CleanPc = {} /\ Idle.pc \notin CleanPc
  /\ {"mkdir", "stage", "record staged", "recheck", "publish", "prepare",
      "validating", "check"} \cap CleanPc = {}
BY IdleFields DEF LoopPc, CleanPc

LEMMA FailNotClean ==
  ASSUME NEW reason, Fail(reason)
  PROVE  command'.pc \notin CleanPc
BY CleanNames DEF Fail, Ended

\* Only these steps are at the end of a command, or lead there.
LEMMA OnlyEndCleans ==
  ASSUME ShapeInv, Execute \/ Step \/ Complete \/ Rollback \/ Crash,
         command'.pc \in CleanPc
  PROVE  CheckResult \/ CleanupTemporary \/ RollbackDirectories
<1>1. ASSUME NEW pc \in LoopPc \cup {"mkdir", "stage", "record staged", "recheck", "check"},
             NEW f, Goto(pc, f)
      PROVE  FALSE
  BY <1>1, GotoPc, CleanNames
<1>2. ASSUME NEW f, EnterFile(f) \/ LeaveFile(f) PROVE FALSE
  BY <1>2, EnterPc, LeavePc, CleanNames
<1>3. ASSUME NEW reason, Fail(reason) PROVE FALSE
  BY <1>3, FailNotClean
<1>4. ~PrepareDirectories
  <2>1. PrepareDirectories => command.op \in {"execute", "complete"}
    BY IdleFields DEF PrepareDirectories, At, ShapeInv, CommandOK, Forward
  <2> QED
    BY <1>1, <1>2, <2>1 DEF PrepareDirectories
<1>5. ~StageTemporary /\ ~RecordStaged /\ ~MarkPrepared
  BY <1>1 DEF StageTemporary, RecordStaged, MarkPrepared
<1>6. ~BeginCommit
  BY <1>2, <1>3 DEF BeginCommit
<1>7. ~RecordEndpoint
  BY <1>2, <1>3 DEF RecordEndpoint
<1>8. ~KeepTemporary /\ ~DropTemporary /\ ~StageReplacement /\ ~StageDeletionTombstone
  BY <1>1, <1>3, LoopPcNames
  DEF KeepTemporary, DropTemporary, StageReplacement, StageDeletionTombstone
<1>9. ~RecordTemporary /\ ~SecondCompare
  BY <1>1, <1>3, LoopPcNames DEF RecordTemporary, SecondCompare
<1>10. ~PublishChange
  BY <1>1, <1>3, LoopPcNames, PublishChangeCases
<1>11. ~UnlinkPublishedTemporary /\ ~MarkValidating
  BY <1>1, LoopPcNames DEF UnlinkPublishedTemporary, MarkValidating
<1>12. ~RemoveJournal /\ ~Crash
  BY CleanNames DEF RemoveJournal, Crash, Ended
<1>13. ~Execute
  <2>1. Execute => command' = Idle \/ command'.pc = "mkdir"
    BY DEF Execute
  <2> QED
    BY <2>1, CleanNames
<1>14. \A op : ~Recover(op)
  <2>1. \A op : Recover(op) => command' = Idle \/ command'.pc \in {"mkdir", "prepare"}
    BY DEF Recover
  <2> QED
    BY <2>1, CleanNames
<1> QED
  BY <1>4, <1>5, <1>6, <1>7, <1>8, <1>9, <1>10, <1>11, <1>12, <1>13, <1>14
  DEF Step, Complete, Rollback

LEMMA CheckResultCleanup ==
  ASSUME ShapeInv, CheckResult
  PROVE  CleanupInv'
<1>1. CASE \E reason : Fail(reason)
  BY <1>1, FailNotClean DEF CleanupInv, CleanPc
<1>2. CASE Goto("cleanup", 1)
  BY <1>2, GotoPc DEF CleanupInv
<1> QED
  BY <1>1, <1>2, CheckResultCases

LEMMA CleanupTemporaryCleanup ==
  ASSUME ShapeInv, CleanupInv, CleanupTemporary
  PROVE  CleanupInv'
<1>1. PICK f \in File : f = command.f
  BY CleanupTemporaryCases
<1>2. CASE Fail("temporary_identity_changed")
  BY <1>2, FailNotClean DEF CleanupInv, CleanPc
<1>3. CASE ~Fail("temporary_identity_changed")
  <2>1. /\ temporary'[f] = Absent
        /\ \A g \in File \ {f} : temporary'[g] = temporary[g]
        /\ command'.op = command.op
        /\ \/ f = N /\ command'.pc = AfterCleanup
           \/ f # N /\ command'.pc = "cleanup" /\ command'.f = f + 1
    BY <1>1, <1>3, CleanupTemporaryEffect
  <2>2. \A g \in 1..(f - 1) : temporary[g] = Absent
    <3>1. command.pc = "cleanup"
      BY DEF CleanupTemporary, At
    <3> QED
      BY <1>1, <3>1 DEF CleanupInv
  <2>3. \A g \in 1..f : temporary'[g] = Absent
    <3>1. \A g \in 1..f : g = f \/ (g \in 1..(f - 1) /\ g \in File \ {f})
      BY KindFacts
    <3> QED
      BY <2>1, <2>2, <3>1
  <2>4. CASE f # N
    <3>1. command'.pc = "cleanup" /\ command'.f - 1 = f
      BY <2>1, <2>4, KindFacts
    <3> QED
      BY <2>3, <3>1 DEF CleanupInv
  <2>5. CASE f = N
    <3>1. \A g \in File : temporary'[g] = Absent
      BY <2>3, <2>5, KindFacts
    <3>2. command'.pc = AfterCleanup /\ (AfterCleanup = "rmdir" <=> ~Forward)
          /\ AfterCleanup \in {"rmdir", "finish"}
      BY <2>1, <2>5, AfterCleanupIs DEF AfterCleanupFacts
    <3>3. Forward' <=> Forward
      BY <2>1 DEF Forward
    <3> QED
      BY <3>1, <3>2, <3>3 DEF CleanupInv
  <2> QED
    BY <2>4, <2>5
<1> QED
  BY <1>2, <1>3

LEMMA RollbackDirectoriesCleanup ==
  ASSUME ShapeInv, CleanupInv, RollbackDirectories
  PROVE  CleanupInv'
<1>1. CASE Fail("directory_recovery_not_empty")
  BY <1>1, FailNotClean DEF CleanupInv, CleanPc
<1>2. CASE /\ directory' = ~MakesDirectory /\ Goto("finish", 0)
           /\ temporary' = temporary
  BY <1>2, GotoPc DEF RollbackDirectories, At, CleanupInv
<1> QED
  BY <1>1, <1>2 DEF RollbackDirectories

\* No edit brings a temporary.
LEMMA OthersCleanup ==
  ASSUME ShapeInv, CleanupInv, Others
  PROVE  CleanupInv'
<1>2. command' = command /\ ~Undisturbed'
  BY OthersCount, OthersKeepCommand
<1>3. \A g \in File : temporary[g] = Absent => temporary'[g] = Absent
  <2>1. ASSUME NEW f \in File, ReplaceFile(f) \/ OverwriteFile(f) \/ RemoveFile(f)
        PROVE  \A g \in File : temporary[g] = Absent => temporary'[g] = Absent
    BY <2>1, ReplaceFileEffect, OverwriteFileEffect, RemoveFileEffect DEF OnlyAt
  <2>2. CASE temporary' = temporary
    BY <2>2
  <2> QED
    BY <2>1, <2>2 DEF Others, ChangeCatalog, UseDirectory, disk
<1>4. ASSUME command.pc = "cleanup", NEW g \in 1..(command.f - 1) PROVE g \in File
  <2>1. command.f \in File
    BY <1>4 DEF ShapeInv, CommandOK
  <2> QED
    BY <1>4, <2>1, KindFacts
<1> QED
  BY <1>2, <1>3, <1>4 DEF CleanupInv

LEMMA CleanupStep == ShapeInv /\ CleanupInv /\ [Next]_vars => CleanupInv'
<1> SUFFICES ASSUME ShapeInv, CleanupInv, [Next]_vars PROVE CleanupInv'
  OBVIOUS
<1>1. CASE Execute \/ Step \/ Complete \/ Rollback \/ Crash
  <2>1. CASE command'.pc \in CleanPc
    BY <1>1, <2>1, OnlyEndCleans, CheckResultCleanup, CleanupTemporaryCleanup,
       RollbackDirectoriesCleanup
  <2>2. CASE command'.pc \notin CleanPc
    BY <2>2 DEF CleanupInv, CleanPc
  <2> QED
    BY <2>1, <2>2
<1>2. CASE UNCHANGED vars
  BY <1>2 DEF vars, disk, environment, CleanupInv, Forward, Undisturbed
<1> QED
  BY <1>1, <1>2, OthersCleanup DEF Next

LEMMA CleanupInvariant == Spec => [](ShapeInv /\ CleanupInv)
<1>1. Init => CleanupInv
  BY IdleFields DEF Init, CleanupInv
<1> QED
  BY <1>1, InitShape, ShapeStep, CleanupStep, PTL DEF Spec

\* Only RemoveJournal takes the journal away.
LEMMA OnlyRemoveJournal ==
  ASSUME ShapeInv, Next, journal # NoJournal, journal' = NoJournal
  PROVE  RemoveJournal
<1>0. journal \in Journal
  BY DEF ShapeInv, JournalOK
<1>1. ASSUME NEW state \in JournalState, journal' = [journal EXCEPT !.state = state]
      PROVE  FALSE
  BY <1>0, <1>1, RecordsState, JournalFacts
<1>2. ASSUME NEW f, NEW r, journal' = [journal EXCEPT !.temporary[f] = r] PROVE FALSE
  BY <1>0, <1>2 DEF Journal, NoJournal
<1>3. ~Execute /\ ~Crash /\ \A reason : ~Fail(reason)
  BY DEF Execute, ShapeInv, HistoryOK, Crash, Fail
<1>4. \A op : ~Recover(op)
  BY <1>1 DEF Recover, JournalState
<1>5. ~Others
  BY DEF Others, ReplaceFile, OverwriteFile, RemoveFile, ChangeCatalog, UseDirectory, Edit
<1>6. ~RecordEndpoint
  <2>1. ASSUME RecordEndpoint PROVE FALSE
    <3>1. command.pc \in LoopPc
      BY <2>1, RecordEndpointCases, LoopPcNames
    <3>2. PICK f \in File : f = command.f
      BY <3>1, LoopFacts
    <3> QED
      BY <1>3, <2>1, <3>1, <3>2, RecordEndpointCases, EndpointRecordedFacts
  <2> QED
    BY <2>1
<1>7. ~RecordStaged /\ ~RecordTemporary
  BY <1>2, <1>3 DEF RecordStaged, RecordTemporary
<1>8. ~MarkPrepared /\ ~BeginCommit /\ ~MarkValidating
  BY <1>1, <1>3 DEF MarkPrepared, BeginCommit, MarkValidating, JournalState
<1>9. /\ ~PrepareDirectories /\ ~StageTemporary /\ ~KeepTemporary /\ ~DropTemporary
      /\ ~StageReplacement /\ ~StageDeletionTombstone /\ ~SecondCompare
      /\ ~UnlinkPublishedTemporary /\ ~CleanupTemporary /\ ~RollbackDirectories
      /\ ~CheckResult
  BY <1>3 DEF PrepareDirectories, StageTemporary, KeepTemporary, DropTemporary,
     StageReplacement, StageDeletionTombstone, SecondCompare, UnlinkPublishedTemporary,
     CleanupTemporary, RollbackDirectories, CheckResult
<1>10. ~PublishChange
  BY <1>3, PublishChangeCases
<1> QED
  BY <1>3, <1>4, <1>5, <1>6, <1>7, <1>8, <1>9, <1>10 DEF Next, Step, Complete, Rollback

\* The journal goes away only when no temporary is left and, while nobody edits
\* the files, all of them are at the side of the command that removes it and a
\* rolled back directory is gone, whatever died before
\* (mutation-commit.ts:171-185, mutation-recovery.ts:194-198).
THEOREM RemovalSettles == Spec => JournalRemovalSettles
<1> DEFINE Settled == /\ \A f \in File : ~Exists(temporary[f])
                      /\ Undisturbed =>
                           /\ PrefixOnDisk(IF command.op = "rollback" THEN 0 ELSE N)
                           /\ command.op = "rollback" => directory = ~MakesDirectory
<1>1. ASSUME ShapeInv, PositionInv, CleanupInv, Next, journal # NoJournal,
             journal' = NoJournal
      PROVE  Settled
  <2>1. command.pc = "finish"
    BY <1>1, OnlyRemoveJournal DEF RemoveJournal, At
  <2>2. \A f \in File : ~Exists(temporary[f])
    BY <1>1, <2>1, AbsentOnDisk DEF CleanupInv
  <2>3. ASSUME Undisturbed PROVE PrefixOnDisk(IF command.op = "rollback" THEN 0 ELSE N)
    <3>1. PICK k \in 0..N : Position(k)
      BY <1>1, <2>3 DEF PositionInv
    <3>2. k = IF command.op = "rollback" THEN 0 ELSE N
      BY <2>1, <3>1, EndNames DEF Position, CommandPosition, Forward
    <3> QED
      BY <3>1, <3>2 DEF Position
  <2>4. ASSUME Undisturbed, command.op = "rollback" PROVE directory = ~MakesDirectory
    BY <1>1, <2>1, <2>4 DEF CleanupInv, Forward
  <2> QED
    BY <2>2, <2>3, <2>4
<1>2. ASSUME ShapeInv, PositionInv, CleanupInv, [Next]_vars
      PROVE  [journal # NoJournal /\ journal' = NoJournal => Settled]_vars
  BY <1>1, <1>2
<1> QED
  BY <1>2, PositionInvariant, CleanupInvariant, PTL DEF Spec, JournalRemovalSettles

\* Even where the window is open, after the last compare, a file that appeared at
\* the path of a creation is never replaced or removed by the command: the
\* temporary is linked, and a link refuses an occupied path (mutation-cas.ts:248-257).
THEOREM CreationsNeverOverwrite == Spec => CreationNeverOverwrites
<1>1. ASSUME ShapeInv, Next, NEW f \in File, At("commit"), command.f = f, Desires(f),
             ~Exists(Planned(f)[ExpectedSide]), Exists(target[f]), edits' = edits
      PROVE  target' = target
  <2>1. command.pc = "commit" /\ command # Idle
    BY <1>1, IdleFields DEF At
  <2>2. ~Others
    BY <1>1, OthersCount
  <2>3. PublishChange \/ Crash
    BY <1>1, <2>1, <2>2
    DEF Next, Complete, Rollback, Recover, Execute, Step, At, PrepareDirectories,
        StageTemporary, RecordStaged, MarkPrepared, BeginCommit, RecordEndpoint,
        KeepTemporary, DropTemporary, StageReplacement, StageDeletionTombstone,
        RecordTemporary, SecondCompare, UnlinkPublishedTemporary, MarkValidating,
        CheckResult, CleanupTemporary, RollbackDirectories, RemoveJournal
  <2>4. CASE Crash
    BY <2>4 DEF Crash, disk
  <2>5. CASE PublishChange
    <3>1. Fail("destination_collision")
      BY <1>1, <2>5 DEF PublishChange, Replaces
    <3> QED
      BY <3>1 DEF Fail, disk
  <2> QED
    BY <2>3, <2>4, <2>5
<1>2. ShapeInv /\ [Next]_vars =>
        [\A f \in File :
           /\ At("commit") /\ command.f = f
           /\ Desires(f) /\ ~Exists(Planned(f)[ExpectedSide])
           /\ Exists(target[f])
           /\ edits' = edits
           => target'[f] = target[f]]_vars
  BY <1>1
<1> QED
  BY <1>2, ShapeInvariant, PTL DEF Spec, CreationNeverOverwrites
-----------------------------------------------------------------------------
(***************************************************************************)
(* The transaction is the abstract one of AtomicMutation.                  *)
(***************************************************************************)
\* The files at their new side are as many as the prefix is long.
LEMMA PrefixCount == \A k \in 0..N : PrefixOnDisk(k) => FilesApplied = k
<1> SUFFICES ASSUME NEW k \in 0..N, PrefixOnDisk(k) PROVE FilesApplied = k
  OBVIOUS
<1>1. {f \in File : target[f].data = AfterData(f)} = 1..k
  <2>1. \A f \in File : target[f].data = AfterData(f) <=> f <= k
    BY PrefixFacts
  <2> QED
    BY <2>1, KindFacts
<1>2. Cardinality(1..k) = k
  <2>1. 1 \in Int /\ k \in Int
    OBVIOUS
  <2>2. Cardinality(1..k) = IF 1 > k THEN 0 ELSE k - 1 + 1
    BY <2>1, FS_Interval
  <2> QED
    BY <2>1, <2>2
<1> QED
  BY <1>1, <1>2 DEF FilesApplied

LEMMA NextPrefixCount == \A k \in 0..N : PrefixOnDisk(k)' => FilesApplied' = k
<1>1. (\A k \in 0..N : PrefixOnDisk(k) => FilesApplied = k)'
  BY PrefixCount, PTL
<1> QED
  BY <1>1

LEMMA PhaseSteps ==
  ASSUME Step \/ Complete \/ Rollback \/ Crash
  PROVE  phase' = phase \/ RemoveJournal
BY DEF Step, Complete, Rollback, Recover, Crash, PrepareDirectories,
       StageTemporary, RecordStaged, MarkPrepared, BeginCommit, RecordEndpoint,
       KeepTemporary, DropTemporary, StageReplacement, StageDeletionTombstone,
       RecordTemporary, SecondCompare, PublishChange, UnlinkPublishedTemporary,
       MarkValidating, CheckResult, CleanupTemporary, RollbackDirectories,
       Continues, Fail

LEMMA AtomicStep ==
  ASSUME ShapeInv, PositionInv, [Next]_vars, Undisturbed, Undisturbed'
  PROVE  [Atomic!Next]_(Atomic!vars)
<1>1. PICK k \in 0..N : Position(k)
  BY DEF PositionInv
<1>2. FilesApplied = k
  BY <1>1, PrefixCount DEF Position
<1>3. ASSUME NEW j \in 0..N, Position(j)' PROVE FilesApplied' = j
  BY <1>3, NextPrefixCount DEF Position
<1>4. k \in Nat /\ N \in Nat
  BY KindFacts
<1>5. CASE UNCHANGED vars
  <2>1. FilesApplied' = FilesApplied /\ phase' = phase
    BY <1>1, <1>2, <1>3, <1>5, StutterPosition DEF vars
  <2> QED
    BY <2>1 DEF Atomic!vars
<1>6. CASE Execute
  <2>1. FilesApplied' = FilesApplied
    BY <1>1, <1>2, <1>3, <1>6, ExecutePosition
  <2>2. phase = "planned" /\ phase' \in {"open", "refused"}
    BY <1>6 DEF Execute
  <2> QED
    BY <2>1, <2>2 DEF Atomic!Next, Atomic!Open, Atomic!Refuse
<1>7. CASE RemoveJournal
  <2>1. /\ FilesApplied' = FilesApplied /\ phase = "open"
        /\ k = IF Forward THEN N ELSE 0
        /\ phase' = IF Forward THEN "completed" ELSE "rolled back"
    BY <1>1, <1>2, <1>3, <1>7, RemoveJournalPosition
  <2> QED
    BY <1>2, <2>1 DEF Atomic!Next, Atomic!Complete, Atomic!RollBack
<1>8. CASE Step \/ Complete \/ Rollback \/ Crash
  <2>1. CASE Position(k)' /\ DataKept
    <3>1. FilesApplied' = FilesApplied
      BY <1>2, <1>3, <2>1
    <3>2. phase' = phase \/ RemoveJournal
      BY <1>8, PhaseSteps
    <3> QED
      BY <1>7, <3>1, <3>2 DEF Atomic!vars
  <2>2. CASE phase = "open" /\ phase' = "open" /\ \E j : Moved(j, k) /\ Position(j)'
    <3>1. PICK j : Moved(j, k) /\ Position(j)'
      BY <2>2
    <3>2. FilesApplied' = j /\ j \in 0..N /\ (j = k + 1 \/ j = k - 1)
      BY <1>3, <3>1 DEF Moved
    <3>3. CASE j = k + 1
      BY <1>2, <1>4, <2>2, <3>2, <3>3 DEF Atomic!Next, Atomic!Publish
    <3>4. CASE j = k - 1
      BY <1>2, <1>4, <2>2, <3>2, <3>4 DEF Atomic!Next, Atomic!Retract
    <3> QED
      BY <3>2, <3>3, <3>4
  <2> QED
    BY <1>1, <1>8, <2>1, <2>2, StepPosition
<1> QED
  BY <1>5, <1>6, <1>7, <1>8, StaysDisturbed

\* While nobody edits its files, a transaction does what AtomicMutation promises,
\* for any number of files, crashes and recoveries: they change side one at a
\* time, in commit order and back, and it is over only when all of them are at
\* one side ("recoverable, not physically atomic", project_context/architecture.md:5).
THEOREM TransactionIsAtomic == Spec /\ []Undisturbed => ImplementsAtomicMutation
<1>1. Init => Atomic!Init
  <2>1. 0 \in 0..N
    BY KindFacts
  <2> QED
    BY <2>1, InitPosition, PrefixCount DEF Init, Position, Atomic!Init
<1>2. ShapeInv /\ PositionInv /\ [Next]_vars /\ Undisturbed /\ Undisturbed'
        => [Atomic!Next]_(Atomic!vars)
  BY AtomicStep
<1> QED
  BY <1>1, <1>2, PositionInvariant, PTL DEF Spec, ImplementsAtomicMutation, Atomic!Spec
-----------------------------------------------------------------------------
(***************************************************************************)
(* Recoveries.  SettleInv says of each file, at each point of a command    *)
(* that nobody's edit disturbs, what its entry in the journal says of it,  *)
(* so that no comparison of `complete` is refused.                         *)
(***************************************************************************)
Stands(f, s) == StandsAt(Change(f), target[f], s)
IsAccounted(f) == Accounted(Change(f), target[f], temporary[f])
Held(f, s) == HeldAt(Change(f), target[f], temporary[f], s)
Released(f, s) == ReleasedAt(Change(f), target[f], temporary[f], s)
Published(f, s) == PublishedAt(Change(f), target[f], temporary[f], s)
IsPrepared(f, s) == PreparedAt(Change(f), target[f], temporary[f], s)

\* A deletion whose tombstone is there, or was dropped again.
Tombstoned(f) == "tombstone" \in died /\ (Held(f, "before") \/ Released(f, "before"))

\* A file that no command is at.
Rests(f) ==
  /\ IsAccounted(f)
  /\ \/ \E s \in Side : Stands(f, s)
     \/ Tombstoned(f)
     \/ "confirm" \in died /\ Published(f, "after")

\* One that the command has confirmed.
Done(f) ==
  /\ IsAccounted(f)
  /\ target[f] = journal.published[f][DesiredSide] /\ target[f].nlink <= 1

\* One that execute has not staged, and one that it has or that it only deletes.
Untouched(f) ==
  journal.temporary[f] = NoTemporary /\ temporary[f] = Absent /\ Stands(f, "before")
Staged(f) ==
  IF Kind[f] = "delete" THEN Untouched(f)
  ELSE /\ journal.temporary[f] # NoTemporary
       /\ journal.temporary[f].side = "after" /\ temporary[f].nlink = 1
       /\ temporary[f] = journal.temporary[f].state /\ Stands(f, "before")

\* One that is about to change side.
Waits(f) ==
  /\ IsAccounted(f)
  /\ Stands(f, ExpectedSide) \/ (Forward /\ Tombstoned(f))
Pending(f) ==
  IF Desires(f)
  THEN /\ journal.temporary[f] # NoTemporary
       /\ Stands(f, ExpectedSide) /\ IsPrepared(f, DesiredSide)
  ELSE Held(f, ExpectedSide)

\* The file that the command is at, from point to point.
AtWork(f) ==
  /\ At("prepare") => Rests(f)
  /\ At("restage") => Waits(f) /\ ~Held(f, "before")
  /\ At("record temporary") =>
       IF Desires(f) THEN Stands(f, ExpectedSide)
       ELSE /\ target[f] = temporary[f] /\ target[f].nlink = 2
            /\ target[f].data = Planned(f)[ExpectedSide].data
  /\ At("publish") \/ At("commit") => Pending(f)
  /\ At("unlink temporary") =>
       /\ journal.temporary[f] # NoTemporary
       /\ journal.temporary[f].side = DesiredSide
       /\ Linked(f) /\ SameFileObject(target[f], journal.temporary[f].state)
  /\ At("confirm") => IsAccounted(f) /\ Published(f, DesiredSide)

\* The other files.
Before(g, f) == IF Forward THEN g < f ELSE g > f
Beside(g, f) ==
  IF Before(g, f) THEN Done(g)
  ELSE IF command.op = "execute" THEN Staged(g) ELSE Rests(g)

FilesSettle ==
  /\ command = Idle => \A g \in File : Rests(g)
  /\ At("mkdir") =>
       \A g \in File : IF command.op = "execute" THEN Untouched(g) ELSE Rests(g)
  /\ At("stage") =>
       \A g \in File : IF g < command.f THEN Staged(g) ELSE Untouched(g)
  /\ At("record staged") =>
       \A g \in File : /\ g < command.f => Staged(g)
                       /\ g = command.f => Stands(g, "before")
                       /\ g > command.f => Untouched(g)
  /\ At("recheck") => \A g \in File : Staged(g)
  /\ command.pc \in LoopPc =>
       \A f \in File : f = command.f =>
         AtWork(f) /\ \A g \in File \ {f} : Beside(g, f)
  /\ command.pc \in EndPc => \A g \in File : Done(g)

\* How commands end: a rollback is refused at a creation that was not begun.
Refused == last.result \notin {"ok", "crashed"}
ResultsOK ==
  /\ last.op = "complete" => ~Refused
  /\ /\ command = Idle /\ last.op = "rollback" /\ Refused
     /\ AcceptedFileSet /\ died \subseteq {"rollback"}
     => UnpublishedCreation

\* What a command that nobody disturbs relies on.
Steady ==
  /\ ~drift /\ ~stray
  /\ command.op = "rollback" => "rollback" \in died
  /\ journal # NoJournal => FilesSettle

SettleInv == Undisturbed /\ ~LostForComplete => Steady /\ ResultsOK
SameFile(f) ==
  /\ target'[f] = target[f] /\ temporary'[f] = temporary[f]
  /\ Change(f)' = Change(f) /\ died \subseteq died'

LEMMA EntryFields ==
  ASSUME NEW f
  PROVE  /\ Change(f).planned = Planned(f)
         /\ Change(f).temporary = journal.temporary[f]
         /\ Change(f).published = journal.published[f]
         /\ Change(f)'.planned = Planned(f)
         /\ Change(f)'.temporary = journal'.temporary[f]
         /\ Change(f)'.published = journal'.published[f]
BY DEF Change, Planned, Original

\* What was said of a file that nothing happens to is still so.
LEMMA PairKept ==
  ASSUME NEW f, SameFile(f)
  PROVE  /\ IsAccounted(f)' <=> IsAccounted(f)
         /\ \A s : Stands(f, s)' <=> Stands(f, s)
         /\ \A s : Held(f, s)' <=> Held(f, s)
         /\ \A s : Released(f, s)' <=> Released(f, s)
         /\ \A s : Published(f, s)' <=> Published(f, s)
         /\ \A s : IsPrepared(f, s)' <=> IsPrepared(f, s)
<1>1. target'[f] = target[f] /\ temporary'[f] = temporary[f] /\ Change(f)' = Change(f)
  BY DEF SameFile
<1>2. /\ IsAccounted(f)' <=> IsAccounted(f)
      /\ \A s : Stands(f, s)' <=> Stands(f, s)
      /\ \A s : Held(f, s)' <=> Held(f, s)
      /\ \A s : Released(f, s)' <=> Released(f, s)
      /\ \A s : Published(f, s)' <=> Published(f, s)
  BY <1>1 DEF Stands, StandsAt, IsAccounted, Accounted, Remains,
    Held, HeldAt, Released, ReleasedAt, Published, PublishedAt, MatchesRecordedSide, Exists,
    IsOwnedDeletionRemainder, SameFileObject
<1>3. \A s : IsPrepared(f, s)' <=> IsPrepared(f, s)
  BY <1>1 DEF IsPrepared, PreparedAt, Remains, Exists, IsOwnedDeletionRemainder, SameFileObject
<1> QED  BY <1>2, <1>3

LEMMA FileKept ==
  ASSUME NEW f, SameFile(f)
  PROVE  /\ Tombstoned(f) => Tombstoned(f)'
         /\ Rests(f) => Rests(f)'
         /\ Untouched(f) => Untouched(f)'
         /\ Staged(f) => Staged(f)'
         /\ DesiredSide' = DesiredSide /\ Done(f) => Done(f)'
         /\ command'.op = command.op =>
              (Waits(f) => Waits(f)') /\ (Pending(f) => Pending(f)')
<1>1. /\ target'[f] = target[f] /\ temporary'[f] = temporary[f]
      /\ Change(f)' = Change(f) /\ died \subseteq died'
      /\ journal'.temporary[f] = journal.temporary[f]
      /\ journal'.published[f] = journal.published[f]
  BY EntryFields DEF SameFile
<1>2. Tombstoned(f) => Tombstoned(f)'
  BY <1>1, PairKept DEF Tombstoned
<1>3. ASSUME command'.op = command.op
      PROVE  (Waits(f) => Waits(f)') /\ (Pending(f) => Pending(f)')
  <2>1. /\ DesiredSide' = DesiredSide /\ ExpectedSide' = ExpectedSide /\ Forward' = Forward
        /\ Desires(f)' <=> Desires(f)
    BY <1>3, SameSides
  <2>2. Waits(f) => Waits(f)'
    BY <1>2, <2>1, PairKept DEF Waits
  <2>3. Pending(f) => Pending(f)'
    BY <1>1, <2>1, PairKept DEF Pending
  <2> QED  BY <2>2, <2>3
<1>4. Rests(f) => Rests(f)'
  BY <1>1, <1>2, PairKept DEF Rests
<1>5. /\ Untouched(f) => Untouched(f)'
      /\ DesiredSide' = DesiredSide /\ Done(f) => Done(f)'
  BY <1>1, PairKept DEF Untouched, Done
<1>6. Staged(f) => Staged(f)'
  BY <1>1, <1>5, PairKept DEF Staged
<1> QED  BY <1>2, <1>3, <1>4, <1>5, <1>6

LEMMA EntryAt ==
  ASSUME ShapeInv, journal # NoJournal, NEW f \in File
  PROVE  /\ ChangeOK(Change(f)) /\ Differ(Change(f))
         /\ target[f] \in OnDisk /\ temporary[f] \in OnDisk /\ PairOK(f)
         /\ \A s \in Side : Exists(Planned(f)[s]) \/ Exists(Planned(f)[OppositeSide(s)])
<1>1. Planned(f)["before"].data # Planned(f)["after"].data
  BY PlannedFacts, SideFacts
<1> QED
  BY <1>1, PairAt, PlannedFacts, EntryFields DEF ShapeInv, JournalOK, Differ

\* A deletion is what can have a tombstone at its old side.
LEMMA TombstoneFacts ==
  ASSUME ShapeInv, journal # NoJournal, NEW f \in File, Held(f, "before") \/ Released(f, "before")
  PROVE  /\ ~Exists(Planned(f)["after"]) /\ Exists(target[f])
         /\ journal.temporary[f] # NoTemporary
         /\ Disposition(f) = "before"
<1>1. "before" \in Side /\ OppositeSide("before") = "after"  BY SideFacts
<1>2. /\ OwnedTemporaryTransition(Change(f), target[f], temporary[f]) = "before"
      /\ Change(f).temporary # NoTemporary /\ Exists(target[f])
      /\ ~Exists(Change(f).planned["after"])
  BY <1>1, EntryAt, HeldFacts, ReleasedFacts DEF Held, Released
<1>3. Disposition(f) = "before"
  BY <1>1, <1>2, EntryAt, TransitionDisposition DEF Disposition
<1> QED  BY <1>2, <1>3, EntryFields

LEMMA StandingFacts ==
  ASSUME ShapeInv, journal # NoJournal, NEW f \in File, NEW s \in Side, Stands(f, s)
  PROVE  /\ target[f].data = Planned(f)[s].data
         /\ Exists(target[f]) <=> Exists(Planned(f)[s])
         /\ target[f].nlink <= 1 /\ ~Linked(f) /\ temporary[f].nlink # 2
         /\ IsAccounted(f) => Disposition(f) = s
         /\ ~Held(f, "before")
<1>1. SamePayload(target[f], Change(f).planned[s])
  BY EntryAt, MatchSound DEF Stands, StandsAt
<1>2. target[f].data = Planned(f)[s].data
  BY <1>1, EntryFields DEF SamePayload
<1>3. target[f].nlink <= 1 /\ target[f].nlink # 2
  BY DEF Stands, StandsAt
<1>4. ~Linked(f) /\ temporary[f].nlink # 2
  BY <1>3, EntryAt DEF PairOK
<1>5. IsAccounted(f) => Disposition(f) = s
  BY EntryAt, MatchDisposition DEF IsAccounted, Accounted, Stands, StandsAt, Disposition
<1> QED  BY <1>2, <1>3, <1>4, <1>5 DEF Exists, Held, HeldAt

LEMMA ConfirmedFacts ==
  ASSUME ShapeInv, journal # NoJournal, NEW f \in File, NEW s \in Side, Published(f, s)
  PROVE  /\ target[f].nlink <= 1 /\ Disposition(f) = s
         /\ target[f].data = Planned(f)[s].data
         /\ DesiredEndpointReached(Change(f), target[f], temporary[f], s)
<1>1. OwnedTemporaryTransition(Change(f), target[f], temporary[f]) = s /\ target[f].nlink <= 1
  BY DEF Published, PublishedAt
<1>2. SamePayload(target[f], Change(f).planned[s])
  BY <1>1, EntryAt, OwnedTransition
<1>3. Disposition(f) = s
  BY <1>1, EntryAt, TransitionDisposition DEF Disposition
<1> QED  BY <1>1, <1>2, <1>3, EntryFields DEF SamePayload, DesiredEndpointReached

\* A file at rest is at a side.
LEMMA RestingDisposition ==
  ASSUME ShapeInv, journal # NoJournal, NEW f \in File, Rests(f)
  PROVE  Disposition(f) \in Side
BY StandingFacts, TombstoneFacts, ConfirmedFacts, SideFacts DEF Rests, Tombstoned

LEMMA DoneFacts ==
  ASSUME ShapeInv, journal # NoJournal, NEW f \in File, Done(f)
  PROVE  Stands(f, DesiredSide) /\ Rests(f)
<1>1. Stands(f, DesiredSide)
  BY EntryFields DEF Done, Stands, StandsAt, MatchesRecordedSide
<1> QED  BY <1>1, SidesOfCommand DEF Rests, Done

LEMMA UntouchedRests ==
  ASSUME NEW f, Untouched(f) \/ Staged(f)
  PROVE  Rests(f)
<1>1. CASE Untouched(f)
  BY <1>1, AbsentOnDisk, SideFacts DEF Untouched, Rests, IsAccounted, Accounted
<1>2. CASE Staged(f) /\ ~Untouched(f)
  BY <1>2, EntryFields, SideFacts DEF Staged, Rests, IsAccounted, Accounted
<1> QED  BY <1>1, <1>2

\* Of the files beside the command's, whatever it does.
LEMMA BesideRests ==
  ASSUME ShapeInv, journal # NoJournal, NEW f, NEW g \in File, Beside(g, f)
  PROVE  Rests(g)
BY DoneFacts, UntouchedRests DEF Beside

(***************************************************************************)
(* How a step leads from point to point.                                   *)
(***************************************************************************)
\* A command goes on, or ends as ResultsOK says.
GoesOn == /\ command'.op = command.op /\ command' # Idle
          /\ last' = last /\ died' = died
EndsWell ==
  /\ command' = Idle /\ last'.op = command.op /\ died \subseteq died'
  /\ \/ last'.result \in {"ok", "crashed"}
     \/ command.op = "execute"
     \/ command.op = "rollback" /\ (AcceptedFileSet => UnpublishedCreation')

LEMMA GoesOnFacts ==
  ASSUME ShapeInv, command.pc # "idle", command'.pc # "idle",
         command'.op = command.op, Continues
  PROVE  GoesOn
BY IdleFields DEF GoesOn, Continues

LEMMA StepSame ==
  ASSUME NEW f, OnlyAt(File, f), journal' = journal, died \subseteq died'
  PROVE  \A g \in File \ {f} : SameFile(g)
<1>1. \A g \in File : Change(g)' = Change(g)
  BY DEF Change, Planned, Original
<1> QED  BY <1>1 DEF OnlyAt, SameFile

LEMMA NothingChanged ==
  ASSUME target' = target, temporary' = temporary, died \subseteq died',
         \A g \in File : Change(g)' = Change(g)
  PROVE  \A g \in File : SameFile(g)
BY DEF SameFile

LEMMA SideKept ==
  ASSUME NEW f, target'[f] = target[f], Change(f)' = Change(f)
  PROVE  \A t : Stands(f, t)' <=> Stands(f, t)
BY DEF Stands, StandsAt, MatchesRecordedSide, Exists

LEMMA BesideKept ==
  ASSUME NEW f \in File, command'.op = command.op, NEW g, SameFile(g), Beside(g, f)
  PROVE  Beside(g, f)'
<1>1. DesiredSide' = DesiredSide /\ Forward' = Forward
  BY SameSides
<1> QED  BY <1>1, FileKept DEF Beside, Before

\* Inside the loop.
LEMMA LoopSettles ==
  ASSUME ShapeInv, Steady, command.pc \in LoopPc, NEW f, f = command.f,
         NEW pc \in LoopPc, Goto(pc, f), Continues,
         \A g \in File \ {f} : SameFile(g), AtWork(f)'
  PROVE  FilesSettle' /\ GoesOn
<1>1. f \in File /\ journal # NoJournal /\ command.pc # "idle"
  BY LoopFacts, EarlyPc
<1>2. command'.pc = pc /\ command'.f = f /\ command'.op = command.op
  BY GotoPc
<1>3. \A g \in File \ {f} : Beside(g, f)
  BY <1>1 DEF Steady, FilesSettle
<1>4. \A g \in File \ {f} : Beside(g, f)'
  BY <1>1, <1>2, <1>3, BesideKept
<1>5. GoesOn
  BY <1>1, <1>2, EarlyPc, GoesOnFacts
<1>6. /\ command' # Idle /\ command'.pc \notin EndPc
      /\ command'.pc \notin {"mkdir", "stage", "record staged", "recheck"}
  BY <1>2, EarlyPc, IdleFields
<1> QED  BY <1>2, <1>4, <1>5, <1>6 DEF FilesSettle, At

\* Into the loop, or on to the next file.
LEMMA EntersSettles ==
  ASSUME ShapeInv, command.pc # "idle", NEW f \in File, EnterFile(f), Continues,
         \A g \in File \ {f} : Beside(g, f)',
         Rests(f)', command.op = "execute" => Staged(f)'
  PROVE  FilesSettle' /\ GoesOn
<1>1. /\ command'.pc = IF command.op = "execute" /\ Kind[f] # "delete"
                       THEN "publish" ELSE "prepare"
      /\ command'.f = f /\ command'.op = command.op
  BY GotoPc DEF EnterFile
<1>2. AtWork(f)'
  <2>1. CASE command'.pc = "prepare"
    BY <1>1, <2>1 DEF AtWork, At
  <2>2. CASE command'.pc = "publish"
    <3>1. Staged(f)' /\ command'.op = "execute" /\ Kind[f] # "delete"
      BY <1>1, <2>2
    <3>2. /\ journal'.temporary[f] # NoTemporary
          /\ journal'.temporary[f].side = "after" /\ temporary'[f].nlink = 1
          /\ temporary'[f] = journal'.temporary[f].state /\ Stands(f, "before")'
      BY <3>1 DEF Staged
    <3>3. DesiredSide' = "after" /\ ExpectedSide' = "before"
      BY <3>1 DEF DesiredSide, ExpectedSide, OppositeSide
    <3>4. IsPrepared(f, "after")'
      BY <3>2, EntryFields DEF IsPrepared, PreparedAt
    <3>5. Desires(f)'
      BY <3>1, <3>3 DEF Desires, Planned, Exists, PlannedNew
    <3>6. Pending(f)'
      BY <3>2, <3>3, <3>4, <3>5 DEF Pending
    <3> QED  BY <2>2, <3>6 DEF AtWork, At
  <2> QED  BY <1>1, <2>1, <2>2
<1>3. GoesOn
  BY <1>1, GoesOnFacts
<1>4. /\ command' # Idle /\ command'.pc \notin EndPc
      /\ command'.pc \notin {"mkdir", "stage", "record staged", "recheck"}
  BY <1>1, EarlyPc, IdleFields
<1> QED  BY <1>1, <1>2, <1>3, <1>4 DEF FilesSettle, At

\* Out of the command, by a crash or a refusal.
LEMMA StopSettles ==
  ASSUME target' = target, temporary' = temporary, journal' = journal,
         command' = Idle, died \subseteq died',
         \A g \in File : Rests(g)'
  PROVE  FilesSettle'
<1>1. command'.pc = "idle"
  BY IdleFields
<1> QED  BY <1>1, EarlyPc DEF FilesSettle, At

LEMMA FailSettles ==
  ASSUME NEW reason, Fail(reason), \A g \in File : Rests(g),
         \/ command.op = "execute"
         \/ command.op = "rollback" /\ (AcceptedFileSet => UnpublishedCreation)
  PROVE  FilesSettle' /\ EndsWell
<1>1. /\ target' = target /\ temporary' = temporary /\ journal' = journal
      /\ command' = Idle /\ died' = died /\ last'.op = command.op
  BY DEF Fail, Ended, disk
<1>2. \A g \in File : Rests(g)'
  <2>1. \A g \in File : Change(g)' = Change(g)
    BY <1>1 DEF Change, Planned, Original
  <2> QED  BY <1>1, <2>1, NothingChanged, FileKept
<1>3. UnpublishedCreation => UnpublishedCreation'
  BY <1>1 DEF UnpublishedCreation
<1> QED  BY <1>1, <1>2, <1>3, StopSettles DEF EndsWell

(***************************************************************************)
(* Up to the loop.                                                         *)
(***************************************************************************)
LEMMA ExecuteSettles ==
  ASSUME ShapeInv, Execute
  PROVE  /\ died' = died
         /\ \/ command' = Idle /\ journal' = NoJournal /\ last'.op = "execute"
            \/ command' # Idle /\ command'.op = "execute" /\ last' = last /\ FilesSettle'
<1>0. /\ command = Idle /\ phase = "planned" /\ journal = NoJournal /\ died' = died
      /\ target' = target /\ temporary' = temporary
  BY DEF Execute, ShapeInv, HistoryOK, disk
<1>1. CASE directory = MakesDirectory \/ ~StillAsPlanned
  BY <1>0, <1>1 DEF Execute
<1>2. CASE ~(directory = MakesDirectory \/ ~StillAsPlanned)
  <2>1. /\ journal' = InitialJournal /\ last' = last /\ StillAsPlanned
        /\ command' = [op |-> "execute", pc |-> "mkdir", f |-> 0]
    BY <1>2 DEF Execute
  <2>2. command'.pc = "mkdir" /\ command'.op = "execute" /\ command' # Idle
    BY <2>1, IdleFields
  <2>3. ASSUME NEW g \in File PROVE Untouched(g)'
    <3>1. /\ Change(g)'.temporary = NoTemporary /\ journal'.temporary[g] = NoTemporary
          /\ Change(g)'.published["after"] = Unrecorded
          /\ Change(g)'.planned = Planned(g)
      BY <2>1 DEF Change, InitialJournal, Planned, Original
    <3>2. temporary'[g] = Absent
      BY <1>0, KindFacts, IdleFields DEF ShapeInv, TemporaryOK, NoneFrom
    <3>3. target'[g] = Planned(g)["before"] /\ target'[g].nlink <= 1
      BY <1>0, <2>1 DEF StillAsPlanned, Planned, Original, Absent
    <3>4. ~Exists(Planned(g)["before"]) => Planned(g)["before"] = Absent
      BY DEF Planned, Original, Exists
    <3>5. Stands(g, "before")'
      BY <3>1, <3>3, <3>4 DEF Stands, StandsAt, MatchesRecordedSide, Exists
    <3> QED  BY <3>1, <3>2, <3>5 DEF Untouched
  <2>4. FilesSettle'
    BY <2>2, <2>3, EarlyPc DEF FilesSettle, At
  <2> QED  BY <1>0, <2>1, <2>2, <2>4
<1> QED  BY <1>1, <1>2

LEMMA PrepareDirectoriesSettles ==
  ASSUME ShapeInv, Steady, PrepareDirectories
  PROVE  FilesSettle' /\ GoesOn
<1>1. /\ command.op \in {"execute", "complete"} /\ command.pc = "mkdir"
      /\ command.pc # "idle" /\ journal # NoJournal /\ command # Idle
      /\ target' = target /\ temporary' = temporary
      /\ journal' = journal /\ died' = died /\ Continues
  BY RunningFacts, IdleFields DEF ShapeInv, PrepareDirectories, At, CommandOK, Forward, Continues
<1>2. \A g \in File : SameFile(g)
  BY <1>1, NothingChanged DEF Change, Planned, Original
<1>3. \A g \in File : IF command.op = "execute" THEN Untouched(g) ELSE Rests(g)
  BY <1>1 DEF Steady, FilesSettle, At
<1>4. CASE command.op = "execute"
  <2>1. command'.pc = "stage" /\ command'.f = 1 /\ command'.op = command.op
    BY <1>4, GotoPc DEF PrepareDirectories
  <2>2. \A g \in File : Untouched(g)' /\ ~(g < 1)
    BY <1>2, <1>3, <1>4, FileKept, KindFacts
  <2>3. FilesSettle'
    BY <2>1, <2>2, EarlyPc, IdleFields DEF FilesSettle, At
  <2> QED  BY <1>1, <2>1, <2>3, GoesOnFacts
<1>5. CASE command.op = "complete"
  <2>1. EnterFile(1) /\ 1 \in File
    BY <1>5, FileFacts DEF PrepareDirectories
  <2>2. command'.op = "complete"
    BY <1>5, <2>1, EnterPc
  <2>3. \A g \in File : Rests(g)' /\ ~(g < 1)
    BY <1>2, <1>3, <1>5, FileKept, KindFacts
  <2>4. \A g \in File \ {1} : Beside(g, 1)'
    BY <2>2, <2>3 DEF Beside, Before, Forward
  <2> QED  BY <1>1, <1>5, <2>1, <2>3, <2>4, EntersSettles
<1> QED  BY <1>1, <1>4, <1>5

LEMMA StageTemporarySettles ==
  ASSUME ShapeInv, Steady, StageTemporary
  PROVE  FilesSettle' /\ GoesOn
<1>0. PICK f \in File : f = command.f
  <2>1. command.pc = "stage" /\ command.f <= N
    BY DEF StageTemporary, At
  <2>2. command.f \in 1..(N + 1)
    BY <2>1 DEF ShapeInv, CommandOK
  <2> QED  BY <2>1, <2>2, KindFacts
<1>1. /\ command.op = "execute" /\ command.pc = "stage" /\ command # Idle
      /\ journal # NoJournal /\ journal' = journal /\ died' = died /\ Continues
      /\ DesiredSide = "after" /\ temporary[f] = Absent
  <2>1. command.pc = "stage" /\ journal' = journal /\ died' = died /\ Continues
    BY DEF StageTemporary, At, Continues
  <2>2. command.op = "execute" /\ NoneFrom(f)
    BY <1>0, <2>1 DEF ShapeInv, CommandOK, TemporaryOK
  <2> QED
    BY <2>1, <2>2, RunningFacts, KindFacts DEF DesiredSide, NoneFrom
<1>2. \A g \in File : IF g < f THEN Staged(g) ELSE Untouched(g)
  BY <1>0, <1>1 DEF Steady, FilesSettle, At
<1>3. Desires(f) <=> Kind[f] # "delete"
  BY <1>1 DEF Desires, Planned, Exists, PlannedNew, Absent
<1>4. CASE Desires(f)
  <2>1. WriteTemporary(f, "after") /\ Goto("record staged", f)
    BY <1>0, <1>1, <1>4 DEF StageTemporary
  <2>2. command'.pc = "record staged" /\ command'.f = f /\ command'.op = command.op
    BY <2>1, GotoPc
  <2>3. Planned(f)["after"].data \in {"old", "new"}
    BY <1>1, <1>4, PlannedFacts, SideFacts DEF Desires
  <2>4. OnlyAt(File, f) /\ target'[f] = target[f]
    BY <1>1, <2>1, <2>3, CreateTemporaryEffect DEF ShapeInv, WriteTemporary
  <2>5. \A g \in File \ {f} : SameFile(g)
    BY <1>1, <2>4, StepSame
  <2>6. Stands(f, "before")'
    <3>1. Change(f)' = Change(f)  BY <1>1 DEF Change, Planned, Original
    <3>2. Stands(f, "before")  BY <1>0, <1>2, KindFacts DEF Untouched
    <3> QED  BY <2>4, <3>1, <3>2, SideKept
  <2>7. \A g \in File : (g < f => Staged(g)') /\ (g > f => Untouched(g)')
    BY <1>2, <2>5, FileKept, KindFacts
  <2>8. FilesSettle'
    BY <2>2, <2>6, <2>7, EarlyPc, IdleFields DEF FilesSettle, At
  <2> QED  BY <1>1, <2>2, <2>8, GoesOnFacts
<1>5. CASE ~Desires(f)
  <2>1. Goto("stage", f + 1) /\ UNCHANGED <<target, temporary, clock>>
    BY <1>0, <1>1, <1>5 DEF StageTemporary
  <2>2. command'.pc = "stage" /\ command'.f = f + 1 /\ command'.op = command.op
    BY <2>1, GotoPc
  <2>3. \A g \in File : SameFile(g)
    BY <1>1, <2>1, NothingChanged DEF Change, Planned, Original
  <2>4. Staged(f)
    BY <1>2, <1>3, <1>5, KindFacts DEF Staged
  <2>5. \A g \in File : IF g < f + 1 THEN Staged(g) ELSE Untouched(g)
    BY <1>2, <2>4, KindFacts
  <2>6. \A g \in File : IF g < f + 1 THEN Staged(g)' ELSE Untouched(g)'
    BY <2>3, <2>5, FileKept
  <2>7. FilesSettle'
    BY <2>2, <2>6, EarlyPc, IdleFields DEF FilesSettle, At
  <2> QED  BY <1>1, <2>2, <2>7, GoesOnFacts
<1> QED  BY <1>4, <1>5

\* A temporary is recorded for f.
LEMMA TemporaryIsRecorded ==
  ASSUME journal \in Journal, NEW f \in File, NEW s \in Side, temporary[f] \in FileState,
         TemporaryRecorded(f, s, temporary[f]), UNCHANGED <<target, temporary, died>>
  PROVE  /\ journal'.temporary[f] = [side |-> s, state |-> temporary[f]]
         /\ Change(f)'.planned = Change(f).planned
         /\ Change(f)'.published = Change(f).published
         /\ \A t : Stands(f, t)' <=> Stands(f, t)
         /\ \A g \in File \ {f} : SameFile(g)
<1>1. /\ journal'.temporary[f] = [side |-> s, state |-> temporary[f]]
      /\ journal'.published = journal.published
      /\ \A g \in File \ {f} : journal'.temporary[g] = journal.temporary[g]
  BY RecordsTemporary DEF TemporaryRecorded
<1>2. /\ Change(f)'.planned = Change(f).planned
      /\ Change(f)'.published = Change(f).published
  BY <1>1, EntryFields
<1>3. \A g \in File \ {f} : SameFile(g)
  BY <1>1 DEF SameFile, Change, Planned, Original
<1>4. \A t : Stands(f, t)' <=> Stands(f, t)
  BY <1>2 DEF Stands, StandsAt, MatchesRecordedSide, Exists
<1> QED  BY <1>1, <1>2, <1>3, <1>4

LEMMA RecordStagedSettles ==
  ASSUME ShapeInv, Steady, RecordStaged
  PROVE  FilesSettle' /\ GoesOn
<1>0. PICK f \in File : f = command.f
  BY DEF ShapeInv, RecordStaged, At, CommandOK
<1>1. /\ command.op = "execute" /\ command.pc = "record staged" /\ command # Idle
      /\ journal # NoJournal /\ journal \in Journal /\ died' = died /\ Continues
      /\ DesiredSide = "after" /\ temporary[f].nlink = 1 /\ temporary[f] \in FileState
      /\ Kind[f] # "delete"
      /\ UNCHANGED <<target, temporary, died>>
  BY <1>0, RunningFacts, IdleFields, PairAt
  DEF ShapeInv, RecordStaged, At, CommandOK, DesiredSide, Continues, TemporaryOK,
    OwnTemporary, OnDisk, disk, Desires, Planned, Exists, Absent
<1>2. TemporaryRecorded(f, "after", temporary[f]) /\ Goto("stage", f + 1)
  BY <1>0 DEF RecordStaged, TemporaryRecorded
<1>3. command'.pc = "stage" /\ command'.f = f + 1 /\ command'.op = command.op
  BY <1>2, GotoPc
<1>4. /\ \A g \in File : (g < f => Staged(g)) /\ (g > f => Untouched(g))
      /\ Stands(f, "before")
  BY <1>0, <1>1 DEF Steady, FilesSettle, At
<1>5. /\ journal'.temporary[f] = [side |-> "after", state |-> temporary[f]]
      /\ \A t : Stands(f, t)' <=> Stands(f, t)
      /\ \A g \in File \ {f} : SameFile(g)
  BY <1>1, <1>2, SideFacts, TemporaryIsRecorded
<1>6. Staged(f)'
  <2>0. temporary'[f] = temporary[f]  BY <1>1
  <2>1. journal'.temporary[f].side = "after" /\ journal'.temporary[f].state = temporary'[f]
    BY <1>5, <2>0
  <2>2. journal'.temporary[f] # NoTemporary
    BY <2>1 DEF NoTemporary
  <2> QED  BY <1>1, <1>4, <1>5, <2>1, <2>2 DEF Staged
<1>7. \A g \in File : IF g < f + 1 THEN Staged(g)' ELSE Untouched(g)'
  BY <1>4, <1>5, <1>6, FileKept, KindFacts
<1>8. FilesSettle'
  BY <1>3, <1>7, EarlyPc, IdleFields DEF FilesSettle, At
<1> QED  BY <1>1, <1>3, <1>8, GoesOnFacts

LEMMA MarkPreparedSettles ==
  ASSUME ShapeInv, Steady, MarkPrepared
  PROVE  FilesSettle' /\ GoesOn
<1>1. /\ command.op = "execute" /\ command.pc = "stage" /\ command # Idle
      /\ journal # NoJournal /\ command.f = N + 1 /\ Continues /\ died' = died
      /\ target' = target /\ temporary' = temporary
      /\ \A f \in File : Change(f)' = Change(f)
      /\ Goto("recheck", 0)
  BY RunningFacts, IdleFields, StateChangeKeepsEntries
  DEF ShapeInv, MarkPrepared, At, CommandOK, Continues, disk, JournalState
<1>2. command'.pc = "recheck" /\ command'.op = command.op
  BY <1>1, GotoPc
<1>3. \A g \in File : Staged(g)
  BY <1>1, KindFacts DEF Steady, FilesSettle, At
<1>4. \A g \in File : Staged(g)'
  BY <1>1, <1>3, NothingChanged, FileKept
<1>5. FilesSettle'
  BY <1>2, <1>4, EarlyPc, IdleFields DEF FilesSettle, At
<1> QED  BY <1>1, <1>2, <1>5, GoesOnFacts

LEMMA BeginCommitSettles ==
  ASSUME ShapeInv, Steady, BeginCommit
  PROVE  FilesSettle' /\ (GoesOn \/ EndsWell)
<1>1. /\ command.op = "execute" /\ command.pc = "recheck" /\ command # Idle
      /\ journal # NoJournal
  BY RunningFacts, IdleFields DEF ShapeInv, BeginCommit, At, CommandOK
<1>2. \A g \in File : Staged(g)
  BY <1>1 DEF Steady, FilesSettle, At
<1>3. CASE Fail("cas_conflict")
  BY <1>1, <1>2, <1>3, UntouchedRests, FailSettles
<1>4. CASE ~Fail("cas_conflict")
  <2>1. /\ journal' = [journal EXCEPT !.state = "committing"]
        /\ EnterFile(1) /\ Continues /\ UNCHANGED disk
    BY <1>4 DEF BeginCommit
  <2>2. \A f \in File : Change(f)' = Change(f)
    BY <1>1, <2>1, StateChangeKeepsEntries DEF JournalState
  <2>3. \A g \in File : SameFile(g)
    BY <2>1, <2>2, NothingChanged DEF Continues, disk
  <2>4. \A g \in File : Staged(g)' /\ Rests(g)' /\ ~(g < 1)
    BY <1>2, <2>3, FileKept, UntouchedRests, KindFacts
  <2>5. command'.op = "execute" /\ 1 \in File /\ command.pc # "idle"
    BY <1>1, <2>1, EnterPc, FileFacts
  <2>6. \A g \in File \ {1} : Beside(g, 1)'
    BY <2>4, <2>5 DEF Beside, Before, Forward
  <2> QED  BY <2>1, <2>4, <2>5, <2>6, EntersSettles
<1> QED  BY <1>3, <1>4

(***************************************************************************)
(* The loop, up to the second compare.                                     *)
(***************************************************************************)
LEMMA LoopState ==
  ASSUME ShapeInv, Steady, command.pc \in LoopPc, NEW f, f = command.f
  PROVE  /\ f \in File /\ journal # NoJournal /\ journal \in Journal /\ AtWork(f)
         /\ command.op = "rollback" => "rollback" \in died
         /\ \A g \in File \ {f} : Beside(g, f) /\ Rests(g)
<1>1. f \in File /\ journal # NoJournal /\ journal \in Journal
  BY LoopFacts
<1>2. AtWork(f) /\ \A g \in File \ {f} : Beside(g, f)
  BY <1>1 DEF Steady, FilesSettle
<1> QED  BY <1>1, <1>2, BesideRests DEF Steady

\* Which of the two it is.
LEMMA WhichSide ==
  /\ Forward => DesiredSide = "after" /\ ExpectedSide = "before"
  /\ ~Forward => DesiredSide = "before" /\ ExpectedSide = "after"
  /\ \A f \in File : ~Desires(f) => Exists(Planned(f)[ExpectedSide])
BY PlannedFacts, SidesOfCommand DEF Forward, DesiredSide, ExpectedSide, OppositeSide, Desires

\* A file that is not at the side it is wanted at waits at the other.
LEMMA WaitsAtPrepare ==
  ASSUME ShapeInv, Steady, ~LostForComplete, command.pc = "prepare",
         NEW f, f = command.f, Disposition(f) # DesiredSide
  PROVE  Waits(f)
<1>1. /\ f \in File /\ journal # NoJournal /\ Rests(f)
      /\ command.op = "rollback" => "rollback" \in died
  BY LoopState, LoopPcNames DEF AtWork, At
<1>2. IsAccounted(f)
  BY <1>1 DEF Rests
<1>3. ASSUME NEW s \in Side, Stands(f, s) PROVE Waits(f)
  <2>1. Disposition(f) = s
    BY <1>1, <1>2, <1>3, StandingFacts
  <2>2. s = ExpectedSide
    BY <2>1, SidesOfCommand, SideFacts
  <2> QED  BY <1>2, <1>3, <2>2 DEF Waits
<1>4. CASE Tombstoned(f)
  <2>1. Disposition(f) = "before"
    BY <1>1, <1>4, TombstoneFacts DEF Tombstoned
  <2>2. Forward
    BY <2>1, WhichSide
  <2> QED  BY <1>2, <1>4, <2>2 DEF Waits
<1>5. CASE "confirm" \in died /\ Published(f, "after")
  <2>1. Disposition(f) = "after"
    BY <1>1, <1>5, ConfirmedFacts, SideFacts
  <2>2. ~Forward
    BY <2>1, WhichSide
  <2> QED  BY <1>1, <1>5, <2>2 DEF Forward, LostForComplete
<1> QED  BY <1>1, <1>3, <1>4, <1>5 DEF Rests

\* A file that exists at the wanted side and waits is at the other.
LEMMA DesiredWaits ==
  ASSUME ShapeInv, journal # NoJournal, NEW f \in File, Waits(f), Desires(f)
  PROVE  Stands(f, ExpectedSide)
BY TombstoneFacts, WhichSide DEF Waits, Tombstoned, Desires

LEMMA KeepTemporarySettles ==
  ASSUME ShapeInv, Steady, ~LostForComplete, KeepTemporary
  PROVE  FilesSettle' /\ GoesOn
<1>0. PICK f : f = command.f
  OBVIOUS
<1>1. /\ command.pc = "prepare" /\ Disposition(f) # DesiredSide /\ Exists(temporary[f])
      /\ ReusableTemporary(Change(f), temporary[f], DesiredSide)
      /\ Goto("publish", f) /\ Continues /\ journal' = journal
      /\ target' = target /\ temporary' = temporary /\ died' = died
  BY <1>0 DEF KeepTemporary, At, Continues, disk
<1>2. Waits(f) /\ f \in File /\ journal # NoJournal
  BY <1>0, <1>1, WaitsAtPrepare, LoopState, LoopPcNames
<1>3. Desires(f) /\ journal.temporary[f].side = DesiredSide
  BY <1>1, EntryFields DEF ReusableTemporary, Desires
<1>4. Stands(f, ExpectedSide)
  BY <1>2, <1>3, DesiredWaits
<1>5. journal.temporary[f] # NoTemporary
  BY <1>3, SidesOfCommand, SideFacts DEF NoTemporary
<1>6. temporary[f].nlink = 1
  <2>1. temporary[f].nlink # 2  BY <1>2, <1>4, StandingFacts, SidesOfCommand
  <2> QED  BY <1>1, <1>2, <2>1, EntryAt DEF OnDisk, Exists, Absent
<1>7. Pending(f)
  BY <1>1, <1>2, <1>3, <1>4, <1>5, <1>6, EntryAt, AccountedTemporary
  DEF Waits, IsAccounted, IsPrepared, Pending
<1>8. \A g \in File : SameFile(g)
  BY <1>1, NothingChanged DEF Change, Planned, Original
<1>9. command'.pc = "publish" /\ command'.op = command.op
  BY <1>1, GotoPc
<1>10. AtWork(f)'
  BY <1>2, <1>7, <1>8, <1>9, FileKept DEF AtWork, At
<1> QED  BY <1>0, <1>1, <1>8, <1>10, LoopSettles, LoopPcNames

\* An unlinked temporary gives the file back its one name.
LEMMA UnlinkedTemporary ==
  ASSUME ShapeInv, journal # NoJournal, NEW f \in File, UnlinkTemporary(f), journal' = journal
  PROVE  /\ OnlyAt(File, f) /\ temporary'[f] = Absent /\ IsAccounted(f)'
         /\ Change(f)' = Change(f)
         /\ ~Linked(f) => target'[f] = target[f]
         /\ Linked(f) =>
              /\ target'[f].nlink = 1 /\ target'[f].ino = target[f].ino
              /\ target'[f].data = target[f].data /\ target'[f] \in OnDisk
         /\ ~Held(f, "before")'
<1>1. /\ OnlyAt(File, f) /\ temporary'[f] = Absent
      /\ IF Linked(f) THEN target'[f] = Relinked(f, target[f], 1)
         ELSE target'[f] = target[f]
  BY UnlinkTemporaryEffect DEF ShapeInv
<1>2. Linked(f) => /\ target'[f].nlink = 1 /\ target'[f].ino = target[f].ino
                   /\ target'[f].data = target[f].data /\ target'[f] \in OnDisk
  BY <1>1, RelinkedOnDisk, PairAt DEF ShapeInv, Linked
<1>3. Change(f)' = Change(f)
  BY DEF Change, Planned, Original
<1>4. IsAccounted(f)' /\ ~Held(f, "before")'
  BY <1>1, AbsentOnDisk DEF IsAccounted, Accounted, Held, HeldAt, Absent, Exists
<1> QED  BY <1>1, <1>2, <1>3, <1>4

LEMMA DropTemporarySettles ==
  ASSUME ShapeInv, Steady, ~LostForComplete, DropTemporary
  PROVE  FilesSettle' /\ GoesOn
<1>0. PICK f : f = command.f
  OBVIOUS
<1>1. /\ command.pc = "prepare" /\ Disposition(f) # DesiredSide /\ Exists(temporary[f])
  BY <1>0 DEF DropTemporary, At
<1>2. Waits(f) /\ f \in File /\ journal # NoJournal
  BY <1>0, <1>1, WaitsAtPrepare, LoopState, LoopPcNames
<1>3. RemovableTemporary(Change(f), target[f], temporary[f])
  BY <1>1, <1>2, EntryAt, AccountedTemporary DEF Waits, IsAccounted
<1>4. /\ UnlinkTemporary(f) /\ Goto("restage", f) /\ Continues /\ journal' = journal
      /\ died' = died
  BY <1>0, <1>3 DEF DropTemporary, Continues
<1>5. /\ OnlyAt(File, f) /\ temporary'[f] = Absent /\ IsAccounted(f)'
      /\ Change(f)' = Change(f)
      /\ ~Linked(f) => target'[f] = target[f]
      /\ Linked(f) =>
           /\ target'[f].nlink = 1 /\ target'[f].ino = target[f].ino
           /\ target'[f].data = target[f].data /\ target'[f] \in OnDisk
      /\ ~Held(f, "before")'
  BY <1>2, <1>4, UnlinkedTemporary
<1>6. \A g \in File \ {f} : SameFile(g)
  BY <1>4, <1>5, StepSame
<1>7. command'.pc = "restage" /\ command'.op = command.op
  BY <1>4, GotoPc
<1>8. ExpectedSide' = ExpectedSide /\ Forward' = Forward
  BY <1>7, SameSides
<1>9. Waits(f)'
  <2>1. CASE Stands(f, ExpectedSide)
    <3>1. ~Linked(f)  BY <1>2, <2>1, StandingFacts, SidesOfCommand
    <3> QED  BY <1>5, <1>8, <2>1, <3>1, SideKept DEF Waits
  <2>2. CASE Forward /\ "tombstone" \in died /\ Released(f, "before")
    BY <1>1, <2>2, AbsentOnDisk DEF Released, ReleasedAt
  <2>3. CASE Forward /\ "tombstone" \in died /\ Held(f, "before")
    <3>1. target[f] = temporary[f] /\ target[f] = journal.temporary[f].state
          /\ journal.temporary[f].state.nlink = 2 /\ journal.temporary[f].side = "before"
      BY <2>3, EntryFields DEF Held, HeldAt
    <3>2. Linked(f)  BY <1>1, <3>1 DEF Linked
    <3>3. Released(f, "before")'
      <4>1. Change(f)'.temporary = journal.temporary[f]
        BY <1>5, EntryFields
      <4> QED
        BY <1>1, <1>5, <3>1, <3>2, <4>1
        DEF Released, ReleasedAt, IsOwnedDeletionRemainder, SameFileObject, Exists
    <3> QED  BY <1>4, <1>5, <1>8, <2>3, <3>3 DEF Waits, Tombstoned
  <2> QED  BY <1>2, <2>1, <2>2, <2>3 DEF Waits, Tombstoned
<1>10. AtWork(f)'
  BY <1>5, <1>7, <1>9 DEF AtWork, At
<1> QED  BY <1>0, <1>1, <1>4, <1>6, <1>10, LoopSettles, LoopPcNames

\* Where a temporary is made the file waits, with none.
LEMMA WaitsToStage ==
  ASSUME ShapeInv, Steady, ~LostForComplete, NEW f, f = command.f,
         \/ At("restage")
         \/ At("prepare") /\ Disposition(f) # DesiredSide /\ ~Exists(temporary[f])
  PROVE  /\ command.pc \in LoopPc /\ f \in File /\ journal # NoJournal
         /\ Waits(f) /\ ~Held(f, "before")
<1>1. command.pc \in LoopPc
  BY LoopPcNames DEF At
<1>2. f \in File /\ journal # NoJournal /\ AtWork(f)
  BY <1>1, LoopState
<1>3. CASE At("restage")
  BY <1>1, <1>2, <1>3 DEF AtWork, At
<1>4. CASE At("prepare") /\ Disposition(f) # DesiredSide /\ ~Exists(temporary[f])
  <2>1. Waits(f)
    BY <1>4, WaitsAtPrepare DEF At
  <2>2. ~Held(f, "before")
    BY <1>2, <1>4, EntryAt, HeldFacts, SideFacts DEF Held, HeldAt
  <2> QED  BY <1>1, <1>2, <2>1, <2>2
<1> QED  BY <1>3, <1>4

LEMMA StageReplacementSettles ==
  ASSUME ShapeInv, Steady, ~LostForComplete, StageReplacement
  PROVE  FilesSettle' /\ GoesOn
<1>0. PICK f : f = command.f
  OBVIOUS
<1>1. /\ command.pc \in LoopPc /\ f \in File /\ journal # NoJournal /\ Waits(f)
  BY <1>0, WaitsToStage DEF StageReplacement
<1>2. /\ Desires(f) /\ temporary[f] = Absent
      /\ CreateTemporary(f, DesiredData(f)) /\ Goto("record temporary", f)
      /\ Continues /\ journal' = journal /\ DesiredData(f) \in {"old", "new"}
      /\ died' = died
  BY <1>0, StageReplacementFacts DEF Continues
<1>3. OnlyAt(File, f) /\ target'[f] = target[f]
  BY <1>1, <1>2, CreateTemporaryEffect DEF ShapeInv
<1>4. \A g \in File \ {f} : SameFile(g)
  BY <1>2, <1>3, StepSame
<1>5. command'.pc = "record temporary" /\ command'.op = command.op
  BY <1>2, GotoPc
<1>6. ExpectedSide' = ExpectedSide /\ (Desires(f)' <=> Desires(f))
  BY <1>5, SameSides
<1>7. Change(f)' = Change(f)
  BY <1>2 DEF Change, Planned, Original
<1>8. Stands(f, ExpectedSide)'
  BY <1>1, <1>2, <1>3, <1>6, <1>7, DesiredWaits, SideKept
<1>9. AtWork(f)'
  BY <1>2, <1>5, <1>6, <1>8 DEF AtWork, At
<1> QED  BY <1>0, <1>1, <1>2, <1>4, <1>9, LoopSettles, LoopPcNames

LEMMA StageDeletionTombstoneSettles ==
  ASSUME ShapeInv, Steady, ~LostForComplete, StageDeletionTombstone
  PROVE  FilesSettle' /\ GoesOn
<1>0. PICK f : f = command.f
  OBVIOUS
<1>1. /\ command.pc \in LoopPc /\ f \in File /\ journal # NoJournal /\ Waits(f)
      /\ ~Held(f, "before") /\ ~Desires(f)
  BY <1>0, WaitsToStage DEF StageDeletionTombstone
<1>2. ExpectedSide \in Side /\ Exists(Planned(f)[ExpectedSide])
      /\ target[f] \in OnDisk /\ temporary[f] \in OnDisk /\ ChangeOK(Change(f))
  BY <1>1, WhichSide, SidesOfCommand, EntryAt
<1>3. Disposition(f) = ExpectedSide /\ target[f].nlink = 1
  <2>1. CASE Stands(f, ExpectedSide)
    <3>1. Disposition(f) = ExpectedSide /\ target[f].nlink <= 1 /\ Exists(target[f])
      BY <1>1, <1>2, <2>1, StandingFacts DEF Waits
    <3> QED  BY <1>2, <3>1 DEF OnDisk, Exists, Absent
  <2>2. CASE Forward /\ Released(f, "before")
    <3>1. Disposition(f) = "before"  BY <1>1, <2>2, TombstoneFacts
    <3>2. target[f].nlink = 1
      BY <2>2 DEF Released, ReleasedAt, IsOwnedDeletionRemainder
    <3> QED  BY <2>2, <3>1, <3>2, WhichSide
  <2> QED  BY <1>1, <2>1, <2>2 DEF Waits, Tombstoned
<1>4. /\ LinkBoth(f, target[f]) /\ Goto("record temporary", f) /\ Continues
      /\ journal' = journal /\ died' = died
  BY <1>0, <1>3 DEF StageDeletionTombstone, Continues
<1>5. target[f].data = Planned(f)[ExpectedSide].data /\ Exists(target[f])
  BY <1>2, <1>3, DispositionSound, EntryFields DEF Disposition, SamePayload, Exists
<1>6. target[f].ino <= clock[f]
  BY <1>1, PairAt DEF ShapeInv, PairOK
<1>7. /\ OnlyAt(File, f) /\ target'[f] = Relinked(f, target[f], 2)
      /\ temporary'[f] = Relinked(f, target[f], 2) /\ target'[f].data = target[f].data
  BY <1>1, <1>2, <1>4, <1>5, <1>6, LinkBothEffect DEF ShapeInv
<1>8. target'[f].nlink = 2
  BY <1>1, <1>2, <1>5, <1>7, RelinkedOnDisk DEF ShapeInv
<1>9. \A g \in File \ {f} : SameFile(g)
  BY <1>4, <1>7, StepSame
<1>10. command'.pc = "record temporary" /\ command'.op = command.op
  BY <1>4, GotoPc
<1>11. ExpectedSide' = ExpectedSide /\ (Desires(f)' <=> Desires(f))
  BY <1>10, SameSides
<1>12. Planned(f)' = Planned(f)
  BY DEF Planned, Original
<1>13. AtWork(f)'
  BY <1>1, <1>5, <1>7, <1>8, <1>10, <1>11, <1>12 DEF AtWork, At
<1> QED  BY <1>0, <1>1, <1>4, <1>9, <1>13, LoopSettles, LoopPcNames

LEMMA RecordTemporarySettles ==
  ASSUME ShapeInv, Steady, RecordTemporary
  PROVE  FilesSettle' /\ GoesOn
<1>0. PICK f : f = command.f
  OBVIOUS
<1>1. /\ command.pc = "record temporary" /\ command.pc \in LoopPc
  BY LoopPcNames DEF RecordTemporary, At
<1>2. /\ f \in File /\ journal # NoJournal /\ journal \in Journal
      /\ IF Desires(f) THEN Stands(f, ExpectedSide)
         ELSE /\ target[f] = temporary[f] /\ target[f].nlink = 2
              /\ target[f].data = Planned(f)[ExpectedSide].data
  BY <1>0, <1>1, LoopState DEF AtWork, At
<1>3. Desires(f) => OwnTemporary(f)
  BY <1>0, <1>1 DEF ShapeInv, TemporaryOK
<1>4. PICK s \in Side : s = IF Desires(f) THEN DesiredSide ELSE ExpectedSide
  BY SidesOfCommand
<1>5. /\ TemporaryRecorded(f, s, temporary[f])
      /\ Goto("publish", f) /\ Continues /\ UNCHANGED <<target, temporary, died>>
  BY <1>0, <1>2, <1>4 DEF RecordTemporary, TemporaryRecorded, Continues, disk, SamePayload
<1>6. temporary[f] \in FileState
  BY <1>2, EntryAt DEF OnDisk
<1>7. /\ journal'.temporary[f] = [side |-> s, state |-> temporary[f]]
      /\ \A t : Stands(f, t)' <=> Stands(f, t)
      /\ \A g \in File \ {f} : SameFile(g)
  BY <1>2, <1>4, <1>5, <1>6, TemporaryIsRecorded
<1>8. command'.pc = "publish" /\ command'.op = command.op
  BY <1>5, GotoPc
<1>9. /\ DesiredSide' = DesiredSide /\ ExpectedSide' = ExpectedSide
      /\ Desires(f)' <=> Desires(f)
  BY <1>8, SameSides
<1>10. /\ journal'.temporary[f].side = s /\ journal'.temporary[f].state = temporary[f]
       /\ Change(f)'.temporary = journal'.temporary[f]
       /\ temporary'[f] = temporary[f] /\ target'[f] = target[f]
  BY <1>5, <1>7, EntryFields
<1>11. Pending(f)'
  <2>1. CASE Desires(f)
    <3>1. s = DesiredSide /\ s # "none"  BY <1>4, <2>1, SideFacts
    <3>2. journal'.temporary[f] # NoTemporary  BY <1>10, <3>1 DEF NoTemporary
    <3>3. IsPrepared(f, DesiredSide)'
      BY <1>3, <1>9, <1>10, <2>1, <3>1 DEF IsPrepared, PreparedAt, OwnTemporary
    <3>4. Stands(f, ExpectedSide)'  BY <1>2, <1>7, <1>9, <2>1
    <3> QED  BY <1>9, <2>1, <3>2, <3>3, <3>4 DEF Pending
  <2>2. CASE ~Desires(f)
    <3>1. Held(f, ExpectedSide)'
      BY <1>2, <1>4, <1>9, <1>10, <2>2 DEF Held, HeldAt
    <3> QED  BY <1>9, <2>2, <3>1 DEF Pending
  <2> QED  BY <2>1, <2>2
<1>12. AtWork(f)'
  BY <1>8, <1>11 DEF AtWork, At
<1> QED  BY <1>0, <1>1, <1>5, <1>7, <1>12, LoopSettles, LoopPcNames

\* A pending file is what the last compare asks for.
LEMMA PendingReady ==
  ASSUME ShapeInv, journal # NoJournal, NEW f \in File, Pending(f)
  PROVE  /\ Disposition(f) = ExpectedSide /\ ReadyToPublish(f)
         /\ journal.temporary[f] # NoTemporary /\ Exists(temporary[f])
         /\ ~Desires(f) => Exists(target[f]) /\ Linked(f)
<1>0. /\ ChangeOK(Change(f)) /\ Differ(Change(f)) /\ target[f] \in OnDisk
      /\ temporary[f] \in OnDisk /\ ExpectedSide \in Side
  BY EntryAt, SidesOfCommand
<1>1. CASE Desires(f)
  <2>1. /\ journal.temporary[f] # NoTemporary
        /\ Stands(f, ExpectedSide) /\ IsPrepared(f, DesiredSide)
    BY <1>1 DEF Pending
  <2>2. IsAccounted(f)
    BY <2>1, EntryFields DEF IsPrepared, PreparedAt, IsAccounted, Accounted
  <2>3. Disposition(f) = ExpectedSide /\ target[f].nlink <= 1
    BY <1>0, <2>1, <2>2, StandingFacts
  <2>4. TemporaryReady(Change(f), temporary[f], DesiredSide)
    BY <2>1 DEF IsPrepared, PreparedAt, Remains, TemporaryReady
  <2>5. Exists(temporary[f])
    <3>1. temporary[f].nlink = 1
      BY <2>4 DEF TemporaryReady, IsOwnedDeletionRemainder
    <3> QED  BY <1>0, <3>1, AbsentOnDisk DEF Absent
  <2> QED  BY <1>1, <2>1, <2>3, <2>4, <2>5 DEF ReadyToPublish
<1>2. CASE ~Desires(f)
  <2>1. HeldAt(Change(f), target[f], temporary[f], ExpectedSide)
    BY <1>2 DEF Pending, Held
  <2>2. /\ OwnedTemporaryTransition(Change(f), target[f], temporary[f]) = ExpectedSide
        /\ Change(f).temporary # NoTemporary /\ Exists(target[f])
    BY <1>0, <2>1, HeldFacts
  <2>3. Disposition(f) = ExpectedSide
    BY <1>0, <2>2, TransitionDisposition DEF Disposition
  <2>4. /\ DeletionTombstoneReady(Change(f), target[f], temporary[f], ExpectedSide)
        /\ target[f] = temporary[f]
    BY <2>1 DEF HeldAt, DeletionTombstoneReady
  <2> QED  BY <1>2, <2>2, <2>3, <2>4, EntryFields DEF ReadyToPublish, Linked
<1> QED  BY <1>1, <1>2

LEMMA SecondCompareSettles ==
  ASSUME ShapeInv, Steady, SecondCompare
  PROVE  FilesSettle' /\ GoesOn
<1>0. PICK f : f = command.f
  OBVIOUS
<1>1. command.pc = "publish" /\ command.pc \in LoopPc
  BY LoopPcNames DEF SecondCompare, At
<1>2. f \in File /\ journal # NoJournal /\ Pending(f)
  BY <1>0, <1>1, LoopState DEF AtWork, At
<1>3. Disposition(f) = ExpectedSide /\ ReadyToPublish(f)
  BY <1>2, PendingReady
<1>4. /\ Goto("commit", f) /\ Continues /\ target' = target /\ temporary' = temporary
      /\ journal' = journal /\ died' = died
  BY <1>0, <1>3 DEF SecondCompare, Continues, disk
<1>5. \A g \in File : SameFile(g)
  BY <1>4, NothingChanged DEF Change, Planned, Original
<1>6. command'.pc = "commit" /\ command'.op = command.op
  BY <1>4, GotoPc
<1>7. AtWork(f)'
  BY <1>2, <1>5, <1>6, FileKept DEF AtWork, At
<1> QED  BY <1>0, <1>1, <1>4, <1>5, <1>7, LoopSettles, LoopPcNames

(***************************************************************************)
(* The loop, from the rename to the endpoint.                              *)
(***************************************************************************)
\* The recorded temporary that is put in place, and what it becomes.
LEMMA PreparedFacts ==
  ASSUME ShapeInv, journal # NoJournal, NEW f \in File, Pending(f), Desires(f)
  PROVE  /\ journal.temporary[f] # NoTemporary /\ journal.temporary[f].side = DesiredSide
         /\ SameFileObject(temporary[f], journal.temporary[f].state)
<1>1. /\ journal.temporary[f] # NoTemporary /\ IsPrepared(f, DesiredSide)
  BY DEF Pending
<1>2. Exists(temporary[f])  BY PendingReady
<1> QED
  BY <1>1, <1>2, EntryFields DEF IsPrepared, PreparedAt, Remains, IsOwnedDeletionRemainder,
    SameFileObject

LEMMA PublishChangeSettles ==
  ASSUME ShapeInv, Steady, PublishChange
  PROVE  FilesSettle' /\ GoesOn
<1>0. PICK f : f = command.f
  OBVIOUS
<1>1. command.pc = "commit" /\ command.pc \in LoopPc
  BY LoopPcNames DEF PublishChange, At
<1>2. f \in File /\ journal # NoJournal /\ Pending(f)
  BY <1>0, <1>1, LoopState DEF AtWork, At
<1>3. /\ ChangeOK(Change(f)) /\ target[f] \in OnDisk /\ temporary[f] \in OnDisk
      /\ DesiredSide \in Side /\ ExpectedSide \in Side
      /\ ExpectedSide = OppositeSide(DesiredSide) /\ Exists(temporary[f])
      /\ Change(f).temporary = journal.temporary[f]
  BY <1>2, EntryAt, PendingReady, SidesOfCommand, EntryFields
<1>4. CASE ~Desires(f)
  <2>1. Exists(target[f]) /\ Linked(f)  BY <1>2, <1>4, PendingReady
  <2>2. /\ UnlinkTarget(f) /\ Goto("confirm", f) /\ Continues /\ journal' = journal
        /\ died' = died
    BY <1>0, <1>4, <2>1 DEF PublishChange, Continues
  <2>3. /\ OnlyAt(File, f) /\ target'[f] = Absent
        /\ temporary'[f] = Relinked(f, temporary[f], 1)
    BY <1>2, <2>1, <2>2, UnlinkTargetEffect DEF ShapeInv
  <2>4. /\ temporary'[f] \in OnDisk /\ Exists(temporary'[f]) /\ temporary'[f].nlink = 1
        /\ temporary'[f].ino = temporary[f].ino /\ temporary'[f].data = temporary[f].data
    BY <1>2, <1>3, <2>3, RelinkedOnDisk DEF ShapeInv
  <2>5. /\ journal.temporary[f] # NoTemporary
        /\ journal.temporary[f].side = ExpectedSide
        /\ journal.temporary[f].state.nlink = 2 /\ temporary[f] = journal.temporary[f].state
    BY <1>2, <1>3, <1>4, PendingReady DEF Pending, Held, HeldAt
  <2>6. IsOwnedDeletionRemainder(temporary'[f], journal.temporary[f].state)
    BY <1>3, <2>4, <2>5 DEF IsOwnedDeletionRemainder, SameFileObject
  <2>7. PublishedAt(Change(f), Absent, temporary'[f], DesiredSide)
    BY <1>3, <2>4, <2>5, <2>6, UnlinkedFacts
  <2>8. command'.pc = "confirm" /\ command'.op = command.op
    BY <2>2, GotoPc
  <2>9. DesiredSide' = DesiredSide  BY <2>8, SameSides
  <2>10. Change(f)' = Change(f)  BY <2>2 DEF Change, Planned, Original
  <2>11. Published(f, DesiredSide)'
    BY <2>3, <2>7, <2>9, <2>10 DEF Published
  <2>12. IsAccounted(f)'
    BY <1>3, <2>3, <2>5, <2>6, <2>10, AbsentOnDisk DEF IsAccounted, Accounted, Remains
  <2>13. AtWork(f)'
    BY <2>8, <2>11, <2>12 DEF AtWork, At
  <2>14. \A g \in File \ {f} : SameFile(g)
    BY <2>2, <2>3, StepSame
  <2> QED  BY <1>0, <1>1, <2>2, <2>13, <2>14, LoopSettles, LoopPcNames
<1>5. CASE Desires(f) /\ Replaces(f)
  <2>1. /\ RenameTemporary(f) /\ Goto("confirm", f) /\ Continues /\ journal' = journal
        /\ died' = died
    BY <1>0, <1>5 DEF PublishChange, Continues
  <2>2. /\ OnlyAt(File, f) /\ target'[f] = Relinked(f, temporary[f], 1)
        /\ temporary'[f] = Absent
    BY <1>2, <1>3, <2>1, RenameTemporaryEffect DEF ShapeInv
  <2>3. /\ target'[f] \in OnDisk /\ Exists(target'[f]) /\ target'[f].nlink = 1
        /\ target'[f].ino = temporary[f].ino /\ target'[f].data = temporary[f].data
    BY <1>2, <1>3, <2>2, RelinkedOnDisk DEF ShapeInv
  <2>4. /\ journal.temporary[f] # NoTemporary /\ journal.temporary[f].side = DesiredSide
        /\ SameFileObject(target'[f], journal.temporary[f].state)
    BY <1>2, <1>5, <2>3, PreparedFacts DEF SameFileObject
  <2>5. PublishedAt(Change(f), target'[f], Absent, DesiredSide)
    BY <1>3, <2>3, <2>4, PublishedFacts
  <2>6. command'.pc = "confirm" /\ command'.op = command.op
    BY <2>1, GotoPc
  <2>7. DesiredSide' = DesiredSide  BY <2>6, SameSides
  <2>8. Change(f)' = Change(f)  BY <2>1 DEF Change, Planned, Original
  <2>9. Published(f, DesiredSide)'
    BY <2>2, <2>5, <2>7, <2>8 DEF Published
  <2>10. IsAccounted(f)'
    BY <2>2, AbsentOnDisk DEF IsAccounted, Accounted
  <2>11. AtWork(f)'
    BY <2>6, <2>9, <2>10 DEF AtWork, At
  <2>12. \A g \in File \ {f} : SameFile(g)
    BY <2>1, <2>2, StepSame
  <2> QED  BY <1>0, <1>1, <2>1, <2>11, <2>12, LoopSettles, LoopPcNames
<1>6. CASE Desires(f) /\ ~Replaces(f)
  <2>0. ~Exists(target[f])
    BY <1>2, <1>3, <1>6, StandingFacts DEF Pending, Replaces
  <2>1. /\ LinkBoth(f, temporary[f]) /\ Goto("unlink temporary", f) /\ Continues
        /\ journal' = journal /\ died' = died
    BY <1>0, <1>6, <2>0 DEF PublishChange, Continues
  <2>2. temporary[f].ino <= clock[f]
    BY <1>2, PairAt DEF ShapeInv, PairOK
  <2>3. /\ OnlyAt(File, f) /\ target'[f] = Relinked(f, temporary[f], 2)
        /\ temporary'[f] = Relinked(f, temporary[f], 2)
    BY <1>2, <1>3, <2>1, <2>2, LinkBothEffect DEF ShapeInv
  <2>4. /\ Exists(target'[f])
        /\ target'[f].ino = temporary[f].ino /\ target'[f].data = temporary[f].data
    BY <1>2, <1>3, <2>3, RelinkedOnDisk DEF ShapeInv
  <2>5. /\ journal.temporary[f] # NoTemporary /\ journal.temporary[f].side = DesiredSide
        /\ SameFileObject(target'[f], journal.temporary[f].state)
    BY <1>2, <1>6, <2>4, PreparedFacts DEF SameFileObject
  <2>6. command'.pc = "unlink temporary" /\ command'.op = command.op
    BY <2>1, GotoPc
  <2>7. DesiredSide' = DesiredSide  BY <2>6, SameSides
  <2>8. Linked(f)'
    BY <2>3, <2>4 DEF Linked, Exists
  <2>9. SameFileObject(target[f], journal.temporary[f].state)'
    BY <2>1, <2>5 DEF SameFileObject, Exists
  <2>10. AtWork(f)'
    BY <2>1, <2>5, <2>6, <2>7, <2>8, <2>9 DEF AtWork, At
  <2>11. \A g \in File \ {f} : SameFile(g)
    BY <2>1, <2>3, StepSame
  <2> QED  BY <1>0, <1>1, <2>1, <2>10, <2>11, LoopSettles, LoopPcNames
<1> QED  BY <1>4, <1>5, <1>6

LEMMA UnlinkPublishedTemporarySettles ==
  ASSUME ShapeInv, Steady, UnlinkPublishedTemporary
  PROVE  FilesSettle' /\ GoesOn
<1>0. PICK f : f = command.f
  OBVIOUS
<1>1. /\ command.pc = "unlink temporary" /\ command.pc \in LoopPc
      /\ UnlinkTemporary(f) /\ Goto("confirm", f) /\ Continues /\ journal' = journal
      /\ died' = died
  BY <1>0, LoopPcNames DEF UnlinkPublishedTemporary, At, Continues
<1>2. /\ f \in File /\ journal # NoJournal
      /\ journal.temporary[f] # NoTemporary /\ journal.temporary[f].side = DesiredSide
      /\ Linked(f) /\ SameFileObject(target[f], journal.temporary[f].state)
  BY <1>0, <1>1, LoopState DEF AtWork, At
<1>3. /\ OnlyAt(File, f) /\ temporary'[f] = Absent /\ IsAccounted(f)'
      /\ Change(f)' = Change(f)
      /\ target'[f].nlink = 1 /\ target'[f].ino = target[f].ino
      /\ target'[f].data = target[f].data /\ target'[f] \in OnDisk
  BY <1>1, <1>2, UnlinkedTemporary
<1>4. SameFileObject(target'[f], journal.temporary[f].state)
  BY <1>2, <1>3 DEF SameFileObject, Exists
<1>5. PublishedAt(Change(f), target'[f], Absent, DesiredSide)
  BY <1>2, <1>3, <1>4, EntryAt, EntryFields, SidesOfCommand, PublishedFacts
<1>6. command'.pc = "confirm" /\ command'.op = command.op
  BY <1>1, GotoPc
<1>7. DesiredSide' = DesiredSide  BY <1>6, SameSides
<1>8. Published(f, DesiredSide)'
  BY <1>3, <1>5, <1>7 DEF Published
<1>9. AtWork(f)'
  BY <1>3, <1>6, <1>8 DEF AtWork, At
<1>10. \A g \in File \ {f} : SameFile(g)
  BY <1>1, <1>3, StepSame
<1> QED  BY <1>0, <1>1, <1>9, <1>10, LoopSettles, LoopPcNames

\* Where the endpoint is recorded it is reached, but for a creation that a
\* rollback finds not begun.
LEMMA EndpointTaken ==
  ASSUME ShapeInv, Steady, ~LostForComplete, RecordEndpoint, NEW f, f = command.f
  PROVE  /\ IsAccounted(f) /\ target[f].nlink <= 1
         /\ \/ DesiredEndpointReached(Change(f), target[f], temporary[f], DesiredSide)
            \/ command.op = "rollback" /\ UnpublishedCreation /\ Rests(f)
<1>1. command.pc \in {"confirm", "prepare", "publish"} /\ command.pc \in LoopPc
  BY LoopPcNames DEF RecordEndpoint, At
<1>2. /\ f \in File /\ journal # NoJournal /\ AtWork(f)
      /\ command.op = "rollback" => "rollback" \in died
  BY <1>1, LoopState
<1>3. ChangeOK(Change(f)) /\ target[f] \in OnDisk /\ temporary[f] \in OnDisk /\ DesiredSide \in Side
  BY <1>2, EntryAt, SidesOfCommand
<1>4. CASE command.pc = "confirm"
  <2>1. IsAccounted(f) /\ Published(f, DesiredSide)  BY <1>2, <1>4 DEF AtWork, At
  <2> QED  BY <1>2, <1>3, <2>1, ConfirmedFacts
<1>5. CASE command.pc = "publish"
  <2>1. Disposition(f) = DesiredSide
    BY <1>5 DEF RecordEndpoint, At
  <2>2. Disposition(f) = ExpectedSide  BY <1>2, <1>5, PendingReady DEF AtWork, At
  <2> QED  BY <2>1, <2>2, WhichSide
<1>6. CASE command.pc = "prepare"
  <2>1. Disposition(f) = DesiredSide /\ Rests(f) /\ IsAccounted(f)
    BY <1>2, <1>6 DEF RecordEndpoint, At, AtWork, Rests
  <2>2. ~Tombstoned(f)
    <3>1. Tombstoned(f) => Disposition(f) = "before"
      BY <1>2, TombstoneFacts DEF Tombstoned
    <3>2. DesiredSide = "before" => "rollback" \in died
      BY <1>2, WhichSide DEF Forward
    <3> QED  BY <2>1, <3>1, <3>2 DEF Tombstoned, LostForComplete
  <2>3. target[f].nlink <= 1
    BY <1>2, <2>1, <2>2, StandingFacts DEF Rests, Published, PublishedAt
  <2>4. \/ MatchesRecordedSide(Change(f), target[f], DesiredSide)
        \/ OwnedTemporaryTransition(Change(f), target[f], temporary[f]) = DesiredSide
    BY <1>3, <2>1, SideFacts DEF Disposition, MutationChangeDisposition
  <2>5. CASE \/ DesiredSide = "after" \/ Exists(Change(f).planned[DesiredSide])
             \/ Change(f).published["after"] # Unrecorded
    BY <1>3, <2>1, <2>3, <2>4, <2>5, EndpointReached
  <2>6. CASE /\ DesiredSide # "after" /\ ~Exists(Change(f).planned[DesiredSide])
             /\ Change(f).published["after"] = Unrecorded
    <3>1. DesiredSide = "before" /\ command.op = "rollback"
      BY <2>6, WhichSide DEF Forward
    <3>2. Kind[f] = "create"
      <4>1. ~Exists(Planned(f)["before"])  BY <2>6, <3>1, EntryFields
      <4> QED  BY <4>1 DEF Planned, Original, Exists
    <3>3. UnpublishedCreation
      BY <1>2, <2>6, <3>2, EntryFields DEF UnpublishedCreation
    <3> QED  BY <2>1, <2>3, <3>1, <3>3
  <2> QED  BY <2>5, <2>6
<1> QED  BY <1>1, <1>4, <1>5, <1>6

LEMMA EndpointLeavesOthers ==
  ASSUME journal \in Journal, NEW f \in File, EndpointRecorded(f)
  PROVE  \A g \in File \ {f} : Change(g)' = Change(g)
<1>1. /\ journal'.temporary = journal.temporary
      /\ \A g \in File \ {f} : journal'.published[g] = journal.published[g]
  BY DEF EndpointRecorded, EndpointIs, Journal
<1> QED  BY <1>1 DEF Change, Planned, Original

LEMMA RecordEndpointSettles ==
  ASSUME ShapeInv, Steady, ~LostForComplete, RecordEndpoint
  PROVE  FilesSettle' /\ (GoesOn \/ EndsWell)
<1>0. PICK f : f = command.f
  OBVIOUS
<1>1. command.pc \in LoopPc /\ command.pc # "idle"
  BY LoopPcNames, EarlyPc DEF RecordEndpoint, At
<1>2. /\ f \in File /\ journal # NoJournal /\ journal \in Journal
      /\ \A g \in File \ {f} : Beside(g, f) /\ Rests(g)
  BY <1>0, <1>1, LoopState
<1>3. /\ IsAccounted(f) /\ target[f].nlink <= 1
      /\ \/ DesiredEndpointReached(Change(f), target[f], temporary[f], DesiredSide)
         \/ command.op = "rollback" /\ UnpublishedCreation /\ Rests(f)
  BY <1>0, EndpointTaken
<1>4. CASE ~DesiredEndpointReached(Change(f), target[f], temporary[f], DesiredSide)
  <2>1. Fail("post_commit_mismatch")
    BY <1>0, <1>4 DEF RecordEndpoint
  <2> QED  BY <1>2, <1>3, <1>4, <2>1, FailSettles
<1>5. CASE DesiredEndpointReached(Change(f), target[f], temporary[f], DesiredSide)
  <2>1. /\ EndpointRecorded(f) /\ LeaveFile(f) /\ Continues
        /\ target' = target /\ temporary' = temporary /\ died' = died
    BY <1>0, <1>5, RecordEndpointCases DEF RecordEndpoint, EndpointRecorded, EndpointIs,
      NewApplied, Continues, disk
  <2>2. /\ journal' \in Journal /\ journal' # NoJournal
        /\ journal'.temporary = journal.temporary
        /\ journal'.published[f][DesiredSide] = target[f]
    BY <1>0, <1>1, <1>2, <1>5, <2>1, EndpointRecordedFacts
  <2>3. \A g \in File \ {f} : SameFile(g)
    BY <1>2, <2>1, EndpointLeavesOthers DEF SameFile
  <2>4. /\ command'.op = command.op
        /\ \/ command'.pc \in EndPc /\ (IF Forward THEN f = N ELSE f = 1)
           \/ \E h \in File : /\ h = IF Forward THEN f + 1 ELSE f - 1
                              /\ EnterFile(h)
    <3>1. CASE command.op = "rollback" /\ f = 1
      BY <2>1, <3>1, GotoPc, EndNames DEF LeaveFile, Forward
    <3>2. CASE command.op = "rollback" /\ f # 1
      <4>1. EnterFile(f - 1) /\ f - 1 \in File
        BY <1>2, <2>1, <3>2, KindFacts DEF LeaveFile
      <4> QED  BY <3>2, <4>1, EnterPc DEF Forward
    <3>3. CASE command.op # "rollback" /\ f = N
      BY <2>1, <3>3, GotoPc, EndNames DEF LeaveFile, Forward
    <3>4. CASE command.op # "rollback" /\ f # N
      <4>1. EnterFile(f + 1) /\ f + 1 \in File
        BY <1>2, <2>1, <3>4, KindFacts DEF LeaveFile
      <4> QED  BY <3>4, <4>1, EnterPc DEF Forward
    <3> QED  BY <3>1, <3>2, <3>3, <3>4
  <2>5. DesiredSide' = DesiredSide /\ Forward' = Forward
    BY <2>4, SameSides
  <2>6. Done(f)'
    <3>1. Change(f)'.temporary = Change(f).temporary
      BY <2>2, EntryFields
    <3>2. IsAccounted(f)'
      BY <1>3, <2>1, <3>1 DEF IsAccounted, Accounted, Remains, Exists,
        IsOwnedDeletionRemainder, SameFileObject
    <3> QED  BY <1>3, <2>1, <2>2, <2>5, <3>2 DEF Done
  <2>7. \A g \in File \ {f} : Beside(g, f)' /\ Rests(g)'
    BY <1>2, <2>3, <2>4, BesideKept, FileKept
  <2>8. CASE command'.pc \in EndPc /\ (IF Forward THEN f = N ELSE f = 1)
    <3>1. \A g \in File \ {f} : Before(g, f)'
      BY <1>2, <2>5, <2>8, KindFacts DEF Before
    <3>2. \A g \in File : Done(g)'
      BY <2>6, <2>7, <3>1 DEF Beside
    <3>3. FilesSettle'
      BY <2>8, <3>2, EndNames, EarlyPc, IdleFields DEF FilesSettle, At, EndPc
    <3> QED  BY <1>1, <2>1, <2>4, <2>8, <3>3, GoesOnFacts, EndNames
  <2>9. ASSUME NEW h \in File, h = IF Forward THEN f + 1 ELSE f - 1, EnterFile(h)
        PROVE  FilesSettle' /\ GoesOn
    <3>1. \A g \in File \ {f} : Before(g, h)' <=> Before(g, f)'
      BY <1>2, <2>5, <2>9, KindFacts DEF Before
    <3>2. Before(f, h)' /\ ~Before(h, f)' /\ h # f
      BY <1>2, <2>5, <2>9, KindFacts DEF Before
    <3>3. \A g \in File \ {h} : Beside(g, h)'
      BY <2>6, <2>7, <3>1, <3>2 DEF Beside
    <3>4. Rests(h)' /\ (command.op = "execute" => Staged(h)')
      BY <2>4, <2>7, <3>2 DEF Beside
    <3> QED  BY <1>1, <2>1, <2>9, <3>3, <3>4, EntersSettles
  <2> QED  BY <2>4, <2>8, <2>9
<1> QED  BY <1>4, <1>5

(***************************************************************************)
(* After the loop.                                                         *)
(***************************************************************************)
LEMMA EndState ==
  ASSUME ShapeInv, Steady, command.pc \in EndPc
  PROVE  /\ command # Idle /\ command.pc # "idle" /\ journal # NoJournal
         /\ \A g \in File : Done(g) /\ Rests(g)
<1>1. command # Idle /\ command.pc # "idle" /\ journal # NoJournal
  BY EndNames, IdleFields, RunningFacts
<1>2. \A g \in File : Done(g)
  BY <1>1 DEF Steady, FilesSettle
<1> QED  BY <1>1, <1>2, DoneFacts

LEMMA EndSettles ==
  ASSUME ShapeInv, command.pc \in EndPc, NEW pc \in EndPc, NEW f, Goto(pc, f), Continues,
         \A g \in File : Done(g)'
  PROVE  FilesSettle' /\ GoesOn
<1>1. /\ command'.pc = pc /\ command'.op = command.op /\ command.pc # "idle"
      /\ command'.pc # "idle" /\ pc \notin LoopPc
      /\ pc \notin {"mkdir", "stage", "record staged", "recheck", "idle"}
  BY GotoPc, EndNames, EarlyPc
<1> QED  BY <1>1, GoesOnFacts, IdleFields DEF FilesSettle, At

LEMMA MarkValidatingSettles ==
  ASSUME ShapeInv, Steady, MarkValidating
  PROVE  FilesSettle' /\ GoesOn
<1>1. /\ command.pc \in EndPc /\ Goto("check", 0) /\ Continues /\ died' = died
      /\ target' = target /\ temporary' = temporary
      /\ journal' = [journal EXCEPT !.state = "validating"]
  BY EndNames DEF MarkValidating, At, Continues, disk
<1>2. journal # NoJournal /\ \A g \in File : Done(g)
  BY <1>1, EndState
<1>3. \A g \in File : Change(g)' = Change(g)
  BY <1>1, <1>2, StateChangeKeepsEntries DEF JournalState
<1>4. DesiredSide' = DesiredSide
  BY <1>1, GotoPc, SameSides
<1>5. \A g \in File : Done(g)'
  BY <1>1, <1>2, <1>3, <1>4, NothingChanged, FileKept
<1> QED  BY <1>1, <1>5, EndSettles, EndNames

LEMMA CheckResultSettles ==
  ASSUME ShapeInv, Steady, CheckResult
  PROVE  FilesSettle' /\ GoesOn
<1>1. command.pc \in EndPc
  BY EndNames DEF CheckResult, At
<1>2. journal # NoJournal /\ \A g \in File : Done(g)
  BY <1>1, EndState
<1>3. ContentState(DesiredSide) /\ ~drift
  BY <1>2 DEF ContentState, Done, Steady
<1>4. /\ Goto("cleanup", 1) /\ Continues /\ died' = died
      /\ target' = target /\ temporary' = temporary /\ journal' = journal
  BY <1>3 DEF CheckResult, BeginCleanup, Continues, disk
<1>5. \A g \in File : SameFile(g)
  BY <1>4, NothingChanged DEF Change, Planned, Original
<1>6. DesiredSide' = DesiredSide
  BY <1>4, GotoPc, SameSides
<1>7. \A g \in File : Done(g)'
  BY <1>2, <1>5, <1>6, FileKept
<1> QED  BY <1>1, <1>4, <1>7, EndSettles, EndNames

LEMMA CleanupTemporarySettles ==
  ASSUME ShapeInv, Steady, CleanupTemporary
  PROVE  FilesSettle' /\ GoesOn
<1>0. PICK f : f = command.f
  OBVIOUS
<1>1. command.pc \in EndPc /\ f \in File
  BY <1>0, EndNames, CleanupTemporaryCases DEF CleanupTemporary, At
<1>2. journal # NoJournal /\ \A g \in File : Done(g)
  BY <1>1, EndState
<1>3. ~Linked(f) /\ IsAccounted(f)
  BY <1>1, <1>2, DoneFacts, SidesOfCommand, StandingFacts DEF Done
<1>4. Exists(temporary[f]) => RemovableTemporary(Change(f), target[f], temporary[f])
  BY <1>1, <1>2, <1>3, EntryAt, AccountedTemporary DEF IsAccounted
<1>5. /\ IF Exists(temporary[f]) THEN UnlinkTemporary(f)
         ELSE UNCHANGED <<target, temporary, clock>>
      /\ IF f = N THEN Goto(AfterCleanup, 0) ELSE Goto("cleanup", f + 1)
      /\ Continues /\ journal' = journal /\ died' = died
  BY <1>0, <1>4 DEF CleanupTemporary, Continues
<1>6. PICK pc, h : pc \in EndPc /\ Goto(pc, h)
  BY <1>5, AfterCleanupIs, EndNames DEF AfterCleanupFacts
<1>7. DesiredSide' = DesiredSide
  BY <1>6, GotoPc, SameSides
<1>8. \A g \in File : Done(g)'
  <2>1. CASE Exists(temporary[f])
    <3>1. /\ OnlyAt(File, f) /\ IsAccounted(f)' /\ Change(f)' = Change(f)
          /\ target'[f] = target[f]
      BY <1>1, <1>2, <1>3, <1>5, <2>1, UnlinkedTemporary
    <3>2. \A g \in File \ {f} : SameFile(g)
      BY <1>5, <3>1, StepSame
    <3>3. Done(f)'
      <4>1. journal'.published[f] = journal.published[f]  BY <1>5
      <4> QED  BY <1>1, <1>2, <1>7, <3>1, <4>1 DEF Done
    <3> QED  BY <1>2, <1>7, <3>2, <3>3, FileKept
  <2>2. CASE ~Exists(temporary[f])
    <3>1. \A g \in File : SameFile(g)
      BY <1>5, <2>2, NothingChanged DEF Change, Planned, Original
    <3> QED  BY <1>2, <1>7, <3>1, FileKept
  <2> QED  BY <2>1, <2>2
<1> QED  BY <1>1, <1>5, <1>6, <1>8, EndSettles

\* The new directory can go: the created file and its temporary are gone.
LEMMA RollbackDirectoriesSettles ==
  ASSUME ShapeInv, CleanupInv, Steady, RollbackDirectories
  PROVE  FilesSettle' /\ (GoesOn \/ EndsWell)
<1>1. /\ command.pc \in EndPc /\ command.pc = "rmdir" /\ command.op = "rollback"
  BY EndNames DEF RollbackDirectories, At, ShapeInv, CommandOK, Forward
<1>2. journal # NoJournal /\ (\A g \in File : Done(g) /\ Rests(g)) /\ 1 \in File
  BY <1>1, EndState, FileFacts
<1>3. temporary[1] = Absent /\ ~stray
  BY <1>1, <1>2 DEF CleanupInv, Steady
<1>4. CASE Fail("directory_recovery_not_empty")
  <2>1. ASSUME AcceptedFileSet PROVE ~Fail("directory_recovery_not_empty")
    <3>1. ASSUME MakesDirectory PROVE ~Exists(target[1])
      <4>1. Kind[1] = "create"  BY <2>1, <3>1 DEF AcceptedFileSet
      <4>2. ~Exists(Planned(1)["before"])  BY <4>1 DEF Planned, Original, Exists, Absent
      <4>3. Stands(1, "before")
        <5>1. DesiredSide = "before"  BY <1>1 DEF DesiredSide
        <5> QED  BY <1>2, <5>1, DoneFacts
      <4> QED  BY <1>2, <4>2, <4>3, StandingFacts, SideFacts
    <3>2. ~(MakesDirectory /\ directory /\ DirectoryInUse)
      BY <1>3, <3>1, AbsentOnDisk DEF DirectoryInUse
    <3>3. command'.pc = "finish"
      BY <3>2, GotoPc DEF RollbackDirectories
    <3> QED  BY <3>3, IdleFields DEF Fail, Ended
  <2> QED  BY <1>1, <1>2, <1>4, <2>1, FailSettles
<1>5. CASE ~Fail("directory_recovery_not_empty")
  <2>1. /\ Goto("finish", 0) /\ Continues /\ died' = died
        /\ target' = target /\ temporary' = temporary /\ journal' = journal
    BY <1>5 DEF RollbackDirectories, Continues
  <2>2. \A g \in File : SameFile(g)
    BY <2>1, NothingChanged DEF Change, Planned, Original
  <2>3. DesiredSide' = DesiredSide
    BY <2>1, GotoPc, SameSides
  <2>4. \A g \in File : Done(g)'
    BY <1>2, <2>2, <2>3, FileKept
  <2> QED  BY <1>1, <2>1, <2>4, EndSettles, EndNames
<1> QED  BY <1>4, <1>5

LEMMA RemoveJournalSettles ==
  ASSUME RemoveJournal
  PROVE  journal' = NoJournal /\ EndsWell
BY DEF RemoveJournal, Ended, EndsWell

\* Every file that rests is at a side: the files at their new side are the
\* prefix that the journal allows.
LEMMA VectorAllowed ==
  ASSUME ShapeInv, Undisturbed, PositionInv, journal # NoJournal, \A g \in File : Rests(g)
  PROVE  LiveVectorAllowed
<1>1. PICK k \in 0..N : Position(k)
  BY DEF PositionInv
<1>2. ASSUME NEW f \in File
      PROVE  Disposition(f) = IF f <= k THEN "after" ELSE "before"
  <2>1. Disposition(f) \in Side
    BY RestingDisposition
  <2>2. target[f].data = Planned(f)[Disposition(f)].data
    BY <2>1, EntryAt, DispositionSound, EntryFields DEF Disposition, SamePayload
  <2>3. IF f <= k THEN target[f].data = AfterData(f) ELSE target[f].data = BeforeData(f)
    <3>1. k \in Nat /\ f \in Nat  BY <1>1, KindFacts
    <3> QED  BY <1>1, <3>1, PrefixFacts DEF Position
  <2>4. /\ AfterData(f) # BeforeData(f)
        /\ AfterData(f) = Planned(f)["after"].data /\ BeforeData(f) = Planned(f)["before"].data
    BY DataFacts DEF AfterData, BeforeData
  <2> QED  BY <2>1, <2>2, <2>3, <2>4, SideFacts
<1>3. Applied(k)
  BY <1>1, <1>2, KindFacts DEF Applied
<1>4. /\ journal.state \in {"planning", "prepared"} => k = 0
      /\ journal.state = "validating" => k = N
      /\ k \in {journal.applied - 1, journal.applied, journal.applied + 1}
  BY <1>1 DEF Position, JournalPosition
<1>5. journal.state \in JournalState
  BY DEF ShapeInv, JournalOK, Journal
<1> QED  BY <1>1, <1>3, <1>4, <1>5 DEF LiveVectorAllowed, JournalState

LEMMA RecoverSettles ==
  ASSUME ShapeInv, Undisturbed, PositionInv, Steady, NEW op \in {"complete", "rollback"},
         Recover(op)
  PROVE  /\ FilesSettle' /\ journal' # NoJournal
         /\ command' # Idle /\ command'.op = op /\ last' = last
         /\ died \subseteq died' /\ (op = "rollback" => "rollback" \in died')
<1>1. /\ command = Idle /\ journal # NoJournal /\ target' = target /\ temporary' = temporary
      /\ died' = died \cup ({op} \cap {"rollback"})
  BY DEF Recover, disk
<1>2. \A g \in File : Rests(g)
  BY <1>1 DEF Steady, FilesSettle
<1>3. LiveVectorAllowed
  BY <1>1, <1>2, VectorAllowed
<1>4. /\ journal' = [journal EXCEPT !.state = "committing"]
      /\ command' = IF op = "complete" THEN [op |-> op, pc |-> "mkdir", f |-> 0]
                    ELSE [op |-> op, pc |-> "prepare", f |-> N]
      /\ last' = last
  BY <1>3 DEF Recover
<1>5. \A g \in File : Change(g)' = Change(g)
  BY <1>1, <1>4, StateChangeKeepsEntries DEF JournalState
<1>6. \A g \in File : Rests(g)'
  BY <1>1, <1>2, <1>5, NothingChanged, FileKept
<1>7. journal' # NoJournal
  BY <1>1, <1>4, RecordsState, JournalFacts DEF ShapeInv, JournalOK, JournalState
<1>8. CASE op = "complete"
  <2>1. command'.op = "complete" /\ command'.pc = "mkdir" /\ command' # Idle
    BY <1>4, <1>8, IdleFields
  <2>2. FilesSettle'
    BY <1>6, <2>1, EarlyPc DEF FilesSettle, At
  <2> QED  BY <1>1, <1>4, <1>7, <1>8, <2>1, <2>2
<1>9. CASE op = "rollback"
  <2>1. command'.op = "rollback" /\ command'.pc = "prepare" /\ command'.f = N /\ command' # Idle
    BY <1>4, <1>9, IdleFields
  <2>2. \A g \in File \ {N} : Beside(g, N)'
    BY <1>6, <2>1, KindFacts DEF Beside, Before, Forward
  <2>3. AtWork(N)'
    BY <1>6, <2>1, FileFacts DEF AtWork, At
  <2>4. FilesSettle'
    BY <2>1, <2>2, <2>3, EarlyPc, EndNames DEF FilesSettle, At, EndPc
  <2> QED  BY <1>1, <1>4, <1>7, <1>9, <2>1, <2>4
<1> QED  BY <1>8, <1>9

\* A crash outside the windows leaves the command's file at rest.
LEMMA CrashRests ==
  ASSUME ShapeInv, Steady, Crash, ~LostForComplete', command.pc \in LoopPc,
         NEW f, f = command.f
  PROVE  Rests(f)'
<1>1. /\ target' = target /\ temporary' = temporary /\ journal' = journal
      /\ died' = died \cup ({Window} \cap Windows)
  BY DEF Crash, Ended, disk
<1>2. /\ f \in File /\ journal # NoJournal /\ AtWork(f)
      /\ command.op = "rollback" => "rollback" \in died
  BY LoopState
<1>3. SameFile(f)
  BY <1>1 DEF SameFile, Change, Planned, Original
<1>4. CASE command.pc = "prepare"
  BY <1>2, <1>3, <1>4, FileKept DEF AtWork, At
<1>5. CASE command.pc = "restage"
  <2>1. Rests(f)
    BY <1>2, <1>5, SidesOfCommand DEF AtWork, At, Waits, Rests
  <2> QED  BY <1>3, <2>1, FileKept
<1>6. CASE command.pc = "record temporary" \/ command.pc = "unlink temporary"
  <2>1. command.pc \in died'
    BY <1>1, <1>6 DEF Window, Windows
  <2> QED  BY <1>6, <2>1 DEF LostForComplete
<1>7. CASE command.pc = "confirm"
  <2>1. "confirm" \in died'
    BY <1>1, <1>7 DEF Window, Windows
  <2>2. Forward
    BY <1>1, <1>2, <2>1 DEF Forward, LostForComplete
  <2>3. IsAccounted(f) /\ Published(f, "after")
    BY <1>2, <1>7, <2>2, WhichSide DEF AtWork, At
  <2> QED  BY <1>3, <2>1, <2>3, PairKept DEF Rests
<1>8. CASE command.pc = "publish" \/ command.pc = "commit"
  <2>1. Pending(f)  BY <1>2, <1>8 DEF AtWork, At
  <2>2. CASE Desires(f)
    <3>1. IsAccounted(f) /\ Stands(f, ExpectedSide)
      BY <2>1, <2>2, EntryFields DEF Pending, IsPrepared, PreparedAt, IsAccounted, Accounted
    <3>2. Rests(f)
      BY <3>1, SidesOfCommand DEF Rests
    <3> QED  BY <1>3, <3>2, FileKept
  <2>3. CASE ~Desires(f)
    <3>1. "tombstone" \in died'
      <4>1. Window = "tombstone"  BY <1>8, <2>3 DEF Window
      <4> QED  BY <1>1, <4>1 DEF Windows
    <3>2. Forward
      BY <1>1, <1>2, <3>1 DEF Forward, LostForComplete
    <3>3. Held(f, "before")
      BY <2>1, <2>3, <3>2, WhichSide DEF Pending
    <3>4. IsAccounted(f)
      BY <1>2, <3>3, EntryAt, HeldFacts, SideFacts, EntryFields
      DEF Held, HeldAt, IsAccounted, Accounted
    <3> QED  BY <1>3, <3>1, <3>3, <3>4, PairKept DEF Rests, Tombstoned
  <2> QED  BY <2>2, <2>3
<1> QED  BY <1>4, <1>5, <1>6, <1>7, <1>8 DEF LoopPc

LEMMA CrashSettles ==
  ASSUME ShapeInv, Steady, Crash, ~LostForComplete'
  PROVE  (journal' # NoJournal => FilesSettle') /\ EndsWell
<1>1. /\ target' = target /\ temporary' = temporary /\ journal' = journal
      /\ command' = Idle /\ last'.op = command.op /\ last'.result = "crashed"
      /\ died' = died \cup ({Window} \cap Windows)
  BY DEF Crash, Ended, disk
<1>2. \A g \in File : SameFile(g)
  BY <1>1, NothingChanged DEF Change, Planned, Original
<1>3. ASSUME journal # NoJournal, NEW g \in File PROVE Rests(g)'
  <2>0. FilesSettle  BY <1>3 DEF Steady
  <2>1. CASE command.pc \in LoopPc
    <3>1. g # command.f => Rests(g)  BY <2>1, LoopState
    <3> QED  BY <1>2, <2>1, <3>1, CrashRests, FileKept
  <2>2. CASE command.pc \in EndPc
    BY <1>2, <2>2, EndState, FileKept
  <2>3. CASE command.pc = "idle"
    BY <1>2, <2>0, <2>3, IdleFacts, FileKept DEF FilesSettle
  <2>4. CASE command.pc = "record staged"
    <3>1. command.pc \in died'
      BY <1>1, <2>4 DEF Window, Windows
    <3> QED  BY <2>4, <3>1 DEF LostForComplete
  <2>5. CASE command.pc \in {"mkdir", "stage", "recheck"}
    <3>1. Rests(g) \/ Untouched(g) \/ Staged(g)
      BY <2>0, <2>5 DEF FilesSettle, At
    <3> QED  BY <1>2, <3>1, UntouchedRests, FileKept
  <2>6. command.pc \in Pc
    BY DEF ShapeInv, CommandOK
  <2> QED  BY <2>1, <2>2, <2>3, <2>4, <2>5, <2>6 DEF Pc, LoopPc, EndPc
<1>4. journal' # NoJournal => FilesSettle'
  BY <1>1, <1>3, StopSettles
<1> QED  BY <1>1, <1>4 DEF EndsWell

(***************************************************************************)
(* The invariant, and what follows from it.                                *)
(***************************************************************************)
LEMMA StepSettles ==
  ASSUME ShapeInv, CleanupInv, Steady, ~LostForComplete, Step
  PROVE  (journal' # NoJournal => FilesSettle') /\ (GoesOn \/ EndsWell)
BY PrepareDirectoriesSettles, StageTemporarySettles, RecordStagedSettles, MarkPreparedSettles,
   BeginCommitSettles, RecordEndpointSettles, KeepTemporarySettles, DropTemporarySettles,
   StageReplacementSettles, StageDeletionTombstoneSettles, RecordTemporarySettles,
   SecondCompareSettles, PublishChangeSettles, UnlinkPublishedTemporarySettles,
   MarkValidatingSettles, CheckResultSettles, CleanupTemporarySettles,
   RollbackDirectoriesSettles, RemoveJournalSettles DEF Step

LEMMA StepQuiet ==
  ASSUME Step \/ Execute \/ Complete \/ Rollback \/ Crash
  PROVE  drift' = drift /\ stray' = stray /\ died \subseteq died'
<1> USE DEF Continues, Fail, environment
<1>1. Execute => drift' = drift /\ stray' = stray /\ died' = died
  BY DEF Execute
<1>2. CASE Step
  BY <1>2 DEF Step, PrepareDirectories, StageTemporary, RecordStaged, MarkPrepared,
    BeginCommit, RecordEndpoint, KeepTemporary, DropTemporary, StageReplacement,
    StageDeletionTombstone, RecordTemporary, SecondCompare, PublishChange,
    UnlinkPublishedTemporary, MarkValidating, CheckResult, CleanupTemporary,
    RollbackDirectories, RemoveJournal
<1>3. Complete \/ Rollback => drift' = drift /\ stray' = stray /\ died \subseteq died'
  BY DEF Complete, Rollback, Recover
<1>4. Crash => drift' = drift /\ stray' = stray /\ died \subseteq died'
  BY DEF Crash
<1> QED  BY <1>1, <1>2, <1>3, <1>4

\* A command that went on, or ended well, leaves what the next one relies on.
LEMMA OutcomeSettles ==
  ASSUME Steady, ResultsOK, drift' = drift, stray' = stray,
         journal' # NoJournal => FilesSettle', GoesOn \/ EndsWell
  PROVE  Steady' /\ ResultsOK'
<1>1. CASE GoesOn
  BY <1>1 DEF GoesOn, Steady, ResultsOK, Refused
<1>2. CASE EndsWell
  <2>1. Steady'
    BY <1>2, IdleFields DEF EndsWell, Steady
  <2>2. ResultsOK'
    BY <1>2 DEF EndsWell, ResultsOK, Refused, AcceptedFileSet
  <2> QED  BY <2>1, <2>2
<1> QED  BY <1>1, <1>2

LEMMA StutterSettles ==
  ASSUME UNCHANGED vars, FilesSettle
  PROVE  FilesSettle'
<1>1. /\ target' = target /\ temporary' = temporary /\ journal' = journal
      /\ command' = command /\ died' = died
  BY DEF vars, disk
<1>2. \A g \in File : SameFile(g)
  BY <1>1, NothingChanged DEF Change, Planned, Original
<1>3. /\ DesiredSide' = DesiredSide /\ ExpectedSide' = ExpectedSide
      /\ \A f : Desires(f)' <=> Desires(f)
  BY <1>1, SameSides
<1>4. ASSUME NEW f \in File, AtWork(f) PROVE AtWork(f)'
  <2>1. /\ Rests(f) => Rests(f)'
        /\ Waits(f) => Waits(f)'
        /\ Pending(f) => Pending(f)'
    BY <1>1, <1>2, FileKept
  <2>2. /\ IsAccounted(f)' <=> IsAccounted(f)
        /\ \A s : Stands(f, s)' <=> Stands(f, s)
        /\ \A s : Held(f, s)' <=> Held(f, s)
        /\ \A s : Published(f, s)' <=> Published(f, s)
    BY <1>2, PairKept
  <2>3. Planned(f)' = Planned(f)
    BY DEF Planned, Original
  <2>4. Linked(f) => Linked(f)'
    BY <1>1 DEF Linked, Exists
  <2>5. SameFileObject(target[f], journal.temporary[f].state)'
          <=> SameFileObject(target[f], journal.temporary[f].state)
    BY <1>1 DEF SameFileObject, Exists
  <2> QED  BY <1>1, <1>3, <1>4, <2>1, <2>2, <2>3, <2>4, <2>5 DEF AtWork, At
<1>5. ASSUME NEW f \in File, NEW g \in File, Beside(g, f) PROVE Beside(g, f)'
  BY <1>1, <1>2, <1>5, BesideKept
<1>6. ASSUME NEW g \in File
      PROVE  /\ Rests(g) => Rests(g)'
             /\ Untouched(g) => Untouched(g)'
             /\ Staged(g) => Staged(g)'
             /\ Done(g) => Done(g)'
             /\ Stands(g, "before") => Stands(g, "before")'
  <2>0. SameFile(g)  BY <1>2
  <2>1. /\ Rests(g) => Rests(g)'
        /\ Untouched(g) => Untouched(g)'
        /\ Staged(g) => Staged(g)'
        /\ Done(g) => Done(g)'
    BY <1>3, <2>0, FileKept
  <2>2. Stands(g, "before")' <=> Stands(g, "before")
    BY <2>0, PairKept
  <2> QED  BY <2>1, <2>2
<1>7. /\ command' = Idle => \A g \in File : Rests(g)'
      /\ At("mkdir")' =>
           \A g \in File : IF command'.op = "execute" THEN Untouched(g)' ELSE Rests(g)'
      /\ At("recheck")' => \A g \in File : Staged(g)'
      /\ command'.pc \in EndPc => \A g \in File : Done(g)'
  BY <1>1, <1>6 DEF FilesSettle, At
<1>8. /\ At("stage")' =>
           \A g \in File : IF g < command'.f THEN Staged(g)' ELSE Untouched(g)'
      /\ At("record staged")' =>
           \A g \in File : /\ g < command'.f => Staged(g)'
                           /\ g = command'.f => Stands(g, "before")'
                           /\ g > command'.f => Untouched(g)'
  BY <1>1, <1>6 DEF FilesSettle, At
<1>9. command'.pc \in LoopPc =>
        \A f \in File : f = command'.f =>
          AtWork(f)' /\ \A g \in File \ {f} : Beside(g, f)'
  BY <1>1, <1>4, <1>5 DEF FilesSettle
<1> QED
  BY <1>7, <1>8, <1>9 DEF FilesSettle

LEMMA SettleStep ==
  ShapeInv /\ PositionInv /\ CleanupInv /\ SettleInv /\ [Next]_vars => SettleInv'
<1> SUFFICES ASSUME ShapeInv, PositionInv, CleanupInv, SettleInv, [Next]_vars,
                    Undisturbed', ~LostForComplete'
             PROVE  Steady' /\ ResultsOK'
  BY DEF SettleInv
<1>1. /\ Undisturbed
      /\ \/ Execute \/ Step \/ Complete \/ Rollback \/ Crash
         \/ UNCHANGED vars
  BY StaysDisturbed
<1>2. CASE UNCHANGED vars
  <2>1. /\ target' = target /\ temporary' = temporary /\ journal' = journal
        /\ command' = command /\ died' = died /\ last' = last /\ drift' = drift
        /\ stray' = stray
    BY <1>2 DEF vars, disk, environment
  <2>2. Steady /\ ResultsOK
    BY <1>1, <2>1 DEF SettleInv, LostForComplete
  <2>3. ResultsOK'
    BY <2>1, <2>2 DEF ResultsOK, Refused, UnpublishedCreation, AcceptedFileSet
  <2>4. journal' # NoJournal => FilesSettle'
    BY <1>2, <2>1, <2>2, StutterSettles DEF Steady
  <2> QED  BY <2>1, <2>2, <2>3, <2>4 DEF Steady
<1>3. CASE Execute \/ Step \/ Complete \/ Rollback \/ Crash
  <2>1. drift' = drift /\ stray' = stray /\ died \subseteq died'
    BY <1>3, StepQuiet
  <2>2. ~LostForComplete
    BY <2>1 DEF LostForComplete
  <2>3. Steady /\ ResultsOK
    BY <1>1, <2>2 DEF SettleInv
  <2>4. CASE Step
    BY <2>1, <2>2, <2>3, <2>4, StepSettles, OutcomeSettles
  <2>5. CASE Crash
    BY <2>1, <2>3, <2>5, CrashSettles, OutcomeSettles
  <2>6. CASE Execute
    BY <2>1, <2>3, <2>6, ExecuteSettles, IdleFields DEF Steady, ResultsOK, Refused
  <2>7. ASSUME NEW op \in {"complete", "rollback"}, Recover(op)
        PROVE  Steady' /\ ResultsOK'
    BY <1>1, <2>1, <2>3, <2>7, RecoverSettles DEF Steady, ResultsOK, Refused
  <2> QED  BY <1>3, <2>4, <2>5, <2>6, <2>7 DEF Complete, Rollback
<1> QED  BY <1>1, <1>2, <1>3

LEMMA InitSettles == Init => SettleInv
BY IdleFields DEF Init, SettleInv, Steady, ResultsOK, Refused

LEMMA SettleInvariant == Spec => [](ShapeInv /\ PositionInv /\ CleanupInv /\ SettleInv)
<1>1. ShapeInv /\ PositionInv /\ CleanupInv /\ SettleInv /\ [Next]_vars => SettleInv'
  BY SettleStep
<1> QED
  BY InitSettles, <1>1, PositionInvariant, CleanupInvariant, PTL DEF Spec

\* While nobody edits the files, a `complete` is never refused, unless a command
\* before it died in a window: for any plan, however often they crash
\* (commands/context-transaction.ts:109-110).
THEOREM CompletionSettles == Spec => []CompleteSettles
<1>1. SettleInv => CompleteSettles
  BY DEF SettleInv, CompleteSettles, Settles, ResultsOK, Refused
<1> QED  BY <1>1, SettleInvariant, PTL

\* The same of `rollback`, once the journal has every creation, for the file sets
\* that the commands plan (commands/context-transaction.ts:109-110).
THEOREM RollbacksSettle ==
  ASSUME AcceptedFileSet
  PROVE  Spec => []RollbackSettles
<1>1. SettleInv => RollbackSettles
  BY DEF SettleInv, RollbackSettles, Settles, ResultsOK, Refused, LostForComplete
<1> QED  BY <1>1, SettleInvariant, PTL
=============================================================================
