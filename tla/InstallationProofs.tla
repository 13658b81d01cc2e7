-------------------------- MODULE InstallationProofs --------------------------
(***************************************************************************)
(* `init` and `sync`, for any commands, folders, configurations and texts: *)
(* there is one installation, nothing is written past the schema guard,    *)
(* and a sync keeps the lines of people.                                   *)
(*                                                                         *)
(* The first two rest on what a command that has the lock may still rely   *)
(* on: the guard it passed, the folder it looked up, and the check that it *)
(* does not relocate an installation.  People who edit package.json or     *)
(* config.yaml break it, so it is said of the behaviours before an edit.   *)
(* The last one rests on what mergeManagedBlock returns for a text.        *)
(***************************************************************************)
EXTENDS Installation, TLAPS, FiniteSetTheorems, WellFoundedInduction, SequenceTheorems

\* Where a command has the lock.
UnderLock == {"root", "package", "replace package", "config", "write config",
              "manifest", "global", "startup", "prepare", "write", "replace agents"}
\* And there, where it records the folder.
RecordPc == {"root", "package", "replace package"}

TypesOK ==
  /\ sources \in [1..4 -> Root \cup {None}]
  /\ DOMAIN config = Root
  /\ DOMAIN memory = Proc

\* A command is on its way to record a folder only if it was given one.
FolderOK(p) ==
  /\ memory[p].pc # "idle" => {"command", "folder"} \subseteq DOMAIN memory[p]
  /\ memory[p].pc = "guard" => memory[p].folder \in Root \cup {None}
  /\ memory[p].pc \in {"lock package"} \cup RecordPc =>
       memory[p].folder \in Root \ {None}

\* A command that has the lock has passed the guard, and a Context transaction
\* that is unfinished lets it record the folder only.
LockOK(p) ==
  memory[p].pc \in UnderLock =>
    /\ lock = p
    /\ GuardPasses
    /\ memory[p].pc \notin RecordPc => unfinished # "mutation"

\* What a command under the lock has looked up still is so.
CaptureOK(p) ==
  /\ memory[p].pc \in {"package", "replace package"} =>
       ~RelocatesInstallation(memory[p].folder)
  /\ memory[p].pc = "write config" => memory[p].root = HarnessRoot

\* No folder but the one that commands find has a config.yaml.
OneConfig == \A r \in Root : config[r].schema # "absent" => r = HarnessRoot

InstallInv ==
  /\ TypesOK /\ edits \in Nat
  /\ \A p \in Proc : FolderOK(p)
  /\ edits = 0 => OneConfig /\ \A p \in Proc : LockOK(p) /\ CaptureOK(p)
-----------------------------------------------------------------------------
(***************************************************************************)
(* Where the installation is.                                              *)
(***************************************************************************)
\* The first folder that is named, and a folder in package.json is the first.
LEMMA HarnessRootIs ==
  ASSUME NEW s \in [1..4 -> Root \cup {None}], sources = s
  PROVE  /\ HarnessRoot \in Root
         /\ s[1] # None => HarnessRoot = s[1]
<1> DEFINE named == {i \in DOMAIN s : s[i] # None}
           first == CHOOSE i \in named : \A j \in named : i <= j
<1>1. DOMAIN s = 1..4 /\ named \subseteq 1..4
  OBVIOUS
<1>2. HarnessRoot = IF named = {} THEN DefaultRoot ELSE s[first]
  BY DEF HarnessRoot
<1>3. named # {} => first \in named /\ \A j \in named : first <= j
  <2> HIDE DEF named
  <2> SUFFICES ASSUME named # {} PROVE \E i \in named : \A j \in named : i <= j
    OBVIOUS
  <2>1. CASE 1 \in named
    BY <1>1, <2>1
  <2>2. CASE 1 \notin named /\ 2 \in named
    BY <1>1, <2>2
  <2>3. CASE 1 \notin named /\ 2 \notin named /\ 3 \in named
    BY <1>1, <2>3
  <2>4. CASE 1 \notin named /\ 2 \notin named /\ 3 \notin named
    <3>1. \A i \in named : i = 4
      <4> TAKE i \in named
      <4>1. i \in 1..4 /\ i # 1 /\ i # 2 /\ i # 3
        BY <1>1, <2>4
      <4> QED
        BY <4>1
    <3> QED
      BY <3>1
  <2> QED
    BY <2>1, <2>2, <2>3, <2>4
<1>4. HarnessRoot \in Root
  BY <1>2, <1>3, RootAssumption
<1>5. ASSUME s[1] # None PROVE HarnessRoot = s[1]
  <2>1. 1 \in named
    BY <1>5
  <2>2. first \in 1..4 /\ first <= 1
    BY <1>1, <1>3, <2>1
  <2>3. first = 1
    BY <2>2
  <2> QED
    BY <1>2, <2>1, <2>3
<1> QED
  BY <1>4, <1>5

\* The command of p goes on, and the others stay where they are.
LEMMA Moves ==
  ASSUME TypesOK, NEW p \in Proc, NEW f, Goes(p, f)
  PROVE  /\ DOMAIN memory' = Proc
         /\ \A q \in Proc \ {p} : memory'[q] = memory[q]
         /\ DOMAIN memory[p] \subseteq DOMAIN memory'[p]
         /\ \A x \in DOMAIN f : memory'[p][x] = f[x]
         /\ \A x \in DOMAIN memory[p] \ DOMAIN f : memory'[p][x] = memory[p][x]
<1>1. memory' = [memory EXCEPT ![p] = Updated(memory[p], f)]
  BY DEF Goes
<1>2. memory'[p] = Updated(memory[p], f)
  BY <1>1 DEF TypesOK
<1> QED
  BY <1>1, <1>2 DEF TypesOK, Updated

LEMMA GoesTo ==
  ASSUME TypesOK, NEW p \in Proc, NEW l, Goto(p, l)
  PROVE  /\ DOMAIN memory' = Proc /\ memory'[p].pc = l
         /\ \A q \in Proc \ {p} : memory'[q] = memory[q]
         /\ DOMAIN memory[p] \subseteq DOMAIN memory'[p]
         /\ "folder" \in DOMAIN memory[p] => memory'[p].folder = memory[p].folder
BY Moves DEF Goto

LEMMA EndsIdle ==
  ASSUME TypesOK, NEW p \in Proc, NEW r, Ends(p, r)
  PROVE  /\ DOMAIN memory' = Proc /\ memory'[p].pc = "idle"
         /\ \A q \in Proc \ {p} : memory'[q] = memory[q]
BY DEF Ends, TypesOK
-----------------------------------------------------------------------------
(***************************************************************************)
(* The inductive invariant.                                                *)
(***************************************************************************)
LEMMA InitInstallInv == Init => InstallInv
<1> SUFFICES ASSUME Init PROVE InstallInv
  OBVIOUS
<1>1. sources \in [1..4 -> Root \cup {None}]
  <2>1. PICK e \in Root \cup {None} : sources = <<None, e, None, None>>
    BY DEF Init
  <2> QED
    BY <2>1
<1>2. HarnessRoot \in Root
  BY <1>1, HarnessRootIs
<1>3. DOMAIN config = Root
  BY DEF Init
<1>4. OneConfig
  <2>1. CASE config = [r \in Root |-> NoConfig]
    BY <2>1 DEF OneConfig, NoConfig
  <2>2. ASSUME NEW c \in InitialConfigs,
               config = [r \in Root |-> IF r = HarnessRoot THEN c ELSE NoConfig]
        PROVE  OneConfig
    BY <2>2 DEF OneConfig, NoConfig
  <2> QED
    BY <2>1, <2>2 DEF Init
<1>5. \A p \in Proc : memory[p].pc = "idle"
  BY DEF Init
<1> QED
  BY <1>1, <1>3, <1>4, <1>5
     DEF Init, InstallInv, TypesOK, FolderOK, LockOK, CaptureOK, UnderLock, RecordPc

\* Of a step of p that leaves the settings alone only p has to give account.
LEMMA QuietStep ==
  ASSUME InstallInv, NEW p \in Proc,
         UNCHANGED <<sources, config, unfinished, edits>>,
         DOMAIN memory' = Proc, \A q \in Proc \ {p} : memory'[q] = memory[q],
         edits = 0 =>
           \/ lock' = lock
           \/ lock = None
           \/ lock = p,
         FolderOK(p)', edits = 0 => LockOK(p)' /\ CaptureOK(p)'
  PROVE  InstallInv'
<1> USE ProcAssumption
<1>1. TypesOK' /\ edits' \in Nat
  BY DEF InstallInv, TypesOK
<1>2. HarnessRoot' = HarnessRoot /\ (GuardPasses' <=> GuardPasses)
  BY DEF HarnessRoot, GuardPasses, Schema
<1>3. OneConfig => OneConfig'
  BY <1>2 DEF OneConfig
<1>4. ASSUME NEW q \in Proc \ {p} PROVE FolderOK(q)'
  BY DEF InstallInv, FolderOK, RecordPc
<1>5. ASSUME NEW q \in Proc \ {p}, edits = 0 PROVE LockOK(q)' /\ CaptureOK(q)'
  <2>1. LockOK(q) /\ CaptureOK(q) /\ memory'[q] = memory[q]
    BY <1>5 DEF InstallInv
  <2>2. lock = q => lock' = q
    BY <1>5
  <2>3. LockOK(q)'
    BY <1>2, <2>1, <2>2 DEF LockOK, RecordPc
  <2>4. \A r : RelocatesInstallation(r)' <=> RelocatesInstallation(r)
    BY <1>2 DEF RelocatesInstallation, Schema
  <2> QED
    BY <1>2, <2>1, <2>3, <2>4 DEF CaptureOK, RecordPc
<1> QED
  BY <1>1, <1>3, <1>4, <1>5 DEF InstallInv

\* A command that stops has the lock no more.
LEMMA StopsStep ==
  ASSUME InstallInv, NEW p \in Proc, NEW r,
         Ends(p, r), UNCHANGED <<sources, config, unfinished, edits>>,
         edits = 0 => lock' = lock \/ lock = p
  PROVE  InstallInv'
<1>1. /\ DOMAIN memory' = Proc /\ memory'[p].pc = "idle"
      /\ \A q \in Proc \ {p} : memory'[q] = memory[q]
  BY EndsIdle DEF InstallInv
<1>2. FolderOK(p)' /\ LockOK(p)' /\ CaptureOK(p)'
  BY <1>1 DEF FolderOK, LockOK, CaptureOK, UnderLock, RecordPc
<1> QED
  BY <1>1, <1>2, QuietStep

LEMMA StopStep ==
  ASSUME InstallInv, NEW p \in Proc, NEW r, Stops(p, r) PROVE InstallInv'
BY StopsStep DEF Stops, files, counters

\* A command under the lock goes on with it.
LEMMA ReadStep ==
  ASSUME InstallInv, NEW p \in Proc, NEW l, Goto(p, l),
         UNCHANGED <<sources, config, unfinished, edits, lock>>,
         memory[p].pc \in UnderLock \ RecordPc,
         l \in UnderLock \ (RecordPc \cup {"write config"})
  PROVE  InstallInv'
<1>1. /\ DOMAIN memory' = Proc /\ memory'[p].pc = l
      /\ \A q \in Proc \ {p} : memory'[q] = memory[q]
      /\ DOMAIN memory[p] \subseteq DOMAIN memory'[p]
  BY GoesTo DEF InstallInv
<1>2. FolderOK(p)'
  BY <1>1 DEF InstallInv, FolderOK, UnderLock, RecordPc
<1>3. GuardPasses' <=> GuardPasses
  BY DEF GuardPasses, Schema, HarnessRoot
<1>4. edits = 0 => LockOK(p)' /\ CaptureOK(p)'
  BY <1>1, <1>3 DEF InstallInv, LockOK, CaptureOK, RecordPc
<1> QED
  BY <1>1, <1>2, <1>4, QuietStep

LEMMA HarnessRootOf ==
  TypesOK => /\ HarnessRoot \in Root
             /\ sources[1] # None => HarnessRoot = sources[1]
BY HarnessRootIs DEF TypesOK

LEMMA GiveStep ==
  ASSUME InstallInv, NEW p \in Proc, Give(p) PROVE InstallInv'
<1>1. PICK command \in {"init", "sync"}, folder \in Root \cup {None} :
        memory' = [memory EXCEPT ![p] =
          [pc |-> "guard", command |-> command, folder |-> folder]]
  BY DEF Give
<1>2. /\ DOMAIN memory' = Proc
      /\ memory'[p] = [pc |-> "guard", command |-> command, folder |-> folder]
      /\ \A q \in Proc \ {p} : memory'[q] = memory[q]
  BY <1>1 DEF InstallInv, TypesOK
<1>3. memory'[p].pc = "guard" /\ memory'[p].folder = folder
  BY <1>2
<1>4. {"command", "folder"} \subseteq DOMAIN memory'[p]
  BY <1>2
<1>5. FolderOK(p)' /\ LockOK(p)' /\ CaptureOK(p)'
  BY <1>3, <1>4 DEF FolderOK, LockOK, CaptureOK, UnderLock, RecordPc
<1>6. UNCHANGED <<sources, config, unfinished, edits, lock>>
  BY DEF Give, files
<1> QED
  BY <1>2, <1>5, <1>6, QuietStep

LEMMA GuardStep ==
  ASSUME InstallInv, NEW p \in Proc, Guard(p) PROVE InstallInv'
<1>1. CASE Stops(p, "refused")
  BY <1>1, StopStep
<1>2. CASE ~ Stops(p, "refused")
  <2>1. /\ memory[p].pc = "guard" /\ Reads
        /\ \/ Goto(p, "lock package") /\ memory[p].folder # None
           \/ Goto(p, "lock")
    BY <1>2 DEF Guard, At
  <2>2. FolderOK(p) /\ TypesOK
    BY DEF InstallInv
  <2>3. memory[p].folder \in Root \cup {None} /\ "folder" \in DOMAIN memory[p]
    BY <2>1, <2>2 DEF FolderOK, RecordPc
  <2>4. /\ DOMAIN memory' = Proc
        /\ \A q \in Proc \ {p} : memory'[q] = memory[q]
        /\ DOMAIN memory[p] \subseteq DOMAIN memory'[p]
        /\ memory'[p].folder = memory[p].folder
        /\ \/ memory'[p].pc = "lock package" /\ memory[p].folder # None
           \/ memory'[p].pc = "lock"
    BY <2>1, <2>2, <2>3, GoesTo
  <2>5. FolderOK(p)' /\ LockOK(p)' /\ CaptureOK(p)'
    BY <2>1, <2>2, <2>3, <2>4 DEF FolderOK, LockOK, CaptureOK, UnderLock, RecordPc
  <2>6. UNCHANGED <<sources, config, unfinished, edits, lock>>
    BY <2>1 DEF Reads, files, counters
  <2> QED
    BY <2>4, <2>5, <2>6, QuietStep
<1> QED
  BY <1>1, <1>2

\* Under the lock the guard has been passed again.
LEMMA TakeLockStep ==
  ASSUME InstallInv, NEW p \in Proc, TakeLock(p) PROVE InstallInv'
<1>1. CASE Stops(p, "refused")
  BY <1>1, StopStep
<1>2. CASE ~ Stops(p, "refused")
  <2>1. /\ memory[p].pc \in {"lock package", "lock"} /\ lock = None
        /\ GuardPasses /\ lock' = p
        /\ UNCHANGED <<sources, config, unfinished, edits>>
    BY <1>2 DEF TakeLock, GuardedAgain, files, counters
  <2>2. \/ Goto(p, "root") /\ memory[p].pc = "lock package"
        \/ /\ unfinished # "mutation"
           /\ Goto(p, "config") \/ Goto(p, "startup")
    BY <1>2 DEF TakeLock, At
  <2>3. FolderOK(p) /\ TypesOK
    BY DEF InstallInv
  <2>4. "folder" \in DOMAIN memory[p]
    BY <2>1, <2>3 DEF FolderOK, RecordPc
  <2>5. /\ DOMAIN memory' = Proc
        /\ \A q \in Proc \ {p} : memory'[q] = memory[q]
        /\ DOMAIN memory[p] \subseteq DOMAIN memory'[p]
        /\ memory'[p].folder = memory[p].folder
        /\ \/ memory'[p].pc = "root" /\ memory[p].pc = "lock package"
           \/ memory'[p].pc \in {"config", "startup"} /\ unfinished # "mutation"
    BY <2>2, <2>3, <2>4, GoesTo
  <2>6. GuardPasses'
    BY <2>1 DEF GuardPasses, Schema, HarnessRoot
  <2>7. FolderOK(p)' /\ LockOK(p)' /\ CaptureOK(p)'
    BY <2>1, <2>3, <2>5, <2>6 DEF FolderOK, LockOK, CaptureOK, UnderLock, RecordPc
  <2> QED
    BY <2>1, <2>5, <2>7, QuietStep
<1> QED
  BY <1>1, <1>2

\* The folder that is recorded has the only installation there is, or there is
\* none.
LEMMA FolderRecordedStep ==
  ASSUME InstallInv, NEW p \in Proc, memory[p].pc \in RecordPc,
         sources' = [sources EXCEPT ![1] = memory[p].folder], FolderRecorded(p),
         edits = 0 => ~RelocatesInstallation(memory[p].folder)
  PROVE  InstallInv'
<1> DEFINE r == memory[p].folder
<1>1. /\ lock' = None
      /\ Goes(p, [pc |-> "guard", folder |-> None])
      /\ UNCHANGED <<config, unfinished, edits>>
  BY DEF FolderRecorded, counters
<1>2. /\ TypesOK /\ FolderOK(p) /\ r \in Root \ {None}
  BY <1>1 DEF InstallInv, FolderOK, RecordPc
<1>3. /\ DOMAIN memory' = Proc
      /\ \A q \in Proc \ {p} : memory'[q] = memory[q]
      /\ DOMAIN memory[p] \subseteq DOMAIN memory'[p]
      /\ memory'[p].folder = None /\ memory'[p].pc = "guard"
  BY <1>1, <1>2, Moves
<1>4. TypesOK' /\ sources'[1] = r
  BY <1>1, <1>2, <1>3 DEF TypesOK
<1>5. HarnessRoot' = r
  <2>1. TypesOK' => (sources[1] # None => HarnessRoot = sources[1])'
    BY HarnessRootOf, PTL
  <2> QED
    BY <1>2, <1>4, <2>1
<1>6. \A q \in Proc : FolderOK(q)'
  <2>1. FolderOK(p)'
    BY <1>1, <1>2, <1>3 DEF FolderOK, RecordPc
  <2>2. \A q \in Proc \ {p} : FolderOK(q)'
    BY <1>3 DEF InstallInv, FolderOK, RecordPc
  <2> QED
    BY <2>1, <2>2
<1>7. ASSUME edits = 0 PROVE OneConfig' /\ \A q \in Proc : LockOK(q)' /\ CaptureOK(q)'
  <2>1. OneConfig /\ LockOK(p) /\ CaptureOK(p)
    BY <1>7 DEF InstallInv
  <2>2. OneConfig'
    <3>1. HarnessRoot = r \/ (Schema = "absent" /\ config[r].schema = "absent")
      BY <1>7 DEF RelocatesInstallation
    <3>2. \A s \in Root : config[s].schema # "absent" => s = r
      BY <2>1, <3>1 DEF OneConfig, Schema
    <3> QED
      BY <1>1, <1>5, <3>2 DEF OneConfig
  <2>3. lock = p
    BY <1>1, <2>1 DEF LockOK, UnderLock, RecordPc
  <2>4. \A q \in Proc : memory'[q].pc \notin UnderLock
    <3>1. \A q \in Proc \ {p} : memory[q].pc \in UnderLock => lock = q
      BY <1>7 DEF InstallInv, LockOK, RecordPc
    <3>2. "guard" \notin UnderLock
      BY DEF UnderLock
    <3> QED
      BY <1>3, <2>3, <3>1, <3>2
  <2>5. \A q \in Proc : LockOK(q)' /\ CaptureOK(q)'
    BY <2>4 DEF LockOK, CaptureOK, UnderLock, RecordPc
  <2> QED
    BY <2>2, <2>5
<1> QED
  BY <1>1, <1>4, <1>6, <1>7 DEF InstallInv

LEMMA CapturePackageStep ==
  ASSUME InstallInv, NEW p \in Proc, CapturePackage(p) PROVE InstallInv'
<1>1. CASE Stops(p, "refused")
  BY <1>1, StopStep
<1>2. CASE /\ ~RelocatesInstallation(memory[p].folder) /\ sources[1] = memory[p].folder
           /\ FolderRecorded(p) /\ UNCHANGED sources
  <2>1. sources' = [sources EXCEPT ![1] = memory[p].folder]
    BY <1>2 DEF InstallInv, TypesOK
  <2> QED
    BY <1>2, <2>1, FolderRecordedStep DEF CapturePackage, At, RecordPc
<1>3. CASE /\ ~RelocatesInstallation(memory[p].folder)
           /\ Reads /\ Goes(p, [pc |-> "package", package |-> package])
  <2>1. /\ memory[p].pc = "root"
        /\ ~RelocatesInstallation(memory[p].folder)
        /\ Reads /\ Goes(p, [pc |-> "package", package |-> package])
    BY <1>3 DEF CapturePackage, At
  <2>2. UNCHANGED <<sources, config, unfinished, edits, lock>>
    BY <2>1 DEF Reads, files, counters
  <2>3. FolderOK(p) /\ TypesOK /\ (edits = 0 => LockOK(p))
    BY DEF InstallInv
  <2>4. memory[p].folder \in Root \ {None} /\ "folder" \in DOMAIN memory[p]
    BY <2>1, <2>3 DEF FolderOK, RecordPc
  <2>5. /\ DOMAIN memory' = Proc
        /\ \A q \in Proc \ {p} : memory'[q] = memory[q]
        /\ DOMAIN memory[p] \subseteq DOMAIN memory'[p]
        /\ memory'[p].folder = memory[p].folder /\ memory'[p].pc = "package"
    BY <2>1, <2>3, <2>4, Moves
  <2>6. /\ GuardPasses' <=> GuardPasses
        /\ RelocatesInstallation(memory[p].folder)'
             <=> RelocatesInstallation(memory[p].folder)
    BY <2>2, <2>5 DEF GuardPasses, Schema, HarnessRoot, RelocatesInstallation
  <2>7. FolderOK(p)' /\ (edits = 0 => LockOK(p)' /\ CaptureOK(p)')
    BY <2>1, <2>2, <2>3, <2>4, <2>5, <2>6 DEF FolderOK, LockOK, CaptureOK, UnderLock, RecordPc
  <2> QED
    BY <2>2, <2>5, <2>7, QuietStep
<1> QED
  BY <1>1, <1>2, <1>3 DEF CapturePackage

LEMMA ComparePackageStep ==
  ASSUME InstallInv, NEW p \in Proc, ComparePackage(p) PROVE InstallInv'
<1>1. CASE Stops(p, "conflict")
  BY <1>1, StopStep
<1>2. CASE Reads /\ Goto(p, "replace package")
  <2>1. memory[p].pc = "package" /\ UNCHANGED <<sources, config, unfinished, edits, lock>>
    BY <1>2 DEF ComparePackage, At, Reads, files, counters
  <2>2. FolderOK(p) /\ TypesOK /\ (edits = 0 => LockOK(p) /\ CaptureOK(p))
    BY DEF InstallInv
  <2>3. "folder" \in DOMAIN memory[p]
    BY <2>1, <2>2 DEF FolderOK
  <2>4. /\ DOMAIN memory' = Proc /\ memory'[p].pc = "replace package"
        /\ \A q \in Proc \ {p} : memory'[q] = memory[q]
        /\ DOMAIN memory[p] \subseteq DOMAIN memory'[p]
        /\ memory'[p].folder = memory[p].folder
    BY <1>2, <2>2, <2>3, GoesTo
  <2>5. /\ GuardPasses' <=> GuardPasses
        /\ RelocatesInstallation(memory[p].folder)'
             <=> RelocatesInstallation(memory[p].folder)
    BY <2>1, <2>4 DEF GuardPasses, Schema, HarnessRoot, RelocatesInstallation
  <2>6. FolderOK(p)' /\ (edits = 0 => LockOK(p)' /\ CaptureOK(p)')
    BY <2>1, <2>2, <2>4, <2>5 DEF FolderOK, LockOK, CaptureOK, UnderLock, RecordPc
  <2> QED
    BY <2>1, <2>4, <2>6, QuietStep
<1> QED
  BY <1>1, <1>2 DEF ComparePackage

LEMMA ReplacePackageStep ==
  ASSUME InstallInv, NEW p \in Proc, ReplacePackage(p) PROVE InstallInv'
<1>1. /\ memory[p].pc = "replace package" /\ FolderRecorded(p)
      /\ sources' = [sources EXCEPT ![1] = memory[p].folder]
  BY DEF ReplacePackage, At
<1>2. edits = 0 => ~RelocatesInstallation(memory[p].folder)
  BY <1>1 DEF InstallInv, CaptureOK
<1> QED
  BY <1>1, <1>2, FolderRecordedStep DEF RecordPc

LEMMA CaptureConfigStep ==
  ASSUME InstallInv, NEW p \in Proc, CaptureConfig(p) PROVE InstallInv'
<1>1. memory[p].pc = "config" /\ UNCHANGED <<sources, config, unfinished, edits, lock>>
  BY DEF CaptureConfig, At, Reads, files, counters
<1>2. CASE Goto(p, "manifest")
  BY <1>1, <1>2, ReadStep DEF UnderLock, RecordPc
<1>3. CASE Goes(p, [pc |-> "write config", root |-> HarnessRoot])
  <2>1. /\ DOMAIN memory' = Proc
        /\ \A q \in Proc \ {p} : memory'[q] = memory[q]
        /\ DOMAIN memory[p] \subseteq DOMAIN memory'[p]
        /\ memory'[p].root = HarnessRoot /\ memory'[p].pc = "write config"
    <3> DEFINE f == [pc |-> "write config", root |-> HarnessRoot]
    <3>1. Goes(p, f) /\ DOMAIN f = {"pc", "root"}
          /\ f["pc"] = "write config" /\ f["root"] = HarnessRoot
      BY <1>3
    <3> HIDE DEF f
    <3>2. TypesOK
      BY DEF InstallInv
    <3>3. /\ DOMAIN memory' = Proc
          /\ \A q \in Proc \ {p} : memory'[q] = memory[q]
          /\ memory'[p] = Updated(memory[p], f)
      BY <3>1, <3>2 DEF Goes, TypesOK
    <3>5. /\ DOMAIN memory[p] \subseteq DOMAIN memory'[p]
          /\ \A x \in DOMAIN f : memory'[p][x] = f[x]
      BY <3>3 DEF Updated
    <3>4. memory'[p]["root"] = HarnessRoot /\ memory'[p]["pc"] = "write config"
      BY <3>1, <3>5
    <3> QED
      BY <3>3, <3>4, <3>5
  <2>2. FolderOK(p)'
    BY <1>1, <2>1 DEF InstallInv, FolderOK, RecordPc
  <2>3. HarnessRoot' = HarnessRoot /\ (GuardPasses' <=> GuardPasses)
    BY <1>1 DEF GuardPasses, Schema, HarnessRoot
  <2>4. edits = 0 => LockOK(p)' /\ CaptureOK(p)'
    BY <1>1, <2>1, <2>3 DEF InstallInv, LockOK, CaptureOK, UnderLock, RecordPc
  <2> QED
    BY <1>1, <2>1, <2>2, <2>4, QuietStep
<1> QED
  BY <1>2, <1>3 DEF CaptureConfig

\* The configuration is written where commands look for it.
LEMMA WriteConfigStep ==
  ASSUME InstallInv, NEW p \in Proc, WriteConfig(p) PROVE InstallInv'
<1>1. CASE Stops(p, "conflict")
  BY <1>1, StopStep
<1>2. CASE ~ Stops(p, "conflict")
  <2> DEFINE r == memory[p].root
  <2>1. /\ memory[p].pc = "write config" /\ Goto(p, "manifest")
        /\ config' = [config EXCEPT ![r] =
             [schema |-> "current", startup |-> "managed"]]
        /\ UNCHANGED <<sources, unfinished, edits, lock>>
    BY <1>2 DEF WriteConfig, At, counters
  <2>2. TypesOK /\ FolderOK(p)
    BY DEF InstallInv
  <2>3. /\ DOMAIN memory' = Proc /\ memory'[p].pc = "manifest"
        /\ \A q \in Proc \ {p} : memory'[q] = memory[q]
        /\ DOMAIN memory[p] \subseteq DOMAIN memory'[p]
    BY <2>1, <2>2, GoesTo
  <2>4. TypesOK'
    BY <2>1, <2>2, <2>3 DEF TypesOK
  <2>5. \A q \in Proc : FolderOK(q)'
    <3>1. FolderOK(p)'
      BY <2>1, <2>2, <2>3 DEF FolderOK, RecordPc
    <3>2. \A q \in Proc \ {p} : FolderOK(q)'
      BY <2>3 DEF InstallInv, FolderOK, RecordPc
    <3> QED
      BY <3>1, <3>2
  <2>6. ASSUME edits = 0 PROVE OneConfig' /\ \A q \in Proc : LockOK(q)' /\ CaptureOK(q)'
    <3>1. OneConfig /\ LockOK(p) /\ CaptureOK(p)
      BY <2>6 DEF InstallInv
    <3>2. HarnessRoot' = HarnessRoot /\ HarnessRoot \in Root /\ r = HarnessRoot
      BY <2>1, <2>2, <3>1, HarnessRootOf DEF HarnessRoot, CaptureOK, RecordPc
    <3>3. OneConfig'
      BY <2>1, <2>2, <3>1, <3>2 DEF OneConfig, TypesOK
    <3>4. lock = p /\ unfinished # "upgrade" /\ unfinished # "mutation"
      BY <2>1, <3>1 DEF LockOK, UnderLock, GuardPasses, RecordPc
    <3>5. config'[r].schema = "current"
      BY <2>1, <2>2, <3>2 DEF TypesOK
    <3>6. GuardPasses'
      BY <2>1, <3>2, <3>4, <3>5 DEF GuardPasses, Schema
    <3>7. LockOK(p)' /\ CaptureOK(p)'
      BY <2>1, <2>3, <3>4, <3>6 DEF LockOK, CaptureOK, RecordPc
    <3>8. ASSUME NEW q \in Proc \ {p} PROVE LockOK(q)' /\ CaptureOK(q)'
      <4>1. LockOK(q) /\ memory'[q] = memory[q]
        BY <2>3, <2>6 DEF InstallInv
      <4>2. memory'[q].pc \notin UnderLock
        BY <3>4, <4>1 DEF LockOK, RecordPc
      <4> QED
        BY <4>2 DEF LockOK, CaptureOK, UnderLock, RecordPc
    <3> QED
      BY <3>3, <3>7, <3>8
  <2> QED
    BY <2>1, <2>4, <2>5, <2>6 DEF InstallInv
<1> QED
  BY <1>1, <1>2

LEMMA WriteContextStep ==
  ASSUME InstallInv, NEW p \in Proc, WriteContext(p) PROVE InstallInv'
<1>1. /\ memory[p].pc \in {"manifest", "global"}
      /\ UNCHANGED <<sources, config, unfinished, edits, lock>>
      /\ Goto(p, "global") \/ Goto(p, "startup")
  BY DEF WriteContext, At, ContextFile, counters
<1> QED
  BY <1>1, ReadStep DEF UnderLock, RecordPc

LEMMA StartupStep ==
  ASSUME InstallInv, NEW p \in Proc, ReadConfig(p) \/ Prepare(p) PROVE InstallInv'
<1>1. CASE \E r : Stops(p, r)
  BY <1>1, StopStep
<1>2. CASE ReadConfig(p) /\ ~ \E r : Stops(p, r)
  <2>1. /\ memory[p].pc = "startup" /\ Reads /\ Goto(p, "prepare")
    BY <1>2 DEF ReadConfig, At
  <2> QED
    BY <2>1, ReadStep DEF UnderLock, RecordPc, Reads, files, counters
<1>3. CASE Prepare(p) /\ ~ \E r : Stops(p, r)
  <2>1. /\ memory[p].pc = "prepare" /\ Reads
        /\ Goes(p, [pc |-> "write", agents |-> agents, next |-> Merge(agents.text)])
    BY <1>3 DEF Prepare, At
  <2>2. UNCHANGED <<sources, config, unfinished, edits, lock>>
    BY <2>1 DEF Reads, files, counters
  <2>3. /\ DOMAIN memory' = Proc
        /\ \A q \in Proc \ {p} : memory'[q] = memory[q]
        /\ DOMAIN memory[p] \subseteq DOMAIN memory'[p]
        /\ memory'[p].pc = "write"
    BY <2>1, Moves DEF InstallInv
  <2>4. FolderOK(p)'
    BY <2>1, <2>3 DEF InstallInv, FolderOK, RecordPc
  <2>5. GuardPasses' <=> GuardPasses
    BY <2>2 DEF GuardPasses, Schema, HarnessRoot
  <2>6. edits = 0 => LockOK(p)' /\ CaptureOK(p)'
    BY <2>1, <2>2, <2>3, <2>5 DEF InstallInv, LockOK, CaptureOK, UnderLock, RecordPc
  <2> QED
    BY <2>2, <2>3, <2>4, <2>6, QuietStep
<1> QED
  BY <1>1, <1>2, <1>3

LEMMA CompareAgentsStep ==
  ASSUME InstallInv, NEW p \in Proc, CompareAgents(p) PROVE InstallInv'
<1>1. CASE \E r : Stops(p, r)
  BY <1>1, StopStep
<1>2. CASE ~ \E r : Stops(p, r)
  <2>1. /\ memory[p].pc = "write" /\ Goto(p, "replace agents")
        /\ UNCHANGED <<sources, config, unfinished, edits, lock>>
    BY <1>2 DEF CompareAgents, At, counters
  <2> QED
    BY <2>1, ReadStep DEF UnderLock, RecordPc
<1> QED
  BY <1>1, <1>2

LEMMA ReplaceAgentsStep ==
  ASSUME InstallInv, NEW p \in Proc, ReplaceAgents(p) PROVE InstallInv'
<1>1. CASE \E r : Stops(p, r)
  BY <1>1, StopStep
<1>2. CASE ~ \E r : Stops(p, r)
  <2>1. /\ memory[p].pc = "replace agents" /\ Ends(p, "ok")
        /\ UNCHANGED <<sources, config, unfinished, edits>>
    BY <1>2 DEF ReplaceAgents, At, counters
  <2>2. edits = 0 => lock = p
    BY <2>1 DEF InstallInv, LockOK, UnderLock
  <2> QED
    BY <2>1, <2>2, StopsStep
<1> QED
  BY <1>1, <1>2

LEMMA CrashStep ==
  ASSUME InstallInv, NEW p \in Proc, Crash(p) PROVE InstallInv'
BY StopsStep DEF Crash, files

\* Another command works under the lock, so none of these has it.
LEMMA OthersStep ==
  ASSUME InstallInv, OtherBegins \/ OtherEnds PROVE InstallInv'
<1> USE ProcAssumption
<1>1. lock = None /\ UNCHANGED <<sources, memory, edits>>
  <2>1. CASE OtherBegins
    BY <2>1 DEF OtherBegins, files
  <2>2. CASE OtherEnds
    BY <2>2 DEF OtherEnds, counters
  <2> QED
    BY <2>1, <2>2
<1>2. TypesOK' /\ HarnessRoot' = HarnessRoot
  BY <1>1 DEF InstallInv, TypesOK, OtherBegins, OtherEnds, files, HarnessRoot
<1>3. \A q \in Proc : FolderOK(q)'
  BY <1>1 DEF InstallInv, FolderOK, RecordPc
<1>4. ASSUME edits = 0 PROVE OneConfig' /\ \A q \in Proc : LockOK(q)' /\ CaptureOK(q)'
  <2>1. \A q \in Proc : memory'[q].pc \notin UnderLock
    BY <1>1, <1>4 DEF InstallInv, LockOK, RecordPc
  <2>2. \A q \in Proc : LockOK(q)' /\ CaptureOK(q)'
    BY <2>1 DEF LockOK, CaptureOK, UnderLock, RecordPc
  <2>3. \A r \in Root : r # HarnessRoot => config'[r] = config[r]
    BY DEF InstallInv, TypesOK, OtherBegins, OtherEnds, files
  <2>4. OneConfig'
    BY <1>2, <1>4, <2>3 DEF InstallInv, OneConfig
  <2> QED
    BY <2>2, <2>4
<1> QED
  BY <1>1, <1>2, <1>3, <1>4 DEF InstallInv

LEMMA EditStep ==
  ASSUME InstallInv, Edit PROVE InstallInv'
<1>1. edits \in Nat /\ edits' = edits + 1 /\ UNCHANGED memory
  BY DEF InstallInv, Edit
<1>2. TypesOK'
  BY <1>1 DEF InstallInv, TypesOK, Edit
<1>3. \A q \in Proc : FolderOK(q)'
  BY <1>1 DEF InstallInv, FolderOK, RecordPc
<1> QED
  BY <1>1, <1>2, <1>3 DEF InstallInv

LEMMA InstallStep == InstallInv /\ [Next]_vars => InstallInv'
<1> SUFFICES ASSUME InstallInv, [Next]_vars PROVE InstallInv'
  OBVIOUS
<1>1. CASE UNCHANGED vars
  <2>1. /\ UNCHANGED <<sources, config, unfinished, edits, lock, memory>>
    BY <1>1 DEF vars, files, counters
  <2>2. HarnessRoot' = HarnessRoot /\ (GuardPasses' <=> GuardPasses)
        /\ \A r : RelocatesInstallation(r)' <=> RelocatesInstallation(r)
    BY <2>1 DEF HarnessRoot, GuardPasses, Schema, RelocatesInstallation
  <2> QED
    BY <2>1, <2>2 DEF InstallInv, TypesOK, FolderOK, LockOK, CaptureOK, OneConfig, RecordPc
<1>2. ASSUME NEW p \in Proc, \/ Give(p) \/ Guard(p) \/ TakeLock(p) \/ LockHeld(p)
                             \/ CapturePackage(p) \/ ComparePackage(p)
                             \/ ReplacePackage(p)
      PROVE  InstallInv'
  BY <1>2, GiveStep, GuardStep, TakeLockStep, StopStep, CapturePackageStep,
     ComparePackageStep, ReplacePackageStep DEF LockHeld
<1>3. ASSUME NEW p \in Proc, \/ CaptureConfig(p) \/ WriteConfig(p) \/ WriteContext(p)
                             \/ ReadConfig(p) \/ Prepare(p) \/ CompareAgents(p)
                             \/ ReplaceAgents(p) \/ Crash(p)
      PROVE  InstallInv'
  BY <1>3, CaptureConfigStep, WriteConfigStep, WriteContextStep, StartupStep,
     CompareAgentsStep, ReplaceAgentsStep, CrashStep
<1> QED
  BY <1>1, <1>2, <1>3, OthersStep, EditStep DEF Next

\* The lock and what was looked up under it, until people edit the settings.
THEOREM InstallInvariant == Spec => []InstallInv
BY InitInstallInv, InstallStep, PTL DEF Spec

\* However inits with and without a folder interleave, and wherever they die,
\* there is one installation, and it is the one that commands find
\* (writePackageHarnessRoot).
THEOREM ThereIsOneInstallation == Spec => []OneInstallation
<1>1. InstallInv => OneInstallation
  BY DEF InstallInv, OneConfig, OneInstallation
<1> QED
  BY <1>1, InstallInvariant, PTL

LEMMA WritesAreGuarded ==
  ASSUME InstallInv, [Next]_vars, edits' = edits, edits = 0, unfinished' = unfinished,
         <<package, config, context, agents>>' # <<package, config, context, agents>>
  PROVE  /\ GuardPasses
         /\ unfinished = "mutation" => UNCHANGED <<config, context, agents>>
<1>1. PICK p \in Proc :
        ReplacePackage(p) \/ WriteConfig(p) \/ WriteContext(p) \/ ReplaceAgents(p)
  <2>1. ~ UNCHANGED <<package, config, context, agents>>
    OBVIOUS
  <2>2. ASSUME UNCHANGED vars PROVE UNCHANGED <<package, config, context, agents>>
    BY <2>2 DEF vars, files
  <2>3. ASSUME NEW p \in Proc, NEW r, Stops(p, r)
        PROVE  UNCHANGED <<package, config, context, agents>>
    BY <2>3 DEF Stops, files
  <2>4. ASSUME Reads PROVE UNCHANGED <<package, config, context, agents>>
    BY <2>4 DEF Reads, files
  <2>5. ASSUME NEW p \in Proc,
               \/ Give(p) \/ Guard(p) \/ TakeLock(p) \/ LockHeld(p)
               \/ CapturePackage(p) \/ ComparePackage(p) \/ CaptureConfig(p)
               \/ ReadConfig(p) \/ Prepare(p) \/ CompareAgents(p) \/ Crash(p)
        PROVE  UNCHANGED <<package, config, context, agents>>
    <3>1. CASE Give(p)
      BY <3>1 DEF Give, files
    <3>2. CASE Guard(p)
      BY <3>2, <2>3, <2>4 DEF Guard
    <3>3. CASE TakeLock(p)
      BY <3>3, <2>3 DEF TakeLock, files
    <3>4. CASE LockHeld(p)
      BY <3>4, <2>3 DEF LockHeld
    <3>5. CASE CapturePackage(p) \/ ComparePackage(p) \/ CaptureConfig(p)
      BY <3>5, <2>3, <2>4 DEF CapturePackage, ComparePackage, CaptureConfig,
         FolderRecorded
    <3>6. CASE ReadConfig(p)
      BY <3>6, <2>3, <2>4 DEF ReadConfig
    <3>7. CASE Prepare(p)
      BY <3>7, <2>3, <2>4 DEF Prepare
    <3>8. CASE Crash(p)
      BY <3>8 DEF Crash, files
    <3>9. CASE CompareAgents(p)
      BY <3>9, <2>3 DEF CompareAgents
    <3> QED
      BY <2>5, <3>1, <3>2, <3>3, <3>4, <3>5, <3>6, <3>7, <3>8, <3>9
  <2>6. ASSUME OtherBegins PROVE UNCHANGED <<package, config, context, agents>>
    BY <2>6 DEF OtherBegins, files
  <2>7. ~ OtherEnds
    BY DEF OtherEnds
  <2>8. ~ Edit
    BY DEF Edit, InstallInv
  <2> QED
    BY <2>1, <2>2, <2>5, <2>6, <2>7, <2>8 DEF Next
<1>2. memory[p].pc \in UnderLock /\ LockOK(p)
  BY <1>1 DEF ReplacePackage, WriteConfig, WriteContext, ReplaceAgents, At, ContextFile,
     UnderLock, InstallInv
<1>3. CASE ReplacePackage(p)
  BY <1>2, <1>3 DEF LockOK, ReplacePackage, FolderRecorded
<1>4. CASE WriteConfig(p) \/ WriteContext(p) \/ ReplaceAgents(p)
  BY <1>2, <1>4 DEF LockOK, WriteConfig, WriteContext, ReplaceAgents, At, ContextFile,
     RecordPc
<1> QED
  BY <1>1, <1>3, <1>4

\* Before people edit the settings, no command writes while an upgrade is
\* unfinished or the schema is not this version's, and while a Context
\* transaction is unfinished none writes but the record of the folder
\* (assertSupportedSchema under the lock).
THEOREM GuardBeforeWrites == Spec => GuardedWrites
<1>1. InstallInv /\ [Next]_vars =>
        [edits' = edits /\ edits = 0 /\ unfinished' = unfinished
           /\ <<package, config, context, agents>>' # <<package, config, context, agents>> =>
           /\ GuardPasses
           /\ unfinished = "mutation" => UNCHANGED <<config, context, agents>>]_vars
  BY WritesAreGuarded
<1> QED
  BY <1>1, InstallInvariant, PTL DEF Spec, GuardedWrites
-----------------------------------------------------------------------------
(***************************************************************************)
(* The block in a text.                                                    *)
(***************************************************************************)
\* Of a set of numbers up to some length one is the greatest.
LEMMA GreatestOf ==
  ASSUME NEW n \in Nat, NEW S \in SUBSET (0..n), S # {}
  PROVE  Max(S) \in S /\ \A y \in S : Max(S) >= y
<1> DEFINE bounds == {T \in SUBSET (0..n) : S \subseteq T /\ \E m \in 0..n : T = 0..m}
<1>1. bounds \in SUBSET FiniteSubsetsOf(0..n) /\ IsFiniteSet(0..n) /\ 0..n \in bounds
  <2>1. IsFiniteSet(0..n)
    BY FS_Interval
  <2>2. \A T \in bounds : T \in FiniteSubsetsOf(0..n)
    BY <2>1, FS_Subset DEF FiniteSubsetsOf
  <2>3. 0..n \in bounds
    OBVIOUS
  <2> HIDE DEF bounds
  <2> QED
    BY <2>1, <2>2, <2>3
<1>2. PICK T \in bounds : \A U \in bounds : ~(<<U, T>> \in StrictSubsetOrdering(0..n))
  <2> HIDE DEF bounds
  <2> QED
    BY <1>1, FS_StrictSubsetOrderingWellFounded, WFMin
<1>3. PICK m \in 0..n : T = 0..m /\ S \subseteq 0..m
  OBVIOUS
<1>4. ASSUME m \notin S PROVE FALSE
  <2>1. m # 0
    <3>1. PICK y \in S : y \in 0..m
      BY <1>3
    <3> QED
      BY <1>4, <3>1
  <2>2. 0..(m - 1) \in bounds /\ 0..(m - 1) \subseteq 0..m /\ m \notin 0..(m - 1)
    BY <1>3, <1>4, <2>1
  <2>3. <<0..(m - 1), T>> \in StrictSubsetOrdering(0..n)
    BY <1>1, <1>3, <2>2 DEF StrictSubsetOrdering
  <2> QED
    BY <1>2, <2>2, <2>3
<1>5. m \in S /\ \A y \in S : m >= y
  BY <1>3, <1>4
<1> QED
  BY <1>5 DEF Max

\* No marker is in the text.
Clean(text) == \A i \in DOMAIN text, ns \in Namespace : text[i] \notin {Begin(ns), End(ns)}

LEMMA TokenFacts ==
  /\ \A a, b \in Namespace : /\ Begin(a) = Begin(b) <=> a = b
                             /\ End(a) = End(b) <=> a = b
                             /\ Begin(a) # End(b)
  /\ \A ns \in Namespace :
       /\ Core \notin {Begin(ns), End(ns)} /\ Blank \notin {Begin(ns), End(ns)}
       /\ Begin(ns) # Blank /\ End(ns) # Blank
       /\ Begin(ns) \in Token /\ End(ns) \in Token
  /\ Core # Blank /\ {Core, Blank} \subseteq Token /\ "ty-context" \in Namespace
BY DEF Begin, End, Core, Blank, Token, Namespace

LEMMA CleanFacts ==
  ASSUME NEW text \in Seq(Token)
  PROVE  /\ Clean(text) <=> Present(text) = {}
         /\ Clean(text) => Search(text) = "missing"
<1>1. Clean(text) <=> Present(text) = {}
  BY DEF Clean, Present, Positions
<1>2. ASSUME Present(text) = {} PROVE Cardinality(Present(text)) = 0
  BY <1>2, FS_EmptySet
<1> QED
  BY <1>1, <1>2 DEF Search

LEMMA CleanConcat ==
  ASSUME NEW s \in Seq(Token), NEW t \in Seq(Token), Clean(s), Clean(t)
  PROVE  Clean(s \o t) /\ s \o t \in Seq(Token)
<1>1. /\ s \o t \in Seq(Token) /\ Len(s \o t) = Len(s) + Len(t)
      /\ \A i \in 1..(Len(s) + Len(t)) :
           (s \o t)[i] = IF i <= Len(s) THEN s[i] ELSE t[i - Len(s)]
      /\ Len(s) \in Nat /\ Len(t) \in Nat
      /\ DOMAIN s = 1..Len(s) /\ DOMAIN t = 1..Len(t)
      /\ DOMAIN (s \o t) = 1..(Len(s) + Len(t))
  BY ConcatProperties, LenProperties
<1>2. ASSUME NEW i \in 1..(Len(s) + Len(t)), NEW ns \in Namespace
      PROVE  (s \o t)[i] \notin {Begin(ns), End(ns)}
  <2>1. CASE i <= Len(s)
    <3>1. i \in DOMAIN s /\ (s \o t)[i] = s[i]
      BY <1>1, <2>1
    <3> QED
      BY <3>1 DEF Clean
  <2>2. CASE ~(i <= Len(s))
    <3>1. i - Len(s) \in DOMAIN t /\ (s \o t)[i] = t[i - Len(s)]
      BY <1>1, <2>2
    <3> QED
      BY <3>1 DEF Clean
  <2> QED
    BY <2>1, <2>2
<1> QED
  BY <1>1, <1>2 DEF Clean

LEMMA CleanPart ==
  ASSUME NEW text \in Seq(Token), NEW m \in Nat \ {0}, NEW n \in Nat, n <= Len(text),
         \A i \in m..n, ns \in Namespace : text[i] \notin {Begin(ns), End(ns)}
  PROVE  Clean(SubSeq(text, m, n)) /\ SubSeq(text, m, n) \in Seq(Token)
<1> DEFINE part == SubSeq(text, m, n)
<1>1. \A i \in m..n : text[i] \in Token
  BY ElementOfSeq
<1>2. /\ part \in Seq(Token) /\ Len(part) = IF m <= n THEN n - m + 1 ELSE 0
      /\ \A i \in 1..(n - m + 1) : part[i] = text[m + i - 1]
  BY <1>1, SubSeqProperties
<1> HIDE DEF part
<1>3. DOMAIN part = 1..Len(part)
  BY <1>2, LenProperties
<1>4. ASSUME NEW i \in DOMAIN part, NEW ns \in Namespace
      PROVE  part[i] \notin {Begin(ns), End(ns)}
  <2>1. i \in 1..(n - m + 1) /\ m + i - 1 \in m..n
    BY <1>2, <1>3
  <2> QED
    BY <1>2, <2>1
<1> QED
  BY <1>2, <1>4 DEF Clean, part

\* A block between texts without markers is found, and it is between them.
LEMMA BlockBetween ==
  ASSUME NEW b \in Seq(Token), NEW a \in Seq(Token), Clean(b), Clean(a)
  PROVE  LET text == b \o Block \o a
         IN  /\ text \in Seq(Token) /\ Search(text) = "found"
             /\ Around(text) = [before |-> b, after |-> a]
<1> DEFINE ns == "ty-context"
           text == (b \o Block) \o a
           k == Len(b) + 1
<1>1. /\ Block \in Seq(Token) /\ Len(Block) = 3
      /\ Block[1] = Begin(ns) /\ Block[2] = Core /\ Block[3] = End(ns)
  BY TokenFacts DEF Block
<1>2. /\ text \in Seq(Token) /\ Len(b) \in Nat /\ Len(a) \in Nat
      /\ DOMAIN b = 1..Len(b) /\ DOMAIN a = 1..Len(a)
      /\ b \o Block \in Seq(Token) /\ Len(b \o Block) = Len(b) + 3
      /\ Len(text) = Len(b) + 3 + Len(a) /\ DOMAIN text = 1..(Len(b) + 3 + Len(a))
      /\ \A i \in 1..(Len(b) + 3) :
           (b \o Block)[i] = IF i <= Len(b) THEN b[i] ELSE Block[i - Len(b)]
      /\ \A i \in 1..(Len(b) + 3 + Len(a)) :
           text[i] = IF i <= Len(b) + 3 THEN (b \o Block)[i] ELSE a[i - (Len(b) + 3)]
  <2> HIDE DEF text
  <2>0. /\ b \o Block \in Seq(Token) /\ Len(b \o Block) = Len(b) + Len(Block)
        /\ \A i \in 1..(Len(b) + Len(Block)) :
             (b \o Block)[i] = IF i <= Len(b) THEN b[i] ELSE Block[i - Len(b)]
    <3>1. Block \in Seq(Token)
      BY <1>1
    <3> QED
      BY <3>1, ConcatProperties
  <2>1. b \o Block \in Seq(Token) /\ Len(b \o Block) = Len(b) + 3 /\ Len(b) \in Nat
    BY <1>1, <2>0, LenProperties
  <2>2. \A i \in 1..(Len(b) + 3) :
          (b \o Block)[i] = IF i <= Len(b) THEN b[i] ELSE Block[i - Len(b)]
    BY <1>1, <2>0
  <2> DEFINE c == b \o Block
  <2> HIDE DEF c
  <2>3. c \in Seq(Token)
    BY <2>1 DEF c
  <2>4. /\ c \o a \in Seq(Token) /\ Len(c \o a) = Len(c) + Len(a)
        /\ \A i \in 1..(Len(c) + Len(a)) :
             (c \o a)[i] = IF i <= Len(c) THEN c[i] ELSE a[i - Len(c)]
    BY <2>3, ConcatProperties
  <2> QED
    BY <2>1, <2>2, <2>4, LenProperties DEF c, text
<1> HIDE DEF text
<1>3. /\ k \in DOMAIN text /\ k + 1 \in DOMAIN text /\ k + 2 \in DOMAIN text
      /\ text[k] = Begin(ns) /\ text[k + 1] = Core /\ text[k + 2] = End(ns)
  <2>1. /\ k \in 1..(Len(b) + 3) /\ k + 1 \in 1..(Len(b) + 3) /\ k + 2 \in 1..(Len(b) + 3)
        /\ k - Len(b) = 1 /\ k + 1 - Len(b) = 2 /\ k + 2 - Len(b) = 3
        /\ ~(k <= Len(b)) /\ ~(k + 1 <= Len(b)) /\ ~(k + 2 <= Len(b))
        /\ k <= Len(b) + 3 /\ k + 1 <= Len(b) + 3 /\ k + 2 <= Len(b) + 3
    BY <1>2
  <2>2. k \in DOMAIN text /\ k + 1 \in DOMAIN text /\ k + 2 \in DOMAIN text
    BY <1>2, <2>1
  <2> HIDE DEF k, ns
  <2>3. text[k] = Block[1]
    BY <1>2, <2>1
  <2>4. text[k + 1] = Block[2]
    BY <1>2, <2>1
  <2>5. text[k + 2] = Block[3]
    BY <1>2, <2>1
  <2> QED
    BY <1>1, <2>2, <2>3, <2>4, <2>5
<1>4. ASSUME NEW i \in DOMAIN text, i \notin {k, k + 1, k + 2}, NEW n \in Namespace
      PROVE  text[i] \notin {Begin(n), End(n)}
  <2>1. CASE i <= Len(b)
    <3>1. i \in DOMAIN b /\ text[i] = b[i]
      BY <1>2, <2>1
    <3> QED
      BY <3>1 DEF Clean
  <2>2. CASE ~(i <= Len(b))
    <3>1. ~(i <= Len(b) + 3)
      BY <1>2, <1>4, <2>2
    <3>2. i - (Len(b) + 3) \in DOMAIN a /\ text[i] = a[i - (Len(b) + 3)]
      BY <1>2, <3>1
    <3> QED
      BY <3>2 DEF Clean
  <2> QED
    BY <2>1, <2>2
<1> HIDE DEF k, ns
<1>5. k # k + 2 /\ k < k + 2 /\ k \in Nat /\ ns \in Namespace
  BY <1>2, TokenFacts DEF k, ns
<1>6. /\ Positions(text, Begin(ns)) = {k} /\ Positions(text, End(ns)) = {k + 2}
      /\ \A n \in Namespace \ {ns} :
           Positions(text, Begin(n)) = {} /\ Positions(text, End(n)) = {}
  BY <1>3, <1>4, <1>5, TokenFacts DEF Positions
<1>7. Present(text) = {ns} /\ WellFormed(text, ns)
  BY <1>3, <1>5, <1>6 DEF Present, WellFormed
<1>8. Search(text) = "found"
  <2>1. Cardinality({ns}) = 1
    BY FS_Singleton
  <2> QED
    BY <1>7, <2>1 DEF Search
<1>9. Around(text) = [before |-> SubSeq(text, 1, k - 1),
                      after |-> SubSeq(text, k + 3, Len(text))]
  <2>1. k + 2 + 1 = k + 3
    BY <1>5
  <2> QED
    BY <1>6, <1>7, <2>1 DEF Around
<1>10. SubSeq(text, 1, k - 1) = b
  <2> DEFINE part == SubSeq(text, 1, Len(b))
  <2>1. /\ part \in Seq(Token) /\ Len(part) = Len(b)
        /\ \A i \in 1..Len(b) : part[i] = text[i]
    <3>1. \A i \in 1..Len(b) : text[i] \in Token
      BY <1>2, ElementOfSeq
    <3> QED
      BY <1>2, <3>1, SubSeqProperties
  <2>2. \A i \in 1..Len(b) : part[i] = b[i]
    BY <1>2, <2>1
  <2>3. k - 1 = Len(b)
    BY <1>2 DEF k
  <2> HIDE DEF part
  <2>4. part = b
    BY <2>1, <2>2, SeqEqual
  <2> QED
    BY <2>3, <2>4 DEF part
<1>11. SubSeq(text, k + 3, Len(text)) = a
  <2> DEFINE m == Len(b) + 4
             n == Len(b) + 3 + Len(a)
             part == SubSeq(text, m, n)
  <2>1. m \in Int /\ n \in Int /\ n - m + 1 = Len(a) /\ (m <= n \/ Len(a) = 0)
    BY <1>2
  <2>2. \A i \in m..n : text[i] \in Token
    BY <1>2, ElementOfSeq
  <2>3. /\ part \in Seq(Token) /\ Len(part) = IF m <= n THEN n - m + 1 ELSE 0
        /\ \A i \in 1..(n - m + 1) : part[i] = text[m + i - 1]
    <3> HIDE DEF m, n
    <3> QED
      BY <2>1, <2>2, SubSeqProperties
  <2>4. Len(part) = Len(a)
    <3> HIDE DEF part
    <3> QED
      BY <1>2, <2>1, <2>3
  <2>5. ASSUME NEW i \in 1..Len(a) PROVE part[i] = a[i]
    <3>1. /\ m + i - 1 \in 1..(Len(b) + 3 + Len(a)) /\ ~(m + i - 1 <= Len(b) + 3)
          /\ m + i - 1 - (Len(b) + 3) = i
      BY <1>2
    <3>2. part[i] = text[m + i - 1]
      BY <2>1, <2>3
    <3> DEFINE j == m + i - 1
    <3>3. j \in 1..(Len(b) + 3 + Len(a)) /\ ~(j <= Len(b) + 3) /\ j - (Len(b) + 3) = i
      BY <3>1
    <3>4. part[i] = text[j]
      BY <3>2
    <3> HIDE DEF m, n, part, j
    <3> QED
      BY <1>2, <3>3, <3>4
  <2>6. k + 3 = m /\ Len(text) = n
    BY <1>2 DEF k
  <2> HIDE DEF m, n, part
  <2>7. part = a
    BY <2>3, <2>4, <2>5, SeqEqual
  <2> QED
    BY <2>6, <2>7 DEF part
<1> QED
  BY <1>2, <1>8, <1>9, <1>10, <1>11 DEF text

\* In a text with a block there are no other markers than its two.
LEMMA FoundFacts ==
  ASSUME NEW text \in Seq(Token), Search(text) = "found"
  PROVE  /\ Around(text).before \in Seq(Token) /\ Clean(Around(text).before)
         /\ Around(text).after \in Seq(Token) /\ Clean(Around(text).after)
<1>1. PICK ns \in Present(text) : ns \in Namespace
  BY DEF Search, Present
<1>2. WellFormed(text, ns)
  BY <1>1 DEF Search
<1>3. Present(text) = {ns}
  <2>1. ASSUME NEW other \in Present(text), other # ns PROVE FALSE
    <3>1. Present(text) = {ns} \cup {other}
      BY <1>1, <2>1 DEF Present, Namespace
    <3> DEFINE one == {ns}
    <3>2. IsFiniteSet(one) /\ Cardinality(one) = 1 /\ other \notin one
      BY <2>1, FS_Singleton
    <3>3. Present(text) = one \cup {other}
      BY <3>1
    <3> HIDE DEF one
    <3>4. Cardinality(one \cup {other}) = Cardinality(one) + 1
      BY <3>2, FS_AddElement
    <3>5. Cardinality(Present(text)) = 2
      BY <3>2, <3>3, <3>4
    <3>6. 2 > 1
      OBVIOUS
    <3> QED
      BY <3>5, <3>6 DEF Search
  <2> QED
    BY <1>1, <2>1
<1>4. PICK i \in DOMAIN text, j \in DOMAIN text :
        /\ Positions(text, Begin(ns)) = {i} /\ Positions(text, End(ns)) = {j} /\ i < j
  BY <1>2 DEF WellFormed
<1>5. Around(text) = [before |-> SubSeq(text, 1, i - 1),
                      after |-> SubSeq(text, j + 1, Len(text))]
  BY <1>3, <1>4 DEF Around
<1>6. ASSUME NEW x \in DOMAIN text, x \notin {i, j}, NEW n \in Namespace
      PROVE  text[x] \notin {Begin(n), End(n)}
  <2>1. CASE n = ns
    BY <1>4, <1>6, <2>1 DEF Positions
  <2>2. CASE n # ns
    BY <1>3, <1>6, <2>2 DEF Present, Positions
  <2> QED
    BY <2>1, <2>2
<1>7. /\ DOMAIN text = 1..Len(text) /\ Len(text) \in Nat /\ i \in Nat /\ j \in Nat
      /\ i >= 1 /\ j <= Len(text)
  <2>1. DOMAIN text = 1..Len(text) /\ Len(text) \in Nat
    BY LenProperties
  <2> QED
    BY <2>1
<1>8. /\ SubSeq(text, 1, i - 1) \in Seq(Token) /\ Clean(SubSeq(text, 1, i - 1))
  <2>1. \A x \in 1..(i - 1) : x \in DOMAIN text /\ x \notin {i, j}
    BY <1>4, <1>7
  <2>2. i - 1 \in Nat /\ i - 1 <= Len(text)
    BY <1>4, <1>7
  <2>3. \A x \in 1..(i - 1), n \in Namespace : text[x] \notin {Begin(n), End(n)}
    BY <1>6, <2>1
  <2> DEFINE k == i - 1
  <2> HIDE DEF k
  <2>4. SubSeq(text, 1, k) \in Seq(Token) /\ Clean(SubSeq(text, 1, k))
    BY <2>2, <2>3, CleanPart DEF k
  <2> QED
    BY <2>4 DEF k
<1>9. /\ SubSeq(text, j + 1, Len(text)) \in Seq(Token)
      /\ Clean(SubSeq(text, j + 1, Len(text)))
  <2>1. \A x \in (j + 1)..Len(text) : x \in DOMAIN text /\ x \notin {i, j}
    BY <1>4, <1>7
  <2>2. j + 1 \in Nat \ {0}
    BY <1>7
  <2>3. \A x \in (j + 1)..Len(text), n \in Namespace : text[x] \notin {Begin(n), End(n)}
    BY <1>6, <2>1
  <2> DEFINE m == j + 1
             n == Len(text)
  <2>4. m \in Nat \ {0} /\ n \in Nat /\ n <= Len(text)
    BY <1>7, <2>2
  <2> HIDE DEF m, n
  <2>5. SubSeq(text, m, n) \in Seq(Token) /\ Clean(SubSeq(text, m, n))
    BY <2>3, <2>4, CleanPart DEF m, n
  <2> QED
    BY <2>5 DEF m, n
<1> QED
  BY <1>5, <1>8, <1>9

\* The lines that are not blank, and what people wrote in them.
Lines(kept) == DOMAIN kept \ Positions(kept, Blank)
Ranked(kept) == {<<Cardinality({j \in Lines(kept) : j <= i}), kept[i]>> : i \in Lines(kept)}

LEMMA SameRanked ==
  ASSUME NEW s, NEW t, Lines(s) = Lines(t), \A i \in Lines(s) : s[i] = t[i]
  PROVE  Ranked(s) = Ranked(t)
<1> DEFINE L == Lines(s)
           rank(i) == Cardinality({j \in L : j <= i})
<1>1. Ranked(s) = {<<rank(i), s[i]>> : i \in L} /\ Ranked(t) = {<<rank(i), t[i]>> : i \in L}
  BY DEF Ranked
<1>2. \A i \in L : s[i] = t[i]
  OBVIOUS
<1> HIDE DEF L, rank
<1> QED
  BY <1>1, <1>2

LEMMA TheirsOf ==
  ASSUME NEW text
  PROVE  /\ Search(text) = "found" =>
              Theirs(text) = Ranked(Around(text).before \o Around(text).after)
         /\ Search(text) # "found" => Theirs(text) = Ranked(text)
BY DEF Theirs, Ranked, Lines

\* Blank lines at the end are nobody's.
LEMMA BlanksAtTheEnd ==
  ASSUME NEW text \in Seq(Token), NEW k \in 0..Len(text), \A i \in Lines(text) : i <= k,
         NEW s \in Seq(Token), Len(s) >= k,
         \A i \in 1..Len(s) : s[i] = IF i <= k THEN text[i] ELSE Blank
  PROVE  Ranked(s) = Ranked(text)
<1>1. /\ DOMAIN text = 1..Len(text) /\ Len(text) \in Nat
      /\ DOMAIN s = 1..Len(s) /\ Len(s) \in Nat
  BY LenProperties
<1>2. ASSUME NEW i \in Lines(s) PROVE i \in Lines(text) /\ s[i] = text[i]
  <2>1. i \in 1..Len(s) /\ s[i] # Blank
    BY <1>1 DEF Lines, Positions
  <2>2. i <= k /\ s[i] = text[i]
    BY <2>1
  <2>3. i \in 1..Len(text)
    BY <1>1, <2>1, <2>2
  <2> QED
    BY <1>1, <2>1, <2>2, <2>3 DEF Lines, Positions
<1>3. ASSUME NEW i \in Lines(text) PROVE i \in Lines(s)
  <2>1. i \in 1..Len(text) /\ text[i] # Blank /\ i <= k
    BY <1>1 DEF Lines, Positions
  <2>2. i \in 1..Len(s)
    BY <1>1, <2>1
  <2>3. s[i] = text[i]
    BY <2>1, <2>2
  <2> QED
    BY <1>1, <2>1, <2>2, <2>3 DEF Lines, Positions
<1>4. Lines(s) = Lines(text)
  BY <1>2, <1>3
<1> QED
  BY <1>2, <1>4, SameRanked

LEMMA TrimFacts ==
  ASSUME NEW text \in Seq(Token), Clean(text)
  PROVE  \E k \in 0..Len(text) :
           /\ \A i \in Lines(text) : i <= k
           /\ TrimEnd(text) \in Seq(Token) /\ Clean(TrimEnd(text))
           /\ Len(TrimEnd(text)) = k
           /\ \A i \in 1..k : TrimEnd(text)[i] = text[i]
<1> DEFINE S == {0} \cup Lines(text)
           k == Max(S)
           part == SubSeq(text, 1, k)
<1>1. DOMAIN text = 1..Len(text) /\ Len(text) \in Nat
  BY LenProperties
<1>2. S \in SUBSET (0..Len(text)) /\ S # {}
  BY <1>1 DEF Lines
<1>3. k \in S /\ \A y \in S : k >= y
  <2> HIDE DEF S
  <2> QED
    BY <1>1, <1>2, GreatestOf
<1>4. TrimEnd(text) = part
  BY DEF TrimEnd, Lines
<1>5. k \in 0..Len(text) /\ \A i \in Lines(text) : i <= k
  <2>1. \A i \in Lines(text) : i \in S /\ i \in Int
    BY <1>1 DEF Lines
  <2> HIDE DEF S, k
  <2>2. k \in 0..Len(text)
    BY <1>2, <1>3
  <2> QED
    BY <1>3, <2>1, <2>2
<1> HIDE DEF k
<1>6. \A i \in 1..k : i \in DOMAIN text
  BY <1>1, <1>5
<1>7. part \in Seq(Token) /\ Clean(part)
  <2>1. \A i \in 1..k, ns \in Namespace : text[i] \notin {Begin(ns), End(ns)}
    BY <1>6 DEF Clean
  <2>2. k \in Nat /\ k <= Len(text)
    BY <1>1, <1>5
  <2> QED
    BY <2>1, <2>2, CleanPart
<1>8. Len(part) = k /\ \A i \in 1..k : part[i] = text[i]
  <2>1. \A i \in 1..k : text[i] \in Token
    BY <1>1, <1>6, ElementOfSeq
  <2>2. k \in Int
    BY <1>5
  <2>3. /\ Len(part) = IF 1 <= k THEN k - 1 + 1 ELSE 0
        /\ \A i \in 1..(k - 1 + 1) : part[i] = text[1 + i - 1]
    BY <2>1, <2>2, SubSeqProperties
  <2> HIDE DEF part
  <2> QED
    BY <1>1, <1>5, <2>3
<1> QED
  BY <1>4, <1>5, <1>7, <1>8

\* The merged text is the block between two texts without markers, which have the
\* lines of people.
LEMMA MergedText ==
  ASSUME NEW text \in Seq(Token), Search(text) # "invalid"
  PROVE  \E b, a \in Seq(Token) :
           /\ Clean(b) /\ Clean(a)
           /\ Merge(text) = b \o Block \o a
           /\ Theirs(text) = Ranked(b \o a)
<1>1. CASE Search(text) = "found"
  <2>1. Merge(text) = Around(text).before \o Block \o Around(text).after
    BY <1>1 DEF Merge
  <2>2. Theirs(text) = Ranked(Around(text).before \o Around(text).after)
    BY <1>1, TheirsOf
  <2> QED
    BY <1>1, <2>1, <2>2, FoundFacts
<1>2. CASE Search(text) # "found"
  <2>1. Clean(text) /\ Theirs(text) = Ranked(text)
    BY <1>2, CleanFacts, TheirsOf DEF Search
  <2>2. PICK k \in 0..Len(text) :
          /\ \A i \in Lines(text) : i <= k
          /\ TrimEnd(text) \in Seq(Token) /\ Clean(TrimEnd(text))
          /\ Len(TrimEnd(text)) = k
          /\ \A i \in 1..k : TrimEnd(text)[i] = text[i]
    BY <2>1, TrimFacts
  <2> DEFINE blank == <<Blank>>
             trimmed == TrimEnd(text)
  <2>3. /\ blank \in Seq(Token) /\ Len(blank) = 1 /\ blank[1] = Blank /\ Clean(blank)
        /\ Len(text) \in Nat
    <3>1. blank \in Seq(Token) /\ Len(blank) = 1 /\ blank[1] = Blank /\ DOMAIN blank = 1..1
      BY TokenFacts
    <3> HIDE DEF blank
    <3>2. \A i \in DOMAIN blank : blank[i] = Blank
      BY <3>1
    <3> QED
      BY <3>1, <3>2, TokenFacts, LenProperties DEF Clean
  <2>4. CASE trimmed = <<>>
    <3>1. Merge(text) = Block \o blank
      BY <1>2, <2>4 DEF Merge
    <3>2. <<>> \in Seq(Token) /\ Block \in Seq(Token) /\ Clean(<<>>)
      BY TokenFacts DEF Block, Clean
    <3> HIDE DEF blank
    <3>3. <<>> \o Block = Block /\ <<>> \o blank = blank
      BY <2>3, <3>2, ConcatEmptySeq
    <3>4. k = 0
      BY <2>2, <2>4, EmptySeq
    <3>5. Ranked(blank) = Ranked(text)
      <4>1. \A i \in 1..Len(blank) : blank[i] = IF i <= k THEN text[i] ELSE Blank
        BY <2>3, <3>4
      <4> QED
        BY <2>2, <2>3, <3>4, <4>1, BlanksAtTheEnd
    <3> QED
      BY <2>1, <2>3, <3>1, <3>2, <3>3, <3>5
  <2>5. CASE trimmed # <<>>
    <3> DEFINE b == trimmed \o blank
               s == b \o blank
    <3>1. Merge(text) = b \o Block \o blank
      BY <1>2, <2>5 DEF Merge
    <3> HIDE DEF trimmed, blank
    <3>2. trimmed \in Seq(Token) /\ Clean(trimmed) /\ Len(trimmed) = k
          /\ \A i \in 1..k : trimmed[i] = text[i]
      BY <2>2 DEF trimmed
    <3>3. b \in Seq(Token) /\ Clean(b)
      BY <2>3, <3>2, CleanConcat
    <3>4. /\ Len(b) = k + 1
          /\ \A i \in 1..(k + 1) : b[i] = IF i <= k THEN trimmed[i] ELSE blank[i - k]
      <4>1. /\ Len(b) = Len(trimmed) + Len(blank)
            /\ \A i \in 1..(Len(trimmed) + Len(blank)) :
                 b[i] = IF i <= Len(trimmed) THEN trimmed[i] ELSE blank[i - Len(trimmed)]
        BY <2>3, <3>2, ConcatProperties
      <4> HIDE DEF b
      <4> QED
        BY <2>3, <3>2, <4>1
    <3> HIDE DEF b
    <3>5. /\ s \in Seq(Token) /\ Len(s) = k + 2
          /\ \A i \in 1..(k + 2) : s[i] = IF i <= k + 1 THEN b[i] ELSE blank[i - (k + 1)]
      <4>1. /\ s \in Seq(Token) /\ Len(s) = Len(b) + Len(blank)
            /\ \A i \in 1..(Len(b) + Len(blank)) :
                 s[i] = IF i <= Len(b) THEN b[i] ELSE blank[i - Len(b)]
        BY <2>3, <3>3, ConcatProperties
      <4> HIDE DEF s
      <4> QED
        BY <2>3, <3>4, <4>1
    <3> HIDE DEF s
    <3>6. ASSUME NEW i \in 1..(k + 2) PROVE s[i] = IF i <= k THEN text[i] ELSE Blank
      <4>1. CASE i <= k
        BY <3>2, <3>4, <3>5, <4>1
      <4>2. CASE i = k + 1
        BY <2>3, <3>4, <3>5, <4>2
      <4>3. CASE i = k + 2
        BY <2>3, <3>5, <4>3
      <4> QED
        BY <4>1, <4>2, <4>3
    <3>7. Ranked(s) = Ranked(text)
      <4>1. \A i \in 1..Len(s) : s[i] = IF i <= k THEN text[i] ELSE Blank
        BY <3>5, <3>6
      <4>2. Len(s) >= k
        BY <3>5
      <4> QED
        BY <2>2, <3>5, <4>1, <4>2, BlanksAtTheEnd
    <3> QED
      BY <2>1, <2>3, <3>1, <3>3, <3>7 DEF s
  <2> QED
    BY <2>4, <2>5
<1> QED
  BY <1>1, <1>2

\* What mergeManagedBlock returns: the text with one block, which merging again
\* would not change, and with the lines of people as they were.
LEMMA MergeFacts ==
  ASSUME NEW text \in Seq(Token), Search(text) # "invalid"
  PROVE  /\ Merge(text) \in Seq(Token) /\ Search(Merge(text)) = "found"
         /\ Merge(Merge(text)) = Merge(text)
         /\ Theirs(Merge(text)) = Theirs(text)
<1>1. PICK b, a \in Seq(Token) :
        /\ Clean(b) /\ Clean(a)
        /\ Merge(text) = b \o Block \o a
        /\ Theirs(text) = Ranked(b \o a)
  BY MergedText
<1> DEFINE merged == Merge(text)
<1>2. /\ merged \in Seq(Token) /\ Search(merged) = "found"
      /\ Around(merged) = [before |-> b, after |-> a]
  BY <1>1, BlockBetween
<1>3. Around(merged).before = b /\ Around(merged).after = a
  BY <1>2
<1> HIDE DEF merged
<1>4. Merge(merged) = b \o Block \o a
  BY <1>2, <1>3 DEF Merge
<1>5. Theirs(merged) = Ranked(b \o a)
  BY <1>2, <1>3, TheirsOf
<1> QED
  BY <1>1, <1>2, <1>4, <1>5 DEF merged
-----------------------------------------------------------------------------
\* A command under the lock has it, whatever people edit.  One that writes
\* AGENTS.md has merged the block into what it captured; and what it is about to
\* replace is what it captured, or people edited it since the last compare.
CommandOK(p) ==
  /\ memory[p].pc \in UnderLock => lock = p
  /\ memory[p].pc \in {"write", "replace agents"} =>
       /\ {"agents", "next"} \subseteq DOMAIN memory[p]
       /\ memory[p].agents.text \in Seq(Token) /\ Search(memory[p].agents.text) # "invalid"
       /\ memory[p].next = Merge(memory[p].agents.text)
  /\ memory[p].pc = "replace agents" /\ ~late => AgentsAsCaptured(p)

TextsInv == agents.text \in Seq(Token) /\ \A p \in Proc : CommandOK(p)

\* Of a step of p, no other command has the lock, or the step leaves it alone.
LEMMA TextsStep ==
  ASSUME TextsInv, NEW p \in Proc, \A q \in Proc \ {p} : memory'[q] = memory[q],
         agents'.text \in Seq(Token),
         lock' = lock \/ lock = None \/ lock = p,
         UNCHANGED <<agents, late>> \/ lock = p,
         CommandOK(p)'
  PROVE  TextsInv'
<1> SUFFICES ASSUME NEW q \in Proc \ {p} PROVE CommandOK(q)'
  BY DEF TextsInv
<1>1. CommandOK(q) /\ memory'[q] = memory[q]
  BY DEF TextsInv
<1>2. CASE memory[q].pc \in UnderLock
  <2>1. lock = q /\ lock' = lock /\ UNCHANGED <<agents, late>>
    BY <1>1, <1>2, ProcAssumption DEF CommandOK
  <2>2. AgentsAsCaptured(q) => AgentsAsCaptured(q)'
    BY <1>1, <2>1 DEF AgentsAsCaptured, NotThere
  <2> QED
    BY <1>1, <2>1, <2>2 DEF CommandOK
<1>3. CASE memory[q].pc \notin UnderLock
  BY <1>1, <1>3 DEF CommandOK, UnderLock
<1> QED
  BY <1>2, <1>3

LEMMA EndsTexts ==
  ASSUME InstallInv, TextsInv, NEW p \in Proc, NEW r, Ends(p, r),
         agents'.text \in Seq(Token), UNCHANGED <<agents, late>> \/ lock = p,
         lock' = lock \/ lock = p
  PROVE  TextsInv'
<1>1. (\A q \in Proc \ {p} : memory'[q] = memory[q]) /\ memory'[p].pc = "idle"
  BY EndsIdle DEF InstallInv
<1>2. CommandOK(p)'
  BY <1>1 DEF CommandOK, UnderLock
<1> QED
  BY <1>1, <1>2, TextsStep

LEMMA StopsTexts ==
  ASSUME InstallInv, TextsInv, NEW p \in Proc, NEW r, Stops(p, r)
  PROVE  TextsInv' /\ agents' = agents
<1>1. UNCHANGED <<agents, late>> /\ Ends(p, r) /\ (lock' = lock \/ lock = p)
  BY DEF Stops, files
<1>2. agents'.text \in Seq(Token)
  BY <1>1 DEF TextsInv
<1> QED
  BY <1>1, <1>2, EndsTexts

\* A command goes on, but not to the write of AGENTS.md.
LEMMA GoesTexts ==
  ASSUME InstallInv, TextsInv, NEW p \in Proc, NEW l,
         \A q \in Proc \ {p} : memory'[q] = memory[q], memory'[p].pc = l,
         l \notin {"write", "replace agents"}, UNCHANGED <<agents, late>>,
         \/ lock' = lock /\ (memory[p].pc \in UnderLock \/ l \notin UnderLock)
         \/ lock = None /\ lock' = p
         \/ lock = p /\ l \notin UnderLock
  PROVE  TextsInv'
<1>1. agents'.text \in Seq(Token) /\ CommandOK(p)
  BY DEF TextsInv
<1>2. CommandOK(p)'
  BY <1>1 DEF CommandOK
<1>3. lock' = lock \/ lock = None \/ lock = p
  OBVIOUS
<1> QED
  BY <1>1, <1>2, <1>3, TextsStep

LEMMA GotoTexts ==
  ASSUME InstallInv, TextsInv, NEW p \in Proc, NEW l, Goto(p, l),
         l \notin {"write", "replace agents"}, UNCHANGED <<agents, late>>,
         \/ lock' = lock /\ (memory[p].pc \in UnderLock \/ l \notin UnderLock)
         \/ lock = None /\ lock' = p
  PROVE  TextsInv'
<1>1. (\A q \in Proc \ {p} : memory'[q] = memory[q]) /\ memory'[p].pc = l
  BY GoesTo DEF InstallInv
<1> QED
  BY <1>1, GoesTexts

LEMMA FolderRecordedTexts ==
  ASSUME InstallInv, TextsInv, NEW p \in Proc, memory[p].pc \in UnderLock,
         FolderRecorded(p)
  PROVE  TextsInv' /\ agents' = agents
<1>1. /\ Goes(p, [pc |-> "guard", folder |-> None])
      /\ UNCHANGED <<agents, late>>
  BY DEF FolderRecorded
<1>2. (\A q \in Proc \ {p} : memory'[q] = memory[q]) /\ memory'[p].pc = "guard"
  BY <1>1, Moves DEF InstallInv
<1>3. lock = p
  BY DEF TextsInv, CommandOK
<1>4. "guard" \notin UnderLock
  BY DEF UnderLock
<1> QED
  BY <1>1, <1>2, <1>3, <1>4, GoesTexts

\* The commands up to the read of the configuration.
LEMMA OtherTexts ==
  ASSUME InstallInv, TextsInv, NEW p \in Proc,
         \/ Give(p) \/ Guard(p) \/ TakeLock(p) \/ LockHeld(p)
         \/ CapturePackage(p) \/ ComparePackage(p) \/ ReplacePackage(p)
         \/ CaptureConfig(p) \/ WriteConfig(p) \/ WriteContext(p)
         \/ ReadConfig(p) \/ Crash(p)
  PROVE  TextsInv' /\ agents' = agents
<1>1. CASE \E r : Stops(p, r)
  BY <1>1, StopsTexts
<1> SUFFICES ASSUME \A r : ~ Stops(p, r) PROVE TextsInv' /\ agents' = agents
  BY <1>1
<1>2. CASE Give(p)
  <2>1. PICK command, folder :
          memory' = [memory EXCEPT ![p] =
            [pc |-> "guard", command |-> command, folder |-> folder]]
    BY <1>2 DEF Give
  <2>2. memory'[p].pc = "guard" /\ \A q \in Proc \ {p} : memory'[q] = memory[q]
    BY <2>1 DEF InstallInv, TypesOK
  <2>3. UNCHANGED <<agents, late, lock>> /\ "guard" \notin UnderLock
    BY <1>2 DEF Give, files, UnderLock
  <2> QED
    BY <2>2, <2>3, GoesTexts
<1>3. CASE Guard(p)
  <2>1. UNCHANGED <<agents, late, lock>> /\ (Goto(p, "lock package") \/ Goto(p, "lock"))
    BY <1>3 DEF Guard, Reads, files
  <2>2. "lock package" \notin UnderLock /\ "lock" \notin UnderLock
    BY DEF UnderLock
  <2> QED
    BY <2>1, <2>2, GotoTexts
<1>4. CASE TakeLock(p)
  <2>1. /\ lock = None /\ lock' = p /\ UNCHANGED <<agents, late>>
        /\ Goto(p, "root") \/ Goto(p, "config") \/ Goto(p, "startup")
    BY <1>4 DEF TakeLock, files
  <2> QED
    BY <2>1, GotoTexts
<1>5. CASE CapturePackage(p)
  <2>1. memory[p].pc \in UnderLock
    BY <1>5 DEF CapturePackage, At, UnderLock
  <2>2. CASE FolderRecorded(p)
    BY <2>1, <2>2, FolderRecordedTexts
  <2>3. CASE ~FolderRecorded(p)
    <3>1. Reads /\ Goes(p, [pc |-> "package", package |-> package])
      BY <1>5, <2>3 DEF CapturePackage
    <3>2. (\A q \in Proc \ {p} : memory'[q] = memory[q]) /\ memory'[p].pc = "package"
      BY <3>1, Moves DEF InstallInv
    <3>3. UNCHANGED <<agents, late, lock>>
      BY <3>1 DEF Reads, files
    <3> QED
      BY <2>1, <3>2, <3>3, GoesTexts
  <2> QED
    BY <2>2, <2>3
<1>6. CASE ComparePackage(p) \/ WriteConfig(p) \/ WriteContext(p) \/ ReadConfig(p)
  <2>1. memory[p].pc \in UnderLock
    BY <1>6 DEF ComparePackage, WriteConfig, WriteContext, ReadConfig, At, ContextFile,
       UnderLock
  <2>2. UNCHANGED <<agents, late, lock>>
    BY <1>6 DEF ComparePackage, WriteConfig, WriteContext, ReadConfig, Reads, files
  <2>3. PICK l \in {"replace package", "manifest", "global", "startup", "prepare"} :
          Goto(p, l)
    BY <1>6 DEF ComparePackage, WriteConfig, WriteContext, ReadConfig
  <2> QED
    BY <2>1, <2>2, <2>3, GotoTexts
<1>7. CASE ReplacePackage(p)
  BY <1>7, FolderRecordedTexts DEF ReplacePackage, At, UnderLock
<1>8. CASE CaptureConfig(p)
  <2>1. UNCHANGED <<agents, late, lock>> /\ memory[p].pc \in UnderLock
    BY <1>8 DEF CaptureConfig, Reads, files, At, UnderLock
  <2>2. CASE Goto(p, "manifest")
    BY <2>1, <2>2, GotoTexts
  <2>3. CASE Goes(p, [pc |-> "write config", root |-> HarnessRoot])
    <3> DEFINE f == [pc |-> "write config", root |-> HarnessRoot]
    <3>2. Goes(p, f) /\ "pc" \in DOMAIN f /\ f["pc"] = "write config"
      BY <2>3
    <3> HIDE DEF f
    <3>1. (\A q \in Proc \ {p} : memory'[q] = memory[q]) /\ memory'[p].pc = "write config"
      <4>1. TypesOK
        BY DEF InstallInv
      <4>2. /\ \A q \in Proc \ {p} : memory'[q] = memory[q]
            /\ \A x \in DOMAIN f : memory'[p][x] = f[x]
        BY <3>2, <4>1, Moves
      <4>3. memory'[p]["pc"] = "write config"
        BY <3>2, <4>2
      <4> QED
        BY <4>2, <4>3
    <3> QED
      BY <2>1, <3>1, GoesTexts
  <2> QED
    BY <1>8, <2>2, <2>3 DEF CaptureConfig
<1>9. CASE Crash(p)
  <2>1. UNCHANGED <<agents, late>> /\ Ends(p, "crashed") /\ (lock' = lock \/ lock = p)
    BY <1>9 DEF Crash, files
  <2>2. agents'.text \in Seq(Token)
    BY <2>1 DEF TextsInv
  <2> QED
    BY <2>1, <2>2, EndsTexts
<1>10. CASE LockHeld(p)
  BY <1>10 DEF LockHeld
<1> QED
  BY <1>2, <1>3, <1>4, <1>5, <1>6, <1>7, <1>8, <1>9, <1>10

\* What is captured has a text that can be merged.
LEMMA PrepareTexts ==
  ASSUME InstallInv, TextsInv, NEW p \in Proc, Prepare(p)
  PROVE  TextsInv' /\ agents' = agents
<1>1. CASE \E r : Stops(p, r)
  BY <1>1, StopsTexts
<1>2. CASE ~ \E r : Stops(p, r)
  <2> DEFINE f == [pc |-> "write", agents |-> agents, next |-> Merge(agents.text)]
  <2>1. /\ Goes(p, f) /\ UNCHANGED <<agents, late, lock>>
        /\ Search(agents.text) # "invalid" /\ memory[p].pc = "prepare"
    BY <1>2 DEF Prepare, Reads, files, At
  <2>2. /\ DOMAIN f = {"pc", "agents", "next"} /\ f.agents = agents
        /\ f.next = Merge(agents.text) /\ f.pc = "write"
    OBVIOUS
  <2> HIDE DEF f
  <2>3. /\ memory'[p].agents = agents /\ memory'[p].next = Merge(agents.text)
        /\ memory'[p].pc = "write"
        /\ \A q \in Proc \ {p} : memory'[q] = memory[q]
    BY <2>1, <2>2, Moves DEF InstallInv
  <2>4. {"agents", "next"} \subseteq DOMAIN memory'[p]
    <3>1. memory'[p] = Updated(memory[p], f)
      BY <2>1 DEF Goes, InstallInv, TypesOK
    <3> QED
      BY <2>2, <3>1 DEF Updated
  <2>5. lock = p
    BY <2>1 DEF TextsInv, CommandOK, UnderLock
  <2>6. agents'.text \in Seq(Token) /\ agents.text \in Seq(Token)
    BY <2>1 DEF TextsInv
  <2>7. CommandOK(p)'
    BY <2>1, <2>3, <2>4, <2>5, <2>6 DEF CommandOK
  <2> QED
    BY <2>1, <2>3, <2>5, <2>6, <2>7, TextsStep
<1> QED
  BY <1>1, <1>2

\* After the last compare AGENTS.md is what was captured.
LEMMA CompareAgentsTexts ==
  ASSUME InstallInv, TextsInv, NEW p \in Proc, CompareAgents(p)
  PROVE  TextsInv' /\ agents' = agents
<1>1. CASE \E r : Stops(p, r)
  BY <1>1, StopsTexts
<1>2. CASE ~ \E r : Stops(p, r)
  <2>1. /\ memory[p].pc = "write" /\ AgentsAsCaptured(p)
        /\ Goto(p, "replace agents") /\ UNCHANGED <<agents, lock>>
    BY <1>2 DEF CompareAgents, At
  <2>2. CommandOK(p) /\ agents.text \in Seq(Token)
    BY DEF TextsInv
  <2>3. {"agents", "next"} \subseteq DOMAIN memory[p] /\ lock = p
    BY <2>1, <2>2 DEF CommandOK, UnderLock
  <2>4. /\ memory'[p].agents = memory[p].agents /\ memory'[p].next = memory[p].next
        /\ DOMAIN memory[p] \subseteq DOMAIN memory'[p]
        /\ memory'[p].pc = "replace agents"
        /\ \A q \in Proc \ {p} : memory'[q] = memory[q]
    <3> DEFINE f == [pc |-> "replace agents"]
    <3>1. Goes(p, f) /\ DOMAIN f = {"pc"} /\ f["pc"] = "replace agents"
      BY <2>1 DEF Goto
    <3> HIDE DEF f
    <3>2. memory' = [memory EXCEPT ![p] = Updated(memory[p], f)]
      BY <3>1 DEF Goes
    <3>4. memory'[p] = Updated(memory[p], f) /\ \A q \in Proc \ {p} : memory'[q] = memory[q]
      BY <3>2 DEF InstallInv, TypesOK
    <3>5. /\ DOMAIN memory[p] \subseteq DOMAIN memory'[p]
          /\ \A x \in DOMAIN f : memory'[p][x] = f[x]
          /\ \A x \in DOMAIN memory[p] \ DOMAIN f : memory'[p][x] = memory[p][x]
      BY <3>4 DEF Updated
    <3>3. memory'[p]["agents"] = memory[p]["agents"] /\ memory'[p]["next"] = memory[p]["next"]
          /\ memory'[p]["pc"] = "replace agents"
      BY <2>3, <3>1, <3>5
    <3> QED
      BY <3>3, <3>4, <3>5
  <2>5. AgentsAsCaptured(p)'
    BY <2>1, <2>4 DEF AgentsAsCaptured, NotThere
  <2>6. CommandOK(p)'
    BY <2>1, <2>2, <2>3, <2>4, <2>5 DEF CommandOK
  <2> QED
    BY <2>1, <2>2, <2>3, <2>4, <2>6, TextsStep
<1> QED
  BY <1>1, <1>2

\* What is written is the merge of a text that people may still have changed only
\* since the last compare.
Merged ==
  \E t \in Seq(Token) : /\ Search(t) # "invalid" /\ agents'.text = Merge(t)
                        /\ ~late => t = agents.text

LEMMA ReplaceAgentsTexts ==
  ASSUME InstallInv, TextsInv, NEW p \in Proc, ReplaceAgents(p)
  PROVE  TextsInv' /\ (agents' # agents => Merged)
<1>1. CASE \E r : Stops(p, r)
  BY <1>1, StopsTexts
<1>2. CASE ~ \E r : Stops(p, r)
  <2>1. /\ memory[p].pc = "replace agents" /\ late' = late
        /\ agents' = [text |-> memory[p].next, stamp |-> clock + 1]
        /\ Ends(p, "ok")
    BY <1>2 DEF ReplaceAgents, At
  <2> DEFINE t == memory[p].agents.text
  <2>2. CommandOK(p)
    BY DEF TextsInv
  <2>3. /\ t \in Seq(Token) /\ Search(t) # "invalid" /\ agents'.text = Merge(t)
        /\ lock = p
    BY <2>1, <2>2 DEF CommandOK, UnderLock
  <2>4. ~late => t = agents.text
    BY <2>1, <2>2 DEF CommandOK, AgentsAsCaptured, NotThere
  <2>5. agents'.text \in Seq(Token)
    BY <2>3, MergeFacts
  <2>6. TextsInv'
    BY <2>1, <2>3, <2>5, EndsTexts
  <2> QED
    BY <2>3, <2>4, <2>6 DEF Merged
<1> QED
  BY <1>1, <1>2

\* What a step makes of AGENTS.md, when it is not people's.
LEMMA TextsInductive ==
  ASSUME InstallInv, TextsInv, [Next]_vars
  PROVE  TextsInv' /\ (edits' = edits /\ agents' # agents => Merged)
<1>1. CASE UNCHANGED vars \/ OtherBegins \/ OtherEnds
  <2>1. UNCHANGED <<agents, late, lock, memory>>
    BY <1>1 DEF vars, files, OtherBegins, OtherEnds
  <2>2. \A p \in Proc : CommandOK(p) => CommandOK(p)'
    BY <2>1 DEF CommandOK, AgentsAsCaptured, NotThere
  <2> QED
    BY <2>1, <2>2 DEF TextsInv
<1>2. CASE Edit
  <2>1. edits' # edits /\ UNCHANGED <<memory, lock>>
    <3>1. edits \in Nat /\ edits' = edits + 1
      BY <1>2 DEF Edit, InstallInv
    <3>2. UNCHANGED <<memory, lock>>
      BY <1>2 DEF Edit
    <3> QED
      BY <3>1, <3>2
  <2>2. CASE UNCHANGED <<agents, late>>
    <3>1. \A p \in Proc : CommandOK(p) => CommandOK(p)'
      BY <2>1, <2>2 DEF CommandOK, AgentsAsCaptured, NotThere
    <3> QED
      BY <2>1, <2>2, <3>1 DEF TextsInv
  <2>3. CASE ~UNCHANGED <<agents, late>>
    <3>1. /\ \E t \in EditedTexts : agents' = [text |-> t, stamp |-> clock + 1]
          /\ late' = \E p \in Proc : At(p, "replace agents")
      <4>1. \/ /\ \E t \in EditedTexts : agents' = [text |-> t, stamp |-> clock + 1]
               /\ late' = \E p \in Proc : At(p, "replace agents")
            \/ UNCHANGED <<agents, late>>
        BY <1>2 DEF Edit
      <4> QED
        BY <2>3, <4>1
    <3>2. agents'.text \in Seq(Token)
      <4>1. PICK t \in EditedTexts : agents' = [text |-> t, stamp |-> clock + 1]
        BY <3>1
      <4>2. agents'.text = t
        BY <4>1
      <4> QED
        BY <4>2, TextsAssumption
    <3>3. \A p \in Proc : CommandOK(p) => CommandOK(p)'
      BY <2>1, <3>1 DEF CommandOK, At
    <3> QED
      BY <2>1, <3>2, <3>3 DEF TextsInv
  <2> QED
    BY <2>2, <2>3
<1>3. ASSUME NEW p \in Proc,
             \/ Give(p) \/ Guard(p) \/ TakeLock(p) \/ LockHeld(p)
             \/ CapturePackage(p) \/ ComparePackage(p) \/ ReplacePackage(p)
             \/ CaptureConfig(p) \/ WriteConfig(p) \/ WriteContext(p)
             \/ ReadConfig(p) \/ Crash(p)
      PROVE  TextsInv' /\ agents' = agents
  BY <1>3, OtherTexts
<1>4. ASSUME NEW p \in Proc, Prepare(p) \/ CompareAgents(p)
      PROVE  TextsInv' /\ agents' = agents
  BY <1>4, PrepareTexts, CompareAgentsTexts
<1>5. ASSUME NEW p \in Proc, ReplaceAgents(p)
      PROVE  TextsInv' /\ (agents' # agents => Merged)
  BY <1>5, ReplaceAgentsTexts
<1> QED
  BY <1>1, <1>2, <1>3, <1>4, <1>5 DEF Next

\* The text of AGENTS.md at every point, and what a command is about to write.
THEOREM TextsInvariant == Spec => []TextsInv
<1>1. Init => TextsInv
  <2> SUFFICES ASSUME Init PROVE TextsInv
    OBVIOUS
  <2>1. PICK t \in InitialTexts : agents = [text |-> t, stamp |-> 0]
    BY DEF Init
  <2>2. agents.text \in Seq(Token)
    BY <2>1, TextsAssumption
  <2>3. \A p \in Proc : CommandOK(p)
    BY DEF Init, CommandOK, UnderLock
  <2> QED
    BY <2>2, <2>3 DEF TextsInv
<1>2. InstallInv /\ TextsInv /\ [Next]_vars => TextsInv'
  BY TextsInductive
<1> QED
  BY <1>1, <1>2, InstallInvariant, PTL DEF Spec

\* A sync leaves every line of people where it is and leaves a text alone whose
\* markers it does not understand, whatever the text and whoever edits it up to the
\* last compare; what it writes it would not write again (mergeManagedBlock).  An
\* edit between that compare and the rename is excepted (mutation-cas.ts:229-248).
THEOREM TheirTextIsKept == Spec => TheirTextKept
<1>1. InstallInv /\ TextsInv /\ [Next]_vars =>
        [edits' = edits /\ agents' # agents =>
           /\ Search(agents'.text) = "found" /\ Merge(agents'.text) = agents'.text
           /\ ~late => /\ Search(agents.text) # "invalid"
                       /\ Theirs(agents'.text) = Theirs(agents.text)]_vars
  <2> SUFFICES ASSUME InstallInv, TextsInv, [Next]_vars, edits' = edits, agents' # agents
               PROVE  /\ Search(agents'.text) = "found"
                      /\ Merge(agents'.text) = agents'.text
                      /\ ~late => /\ Search(agents.text) # "invalid"
                                  /\ Theirs(agents'.text) = Theirs(agents.text)
    OBVIOUS
  <2>1. PICK t \in Seq(Token) : /\ Search(t) # "invalid" /\ agents'.text = Merge(t)
                                /\ ~late => t = agents.text
    BY TextsInductive DEF Merged
  <2> QED
    BY <2>1, MergeFacts
<1> QED
  BY <1>1, InstallInvariant, TextsInvariant, PTL DEF Spec, TheirTextKept
===============================================================================
