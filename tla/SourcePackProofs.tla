--------------------------- MODULE SourcePackProofs ---------------------------
(***************************************************************************)
(* Source Packs, for any names, requests, rounds, commands and edits: an   *)
(* export leaves what people wrote alone, packs that nobody disturbs leave *)
(* one pack in `latest`, and what is planned fits its limits.              *)
(***************************************************************************)
EXTENDS SourcePack, TLAPS, FiniteSetTheorems, WellFoundedInduction

ArtifactsOK(artifacts) ==
  /\ artifacts \in Seq(Name)
  /\ \A i, j \in 1..Len(artifacts) : artifacts[i] = artifacts[j] => i = j

DiskOK ==
  /\ DOMAIN disk = Dir
  /\ \A d \in Dir : DOMAIN disk[d] = Name /\ ListsExports(disk[d][Manifest])
  /\ rounds \subseteq Round
  /\ edits \in Nat /\ crashes \in Nat /\ reports \in Nat

\* A manifest lists the other files of its pack, as they were written.
PackOK(pack) ==
  /\ Manifest \in DOMAIN pack /\ DOMAIN pack \subseteq Name
  /\ "lists" \in DOMAIN pack[Manifest]
  /\ pack[Manifest].lists = [n \in DOMAIN pack \ {Manifest} |-> pack[n]]
  /\ \A n \in DOMAIN pack : pack[n].by = "export"

\* What an export replaces or removes is one of its own, or nothing.
WriteOK(m) ==
  /\ DOMAIN m = {"pc", "keep", "todo", "obsolete", "before", "pack", "compared"}
  /\ ArtifactsOK(m.todo) /\ PackOK(m.pack)
  /\ ToSet(m.todo) \subseteq DOMAIN m.pack
  /\ m.obsolete \cap DOMAIN m.pack = {}
  /\ \A n \in (ToSet(m.todo) \cup m.obsolete) \ {Manifest} :
       m.before[n].by \in {"nobody", "export"}

RoundOK(m) ==
  /\ m.pc \in {"round", "remove", "rmdir"} =>
       {"todo"} \subseteq DOMAIN m /\ m.todo \subseteq Round
  /\ m.pc \in {"remove", "rmdir"} => {"round"} \subseteq DOMAIN m /\ m.round \in Round
  /\ m.pc = "remove" =>
       /\ {"obsolete", "before", "compared"} \subseteq DOMAIN m
       /\ \A n \in m.obsolete : m.before[n].by = "export"

MemoryOK(m) ==
  /\ "pc" \in DOMAIN m
  /\ m.pc \in {"guard", "plan"} => RequestOK(m)
  /\ m.pc = "plan" => m.mode \in Modes
  /\ m.pc = "planned" => ArtifactsOK(m.artifacts) /\ Manifest \notin ToSet(m.artifacts)
  /\ m.pc \in {"lock", "owned", "capture"} =>
       /\ "artifacts" \in DOMAIN m /\ ArtifactsOK(m.artifacts)
       /\ Manifest \in ToSet(m.artifacts)
  /\ m.pc = "capture" => \A n \in DOMAIN m.previous : m.previous[n].by = "export"
  /\ m.pc = "write" => WriteOK(m)
  /\ RoundOK(m)

\* It has the lock.
Locked(m) == \/ m.pc \in {"owned", "capture", "write", "prune", "round", "remove", "rmdir"}
             \/ m.pc = "report" /\ ~m.check

PackInv ==
  /\ DiskOK
  /\ DOMAIN memory = Proc
  /\ \A p \in Proc : MemoryOK(memory[p]) /\ (Locked(memory[p]) => lock = p)

\* Nobody edits or dies, and no report is put into `latest`.
Quiet == edits = 0 /\ crashes = 0 /\ reports = 0

OnePack ==
  LET latest == disk[Latest]
      there == {n \in Name : Exists(latest[n])}
  IN  /\ there # {} => there = {Manifest} \cup DOMAIN Owned(Latest)
      /\ \A n \in there \ {Manifest} : latest[n] = Owned(Latest)[n]

\* Half way: what is written is the new pack, the rest is as it was captured.
Halfway(m) ==
  /\ \A n \in Name :
       disk[Latest][n] = IF n \in ToSet(m.todo) \cup m.obsolete THEN m.before[n]
                         ELSE IF n \in DOMAIN m.pack THEN m.pack[n]
                         ELSE Absent
  /\ m.obsolete \subseteq Name
  /\ \A n \in m.obsolete : Exists(m.before[n])

LatestInv ==
  Quiet =>
    /\ (\A p \in Proc : memory[p].pc # "write") => OnePack
    /\ \A p \in Proc : /\ memory[p].pc = "capture" => memory[p].previous = Owned(Latest)
                       /\ memory[p].pc = "write" => Halfway(memory[p])
-----------------------------------------------------------------------------
\* Only the command p moves.
Only(p) == DOMAIN memory' = Proc /\ \A q \in Proc \ {p} : memory'[q] = memory[q]

LEMMA Moves ==
  ASSUME PackInv, NEW p \in Proc, NEW f, Goes(p, f)
  PROVE  /\ Only(p)
         /\ memory'[p] = Updated(memory[p], f)
         /\ DOMAIN memory'[p] = DOMAIN memory[p] \cup DOMAIN f
         /\ \A x \in DOMAIN f : memory'[p][x] = f[x]
         /\ \A x \in DOMAIN memory[p] \ DOMAIN f : memory'[p][x] = memory[p][x]
<1>1. Only(p) /\ memory'[p] = Updated(memory[p], f)
  BY DEF Goes, PackInv, Only
<1> QED
  BY <1>1 DEF Updated

\* A command that keeps or gives back the lock, and what it now stands for.
LEMMA PackKept ==
  ASSUME PackInv, NEW p \in Proc, Only(p),
         MemoryOK(memory'[p]),
         Locked(memory'[p]) => lock' = p,
         \A q \in Proc \ {p} : lock = q => lock' = q,
         DiskOK'
  PROVE  PackInv'
BY DEF PackInv, Only

LEMMA SameLatest ==
  ASSUME disk'[Latest] = disk[Latest]
  PROVE  /\ OnePack' <=> OnePack
         /\ Owned(Latest)' = Owned(Latest)
         /\ \A q : memory'[q] = memory[q] =>
              (Halfway(memory[q])' <=> Halfway(memory[q]))
BY DEF OnePack, Owned, Halfway

\* `latest` stays as it is.
LEMMA LatestKept ==
  ASSUME LatestInv, NEW p \in Proc, Only(p),
         disk'[Latest] = disk[Latest], Quiet' => Quiet,
         Quiet => memory[p].pc # "write",
         memory'[p].pc \notin {"capture", "write"}
  PROVE  LatestInv'
<1> SUFFICES ASSUME Quiet'
             PROVE  /\ (\A q \in Proc : memory'[q].pc # "write") => OnePack'
                    /\ \A q \in Proc :
                         /\ memory'[q].pc = "capture" =>
                              memory'[q].previous = Owned(Latest)'
                         /\ memory'[q].pc = "write" => Halfway(memory[q])'
  BY DEF LatestInv
<1>1. /\ (\A q \in Proc : memory[q].pc # "write") => OnePack
      /\ \A q \in Proc : /\ memory[q].pc = "capture" => memory[q].previous = Owned(Latest)
                         /\ memory[q].pc = "write" => Halfway(memory[q])
  BY DEF LatestInv
<1>2. (\A q \in Proc : memory'[q].pc # "write") => OnePack'
  <2>1. \A q \in Proc : memory'[q].pc # "write" => (Quiet => memory[q].pc # "write")
    BY DEF Only
  <2> QED
    BY <2>1, <1>1, SameLatest
<1>3. ASSUME NEW q \in Proc
      PROVE  /\ memory'[q].pc = "capture" => memory'[q].previous = Owned(Latest)'
             /\ memory'[q].pc = "write" => Halfway(memory[q])'
  <2>1. CASE q = p
    BY <2>1
  <2>2. CASE q # p
    BY <2>2, <1>1, SameLatest DEF Only
  <2> QED
    BY <2>1, <2>2
<1> QED
  BY <1>2, <1>3

DiskKept == UNCHANGED <<disk, rounds, reports, edits, crashes>>

LEMMA DiskIsKept ==
  ASSUME DiskKept
  PROVE  DiskOK' <=> DiskOK
BY DEF DiskKept, DiskOK

\* A step of p that does not write to `latest`.
LEMMA KeptStep ==
  ASSUME PackInv, NEW p \in Proc, Only(p), MemoryOK(memory'[p]),
         memory'[p].pc \notin {"capture", "write"},
         Locked(memory'[p]) => lock' = p,
         \A q \in Proc \ {p} : lock = q => lock' = q,
         DiskOK', disk'[Latest] = disk[Latest], Quiet' => Quiet,
         Quiet => memory[p].pc # "write"
  PROVE  PackInv' /\ (LatestInv => LatestInv')
BY PackKept, LatestKept

\* A step of p that writes nothing.
LEMMA QuietStep ==
  ASSUME PackInv, NEW p \in Proc, Only(p), MemoryOK(memory'[p]),
         memory'[p].pc \notin {"capture", "write"},
         Locked(memory'[p]) => lock' = p,
         \A q \in Proc \ {p} : lock = q => lock' = q,
         DiskKept, memory[p].pc # "write"
  PROVE  PackInv' /\ (LatestInv => LatestInv')
<1>1. DiskOK' /\ disk'[Latest] = disk[Latest] /\ (Quiet' => Quiet)
  BY DiskIsKept DEF PackInv, DiskKept, Quiet
<1> QED
  BY <1>1, KeptStep

LEMMA IdleMemory == MemoryOK([pc |-> "idle"])
BY DEF MemoryOK, RoundOK

LEMMA EndsFacts ==
  ASSUME PackInv, NEW p \in Proc, Ends(p)
  PROVE  Only(p) /\ memory'[p] = [pc |-> "idle"] /\ memory'[p].pc = "idle"
         /\ MemoryOK(memory'[p]) /\ ~Locked(memory'[p])
<1>1. Only(p) /\ memory'[p] = [pc |-> "idle"]
  BY DEF Ends, PackInv, Only
<1> QED
  BY <1>1, IdleMemory DEF Locked

LEMMA ReadsFacts ==
  ASSUME Reads PROVE DiskKept /\ lock' = lock
BY DEF Reads, DiskKept, files, counters

LEMMA StopsStep ==
  ASSUME PackInv, NEW p \in Proc, NEW message, Stops(p, message),
         memory[p].pc # "write"
  PROVE  PackInv' /\ (LatestInv => LatestInv')
<1>1. DiskKept /\ Ends(p)
  BY DEF Stops, DiskKept, files, counters
<1>2. \A q \in Proc \ {p} : lock = q => lock' = q
  BY DEF Stops
<1> QED
  BY <1>1, <1>2, EndsFacts, QuietStep

\* A stop in the middle of writing.
LEMMA StopsPack ==
  ASSUME PackInv, NEW p \in Proc, NEW message, Stops(p, message)
  PROVE  PackInv'
<1>1. DiskKept /\ Ends(p)
  BY DEF Stops, DiskKept, files, counters
<1>2. \A q \in Proc \ {p} : lock = q => lock' = q
  BY DEF Stops
<1>3. DiskOK'
  BY <1>1, DiskIsKept DEF PackInv
<1> QED
  BY <1>1, <1>2, <1>3, EndsFacts, PackKept

LEMMA InitPack == Init => PackInv /\ LatestInv
<1> SUFFICES ASSUME Init PROVE PackInv /\ LatestInv
  OBVIOUS
<1>1. PICK old \in InitialRounds :
        disk = [d \in Dir |-> IF d \in Round THEN old[d] ELSE [n \in Name |-> Absent]]
  BY DEF Init
<1>2. Latest \in Dir /\ Latest \notin Round /\ Round \subseteq Dir
  BY RoundAssumption DEF Latest, Dir
<1>3. Manifest \in Name
  BY NameAssumption DEF PackNames
<1>4. ASSUME NEW d \in Dir PROVE DOMAIN disk[d] = Name /\ ListsExports(disk[d][Manifest])
  BY <1>1, <1>3, RoundsAssumption DEF ListsExports, Exists
<1>5. DOMAIN disk = Dir /\ rounds \subseteq Round
  BY <1>1 DEF Init
<1>6. DiskOK
  BY <1>4, <1>5 DEF Init, DiskOK
<1>7. DOMAIN memory = Proc /\ \A p \in Proc : memory[p] = [pc |-> "idle"]
  BY DEF Init
<1>8. PackInv
  BY <1>6, <1>7, IdleMemory DEF PackInv, Locked
<1>9. \A n \in Name : disk[Latest][n] = Absent
  BY <1>1, <1>2
<1>10. LatestInv
  BY <1>7, <1>9 DEF LatestInv, OnePack, Exists
<1> QED
  BY <1>8, <1>10
-----------------------------------------------------------------------------
LEMMA GiveStep ==
  ASSUME PackInv, NEW p \in Proc, Give(p)
  PROVE  PackInv' /\ (LatestInv => LatestInv')
<1>1. /\ memory[p].pc = "idle" /\ DiskKept /\ lock' = lock /\ MemoryOK(memory[p])
  BY DEF Give, At, DiskKept, files, PackInv
<1>2. CASE memory' = memory
  <2>1. Only(p) /\ memory'[p] = memory[p]
    BY <1>2 DEF PackInv, Only
  <2> QED
    BY <1>1, <2>1, QuietStep DEF Locked
<1>3. CASE \E request \in Requests :
             memory' = [memory EXCEPT ![p] = Updated(request, [pc |-> "guard"])]
  <2>1. PICK request \in Requests :
          memory' = [memory EXCEPT ![p] = Updated(request, [pc |-> "guard"])]
    BY <1>3
  <2>2. Only(p) /\ memory'[p] = Updated(request, [pc |-> "guard"])
    BY <2>1 DEF PackInv, Only
  <2>3. /\ "pc" \in DOMAIN memory'[p] /\ memory'[p].pc = "guard"
        /\ \A x \in DOMAIN request \ {"pc"} : memory'[p][x] = request[x] /\ x \in DOMAIN memory'[p]
    BY <2>2 DEF Updated
  <2>4. RequestOK(memory'[p])
    BY <2>3, RequestAssumption DEF RequestOK
  <2>5. MemoryOK(memory'[p])
    BY <2>3, <2>4 DEF MemoryOK, RoundOK
  <2> QED
    BY <1>1, <2>2, <2>3, <2>5, QuietStep DEF Locked
<1> QED
  BY <1>2, <1>3 DEF Give

LEMMA GotoFacts ==
  ASSUME PackInv, NEW p \in Proc, NEW l, Goto(p, l)
  PROVE  /\ memory'[p].pc = l
         /\ \A x \in DOMAIN memory[p] \ {"pc"} : memory'[p][x] = memory[p][x]
<1>1. memory'[p] = Updated(memory[p], [pc |-> l])
  BY DEF Goto, Goes, PackInv
<1> QED
  BY <1>1 DEF Updated

\* A step of p to a point of no account.
LEMMA GotoStep ==
  ASSUME PackInv, NEW p \in Proc, NEW l, Goto(p, l), Reads, memory[p].pc # "write",
         l \notin {"guard", "plan", "planned", "lock", "owned", "capture", "write",
                   "round", "remove", "rmdir"},
         ~Locked(memory'[p])
  PROVE  PackInv' /\ (LatestInv => LatestInv')
<1>1. Only(p) /\ memory'[p].pc = l /\ "pc" \in DOMAIN memory'[p]
  BY Moves DEF Goto
<1>2. MemoryOK(memory'[p])
  BY <1>1 DEF MemoryOK, RoundOK
<1> QED
  BY <1>1, <1>2, QuietStep, ReadsFacts DEF Locked

LEMMA GuardStep ==
  ASSUME PackInv, NEW p \in Proc, Guard(p)
  PROVE  PackInv' /\ (LatestInv => LatestInv')
<1>1. memory[p].pc = "guard" /\ RequestOK(memory[p])
  BY DEF Guard, At, PackInv, MemoryOK
<1>2. CASE Stops(p, "refused")
  BY <1>1, <1>2, StopsStep
<1>3. CASE ~ Stops(p, "refused")
  <2>1. CASE ~IsReport(memory[p])
    <3>1. Reads /\ Goto(p, "plan")
      BY <1>3, <2>1 DEF Guard
    <3>2. /\ Only(p) /\ memory'[p].pc = "plan" /\ "pc" \in DOMAIN memory'[p]
          /\ \A x \in DOMAIN memory[p] \ {"pc"} :
               memory'[p][x] = memory[p][x] /\ x \in DOMAIN memory'[p]
      BY <3>1, Moves DEF Goto
    <3>3. RequestOK(memory'[p]) /\ memory'[p].mode \in Modes
      BY <1>1, <2>1, <3>2 DEF RequestOK, IsReport
    <3>4. MemoryOK(memory'[p])
      BY <3>2, <3>3 DEF MemoryOK, RoundOK
    <3> QED
      BY <1>1, <3>1, <3>2, <3>4, QuietStep, ReadsFacts DEF Locked
  <2>2. CASE IsReport(memory[p])
    <3>1. Reads /\ ((memory[p].check /\ Goto(p, "report")) \/ Goto(p, "lock report"))
      BY <1>3, <2>2 DEF Guard
    <3>2. ~Locked(memory'[p])
      <4>1. "check" \in DOMAIN memory[p]
        BY <1>1 DEF RequestOK
      <4>2. CASE memory[p].check /\ Goto(p, "report")
        <5>1. memory'[p].check = memory[p].check /\ memory'[p].pc = "report"
          BY <4>1, <4>2, GotoFacts
        <5> QED
          BY <4>2, <5>1 DEF Locked
      <4>3. CASE Goto(p, "lock report")
        <5>1. memory'[p].pc = "lock report"
          BY <4>3, GotoFacts
        <5> QED
          BY <5>1 DEF Locked
      <4> QED
        BY <3>1, <4>2, <4>3
    <3> QED
      BY <1>1, <3>1, <3>2, GotoStep
  <2> QED
    BY <2>1, <2>2
<1> QED
  BY <1>2, <1>3

\* One more artifact, of another name.
LEMMA OneMore ==
  ASSUME NEW s, ArtifactsOK(s), NEW e \in Name, e \notin ToSet(s)
  PROVE  ArtifactsOK(s \o <<e>>) /\ ToSet(s \o <<e>>) = ToSet(s) \cup {e}
<1> DEFINE t == s \o <<e>>
<1>1. /\ t \in Seq(Name) /\ Len(t) = Len(s) + 1 /\ Len(s) \in Nat
      /\ \A i \in 1..Len(s) : t[i] = s[i]
      /\ t[Len(s) + 1] = e
      /\ DOMAIN s = 1..Len(s) /\ DOMAIN t = 1..(Len(s) + 1)
  BY DEF ArtifactsOK
<1> HIDE DEF t
<1>2. \A i \in 1..Len(s) : s[i] # e
  BY <1>1 DEF ToSet
<1>3. \A i \in 1..(Len(s) + 1) : i \in 1..Len(s) \/ i = Len(s) + 1
  BY <1>1
<1>4. ArtifactsOK(t)
  BY <1>1, <1>2, <1>3 DEF ArtifactsOK
<1>5. ToSet(t) = ToSet(s) \cup {e}
  <2>1. Len(s) + 1 \in 1..(Len(s) + 1) /\ \A i \in 1..Len(s) : i \in 1..(Len(s) + 1)
    BY <1>1
  <2> QED
    BY <1>1, <1>3, <2>1 DEF ToSet
<1> QED
  BY <1>4, <1>5 DEF t

LEMMA NoMore ==
  ASSUME NEW s, ArtifactsOK(s)
  PROVE  s \o <<>> = s
BY DEF ArtifactsOK

LEMMA PackNameFacts ==
  /\ "full" \in Name /\ "index" \in Name /\ "core" \in Name /\ "extended" \in Name
  /\ "support" \in Name /\ Manifest \in Name
BY NameAssumption DEF PackNames

LEMMA FirstArtifacts ==
  /\ ArtifactsOK(<<"index">>) /\ ToSet(<<"index">>) = {"index"}
  /\ ArtifactsOK(<<"full", "index">>) /\ ToSet(<<"full", "index">>) = {"full", "index"}
<1>1. ArtifactsOK(<<"index">>) /\ ToSet(<<"index">>) = {"index"}
  BY PackNameFacts DEF ArtifactsOK, ToSet
<1>2. ArtifactsOK(<<"full", "index">>)
  BY PackNameFacts DEF ArtifactsOK
<1>3. ToSet(<<"full", "index">>) = {"full", "index"}
  <2>1. DOMAIN <<"full", "index">> = {1, 2}
    OBVIOUS
  <2> QED
    BY <2>1 DEF ToSet
<1> QED
  BY <1>1, <1>2, <1>3

LEMMA DefaultBundles ==
  ASSUME NEW s, ArtifactsOK(s), NEW max, NEW bundles,
         ToSet(s) \subseteq {"full", "index"}
  PROVE  /\ ArtifactsOK(WithDefaultBundles(s, max, bundles))
         /\ Manifest \notin ToSet(WithDefaultBundles(s, max, bundles))
<1> DEFINE c == IF Slots(max, s) >= 1 /\ bundles.first # {} THEN <<"core">> ELSE <<>>
           e == IF Slots(max, s) >= 2 /\ bundles.second # {} THEN <<"extended">> ELSE <<>>
           t == s \o c
<1>1. ArtifactsOK(t) /\ ToSet(t) \subseteq {"full", "index", "core"}
  <2>1. CASE c = <<"core">>
    <3>1. ArtifactsOK(s \o <<"core">>) /\ ToSet(s \o <<"core">>) = ToSet(s) \cup {"core"}
      BY OneMore, PackNameFacts
    <3> QED
      BY <2>1, <3>1
  <2>2. CASE c = <<>>
    BY <2>2, NoMore
  <2> QED
    BY <2>1, <2>2
<1>2. WithDefaultBundles(s, max, bundles) = t \o e
  BY DEF WithDefaultBundles
<1> HIDE DEF t
<1>3. ArtifactsOK(t \o e) /\ ToSet(t \o e) \subseteq {"full", "index", "core", "extended"}
  <2>1. CASE e = <<"extended">>
    <3>1. /\ ArtifactsOK(t \o <<"extended">>)
          /\ ToSet(t \o <<"extended">>) = ToSet(t) \cup {"extended"}
      BY <1>1, OneMore, PackNameFacts
    <3> QED
      BY <1>1, <2>1, <3>1
  <2>2. CASE e = <<>>
    BY <1>1, <2>2, NoMore
  <2> QED
    BY <2>1, <2>2
<1> QED
  BY <1>2, <1>3 DEF Manifest

LEMMA TaskArtifacts ==
  ASSUME NEW max, NEW bundles, NEW task \in Name \ PackNames
  PROVE  /\ ArtifactsOK(WithTask(<<"full", "index">>, max, bundles, task))
         /\ Manifest \notin ToSet(WithTask(<<"full", "index">>, max, bundles, task))
<1> DEFINE s == <<"full", "index">>
           t == s \o <<task>>
           e == IF Slots(max, Append(s, task)) >= 1 /\ bundles.second # {}
                THEN <<"support">> ELSE <<>>
<1>1. Append(s, task) = t
  OBVIOUS
<1>2. WithTask(s, max, bundles, task) = t \o e
  BY <1>1 DEF WithTask
<1>3. ArtifactsOK(s) /\ ToSet(s) = {"full", "index"}
  BY FirstArtifacts
<1>4. task \notin {"full", "index", "support", Manifest} /\ task \in Name
  BY DEF PackNames
<1> HIDE DEF s
<1>5. ArtifactsOK(t) /\ ToSet(t) = {"full", "index", task}
  BY <1>3, <1>4, OneMore
<1> HIDE DEF t
<1>6. ArtifactsOK(t \o e) /\ ToSet(t \o e) \subseteq {"full", "index", "support", task}
  <2>1. CASE e = <<"support">>
    <3>1. /\ ArtifactsOK(t \o <<"support">>)
          /\ ToSet(t \o <<"support">>) = ToSet(t) \cup {"support"}
      BY <1>4, <1>5, OneMore, PackNameFacts
    <3> QED
      BY <1>5, <2>1, <3>1
  <2>2. CASE e = <<>>
    BY <1>5, <2>2, NoMore
  <2> QED
    BY <2>1, <2>2
<1> QED
  BY <1>2, <1>4, <1>6 DEF Manifest, s

\* The artifacts of a plan are different files of `latest`, and none is the
\* manifest.
LEMMA ArtifactsFacts ==
  ASSUME NEW mode \in Modes, NEW max, NEW bundles, NEW task,
         mode = "task-context" => task \in Name \ PackNames
  PROVE  /\ ArtifactsOK(Artifacts(mode, max, bundles, task))
         /\ Manifest \notin ToSet(Artifacts(mode, max, bundles, task))
<1>1. CASE mode = "code-index"
  BY <1>1, FirstArtifacts DEF Artifacts, Manifest
<1>2. CASE mode = "source-pack"
  <2>1. Artifacts(mode, max, bundles, task) = WithDefaultBundles(<<"full", "index">>, max, bundles)
    BY <1>2 DEF Artifacts
  <2> QED
    BY <2>1, FirstArtifacts, DefaultBundles
<1>3. CASE mode = "code-bundles"
  <2>1. Artifacts(mode, max, bundles, task) = WithDefaultBundles(<<"index">>, max, bundles)
    BY <1>3 DEF Artifacts
  <2> QED
    BY <2>1, FirstArtifacts, DefaultBundles
<1>4. CASE mode = "task-context"
  <2>1. Artifacts(mode, max, bundles, task) = WithTask(<<"full", "index">>, max, bundles, task)
    BY <1>4 DEF Artifacts
  <2> QED
    BY <1>4, <2>1, TaskArtifacts
<1> QED
  BY <1>1, <1>2, <1>3, <1>4 DEF Modes

LEMMA PlanStep ==
  ASSUME PackInv, NEW p \in Proc, Plan(p)
  PROVE  PackInv' /\ (LatestInv => LatestInv')
<1> DEFINE request == memory[p]
           bundles == Bundles(RecordsOf(request), request.strategy, BudgetOf(request))
           artifacts == Artifacts(request.mode, request.max, bundles, request.task)
<1>1. memory[p].pc = "plan" /\ RequestOK(request) /\ request.mode \in Modes
  BY DEF Plan, At, PackInv, MemoryOK
<1>2. CASE Stops(p, "refused")
  BY <1>1, <1>2, StopsStep
<1>3. CASE ~ Stops(p, "refused")
  <2>1. Reads /\ Goes(p, [pc |-> "planned", bundles |-> bundles, artifacts |-> artifacts])
    BY <1>3 DEF Plan
  <2>2. ArtifactsOK(artifacts) /\ Manifest \notin ToSet(artifacts)
    <3>1. request.mode = "task-context" => request.task \in Name \ PackNames
      BY <1>1 DEF RequestOK
    <3> HIDE DEF bundles
    <3> QED
      BY <1>1, <3>1, ArtifactsFacts
  <2> HIDE DEF artifacts, bundles
  <2>3. /\ Only(p) /\ "pc" \in DOMAIN memory'[p] /\ memory'[p].pc = "planned"
        /\ memory'[p].artifacts = artifacts
    BY <2>1, Moves
  <2>4. MemoryOK(memory'[p])
    BY <2>2, <2>3 DEF MemoryOK, RoundOK
  <2> QED
    BY <1>1, <2>1, <2>3, <2>4, QuietStep, ReadsFacts DEF Locked
<1> QED
  BY <1>2, <1>3

\* The manifest, put first.
LEMMA WithManifest ==
  ASSUME NEW s, ArtifactsOK(s), Manifest \notin ToSet(s)
  PROVE  ArtifactsOK(<<Manifest>> \o s) /\ Manifest \in ToSet(<<Manifest>> \o s)
<1> DEFINE t == <<Manifest>> \o s
<1>1. s \in Seq(Name) /\ Manifest \in Name /\ Len(s) \in Nat /\ DOMAIN s = 1..Len(s)
  BY PackNameFacts DEF ArtifactsOK
<1>2. /\ t \in Seq(Name) /\ Len(t) = Len(s) + 1 /\ DOMAIN t = 1..(Len(s) + 1)
      /\ t[1] = Manifest
      /\ \A i \in 2..(Len(s) + 1) : t[i] = s[i - 1]
  BY <1>1
<1>3. \A i \in 2..(Len(s) + 1) : i - 1 \in 1..Len(s) /\ t[i] # Manifest
  BY <1>1, <1>2 DEF ToSet
<1> HIDE DEF t
<1>4. ASSUME NEW i \in 1..Len(t), NEW j \in 1..Len(t), t[i] = t[j] PROVE i = j
  <2>1. CASE i = 1 \/ j = 1
    BY <1>1, <1>2, <1>3, <1>4, <2>1
  <2>2. CASE i # 1 /\ j # 1
    <3>1. i \in 2..(Len(s) + 1) /\ j \in 2..(Len(s) + 1)
      BY <1>1, <1>2, <2>2
    <3>2. s[i - 1] = s[j - 1] /\ i - 1 \in 1..Len(s) /\ j - 1 \in 1..Len(s)
      BY <1>2, <1>3, <1>4, <3>1
    <3>3. i - 1 = j - 1
      BY <3>2 DEF ArtifactsOK
    <3> QED
      BY <3>1, <3>3
  <2> QED
    BY <2>1, <2>2
<1>5. ArtifactsOK(t)
  BY <1>2, <1>4 DEF ArtifactsOK
<1>6. Manifest \in ToSet(t)
  <2>1. 1 \in DOMAIN t
    BY <1>1, <1>2
  <2> QED
    BY <1>2, <2>1 DEF ToSet
<1> QED
  BY <1>5, <1>6 DEF t

LEMMA AcceptStep ==
  ASSUME PackInv, NEW p \in Proc, Accept(p)
  PROVE  PackInv' /\ (LatestInv => LatestInv')
<1>1. /\ memory[p].pc = "planned"
      /\ ArtifactsOK(memory[p].artifacts) /\ Manifest \notin ToSet(memory[p].artifacts)
  BY DEF Accept, At, PackInv, MemoryOK
<1>2. CASE \E message : Stops(p, message)
  BY <1>1, <1>2, StopsStep
<1>3. CASE ~ \E message : Stops(p, message)
  <2> DEFINE all == <<Manifest>> \o memory[p].artifacts
             next == [pc |-> "lock", artifacts |-> all, keep |-> memory[p].keep]
  <2>1. memory' = [memory EXCEPT ![p] = next] /\ Reads
    BY <1>3 DEF Accept
  <2>2. ArtifactsOK(all) /\ Manifest \in ToSet(all)
    BY <1>1, WithManifest
  <2>3. MemoryOK(next) /\ next.pc = "lock"
    <3> HIDE DEF all
    <3> QED
      BY <2>2 DEF MemoryOK, RoundOK
  <2> HIDE DEF next
  <2>4. Only(p) /\ memory'[p] = next
    BY <2>1 DEF PackInv, Only
  <2> QED
    BY <1>1, <2>1, <2>3, <2>4, QuietStep, ReadsFacts DEF Locked
<1> QED
  BY <1>2, <1>3

LEMMA TakeLockStep ==
  ASSUME PackInv, NEW p \in Proc, TakeLock(p)
  PROVE  PackInv' /\ (LatestInv => LatestInv')
<1>1. /\ memory[p].pc \in {"lock", "lock prune", "lock report"} /\ lock = None
      /\ MemoryOK(memory[p])
  BY DEF TakeLock, PackInv
<1>2. CASE Stops(p, "refused")
  BY <1>1, <1>2, StopsStep
<1>3. CASE ~ Stops(p, "refused")
  <2> DEFINE next == CASE At(p, "lock") -> "owned" [] At(p, "lock prune") -> "prune"
                       [] OTHER -> "report"
  <2>1. lock' = p /\ Goto(p, next) /\ DiskKept
    BY <1>3 DEF TakeLock, DiskKept, files, counters
  <2>2. /\ next \in {"owned", "prune", "report"}
        /\ next = "owned" => memory[p].pc = "lock"
    BY <1>1 DEF At
  <2> HIDE DEF next
  <2>3. /\ Only(p) /\ memory'[p].pc = next /\ "pc" \in DOMAIN memory'[p]
        /\ \A x \in DOMAIN memory[p] \ {"pc"} :
             memory'[p][x] = memory[p][x] /\ x \in DOMAIN memory'[p]
    BY <2>1, Moves DEF Goto
  <2>4. MemoryOK(memory'[p])
    BY <1>1, <2>2, <2>3 DEF MemoryOK, RoundOK
  <2>5. \A q \in Proc \ {p} : lock = q => lock' = q
    BY <1>1, ProcAssumption
  <2> QED
    BY <1>1, <2>1, <2>2, <2>3, <2>4, <2>5, QuietStep DEF Locked
<1> QED
  BY <1>2, <1>3

LEMMA ReadOwnedStep ==
  ASSUME PackInv, NEW p \in Proc, ReadOwned(p)
  PROVE  PackInv' /\ (LatestInv => LatestInv')
<1>1. memory[p].pc = "owned" /\ MemoryOK(memory[p]) /\ lock = p /\ DiskOK
  BY DEF ReadOwned, At, PackInv, Locked
<1>2. CASE Stops(p, "unrecognized export manifest")
  BY <1>1, <1>2, StopsStep
<1>3. CASE ~ Stops(p, "unrecognized export manifest")
  <2> DEFINE f == [pc |-> "capture", previous |-> Owned(Latest)]
  <2>1. Reads /\ Goes(p, f)
    BY <1>3 DEF ReadOwned
  <2>2. /\ Only(p) /\ memory'[p].pc = "capture" /\ "pc" \in DOMAIN memory'[p]
        /\ memory'[p].previous = Owned(Latest)
        /\ \A x \in DOMAIN memory[p] \ {"pc", "previous"} :
             memory'[p][x] = memory[p][x] /\ x \in DOMAIN memory'[p]
    <3>1. Only(p) /\ memory'[p] = Updated(memory[p], f)
      BY <2>1 DEF Goes, PackInv, Only
    <3> QED
      BY <3>1 DEF Updated
  <2>3. \A n \in DOMAIN Owned(Latest) : Owned(Latest)[n].by = "export"
    BY <1>1 DEF DiskOK, Dir, Owned, ListsExports, Nothing
  <2>4. MemoryOK(memory'[p])
    BY <1>1, <2>2, <2>3 DEF MemoryOK, RoundOK
  <2>5. PackInv'
    BY <1>1, <2>1, <2>2, <2>4, ReadsFacts, DiskIsKept, PackKept DEF Locked
  <2>6. ASSUME LatestInv PROVE LatestInv'
    <3> SUFFICES ASSUME Quiet'
                 PROVE  /\ (\A q \in Proc : memory'[q].pc # "write") => OnePack'
                        /\ \A q \in Proc :
                             /\ memory'[q].pc = "capture" =>
                                  memory'[q].previous = Owned(Latest)'
                             /\ memory'[q].pc = "write" => Halfway(memory[q])'
      BY DEF LatestInv
    <3>1. Quiet /\ disk'[Latest] = disk[Latest]
      BY <2>1, ReadsFacts DEF DiskKept, Quiet
    <3>2. Owned(Latest)' = Owned(Latest) /\ (OnePack' <=> OnePack)
      BY <3>1, SameLatest
    <3>3. \A q \in Proc : memory'[q].pc = "write" => q # p /\ memory'[q] = memory[q]
      BY <2>2 DEF Only
    <3>4. \A q \in Proc \ {p} : memory'[q] = memory[q]
      BY <2>2 DEF Only
    <3>5. \A q \in Proc : memory'[q].pc = "write" => Halfway(memory[q])'
      BY <2>6, <3>1, <3>3, SameLatest DEF LatestInv
    <3>6. (\A q \in Proc : memory'[q].pc # "write") => OnePack'
      BY <1>1, <2>6, <3>1, <3>2, <3>4 DEF LatestInv
    <3> QED
      BY <2>2, <2>6, <3>1, <3>2, <3>4, <3>5, <3>6 DEF LatestInv
  <2> QED
    BY <2>5, <2>6
<1> QED
  BY <1>2, <1>3
-----------------------------------------------------------------------------
\* The pack that will be written, and what is captured at its places.
LEMMA NewPackFacts ==
  ASSUME NEW names, names \subseteq Name, Manifest \in names, NEW at
  PROVE  PackOK(NewPack(names, at)) /\ DOMAIN NewPack(names, at) = names
<1> DEFINE pack == NewPack(names, at)
           texts == [n \in names \ {Manifest} |-> Text("export", at)]
<1>1. DOMAIN pack = names
  BY DEF NewPack
<1>2. pack[Manifest] = ManifestText("export", at, TRUE, texts)
  BY DEF NewPack
<1>3. \A n \in names \ {Manifest} : pack[n] = Text("export", at)
  BY DEF NewPack
<1> HIDE DEF pack
<1>4. /\ "lists" \in DOMAIN pack[Manifest] /\ pack[Manifest].lists = texts
      /\ pack[Manifest].by = "export"
  BY <1>2 DEF ManifestText
<1>5. \A n \in names : pack[n].by = "export"
  BY <1>3, <1>4 DEF Text
<1>6. texts = [n \in DOMAIN pack \ {Manifest} |-> pack[n]]
  BY <1>1, <1>3
<1> QED
  BY <1>1, <1>4, <1>5, <1>6 DEF PackOK, pack

LEMMA CaptureCases ==
  ASSUME PackInv, NEW p \in Proc, Capture(p), ~ Stops(p, "export_conflict")
  PROVE  LET previous == memory[p].previous
             artifacts == ToSet(memory[p].artifacts)
             found == disk[Latest]
         IN  /\ \A n \in artifacts \ {Manifest} : IsGenerated(previous, n, found[n])
             /\ \A n \in DOMAIN previous : IsGenerated(previous, n, found[n])
             /\ memory' = [memory EXCEPT ![p] =
                   [pc |-> "write", keep |-> @.keep, todo |-> @.artifacts,
                    obsolete |-> Obsolete(previous, artifacts), compared |-> None,
                    before |-> [n \in artifacts \cup DOMAIN previous |-> found[n]],
                    pack |-> NewPack(artifacts, clock + 1)]]
             /\ UNCHANGED <<settings, disk, rounds, reports, late, lock, counters>>
BY DEF Capture

\* Nothing is at a place, or what an earlier export wrote.
LEMMA GeneratedIsOurs ==
  ASSUME NEW previous, NEW n, NEW file, IsGenerated(previous, n, file),
         \A k \in DOMAIN previous : previous[k].by = "export"
  PROVE  file.by \in {"nobody", "export"}
BY DEF IsGenerated, Exists, Absent

LEMMA CaptureStep ==
  ASSUME PackInv, NEW p \in Proc, Capture(p)
  PROVE  PackInv' /\ (LatestInv => LatestInv')
<1>1. memory[p].pc = "capture" /\ MemoryOK(memory[p]) /\ lock = p /\ DiskOK
  BY DEF Capture, At, PackInv, Locked
<1>2. CASE Stops(p, "export_conflict")
  BY <1>1, <1>2, StopsStep
<1>3. CASE ~ Stops(p, "export_conflict")
  <2> DEFINE previous == memory[p].previous
             artifacts == ToSet(memory[p].artifacts)
             found == disk[Latest]
             obsolete == Obsolete(previous, artifacts)
             before == [n \in artifacts \cup DOMAIN previous |-> found[n]]
             pack == NewPack(artifacts, clock + 1)
             next == [pc |-> "write", keep |-> memory[p].keep,
                      todo |-> memory[p].artifacts, obsolete |-> obsolete,
                      compared |-> None, before |-> before, pack |-> pack]
  <2>1. /\ \A n \in artifacts \ {Manifest} : IsGenerated(previous, n, found[n])
        /\ \A n \in DOMAIN previous : IsGenerated(previous, n, found[n])
        /\ memory' = [memory EXCEPT ![p] = next]
        /\ DiskKept /\ lock' = lock
    BY <1>3, CaptureCases DEF DiskKept, counters
  <2>2. /\ ArtifactsOK(memory[p].artifacts) /\ Manifest \in artifacts
        /\ \A n \in DOMAIN previous : previous[n].by = "export"
    BY <1>1 DEF MemoryOK
  <2>3. artifacts \subseteq Name
    BY <2>2 DEF ToSet, ArtifactsOK
  <2>4. PackOK(pack) /\ DOMAIN pack = artifacts
    BY <2>2, <2>3, NewPackFacts
  <2>5. obsolete = DOMAIN previous \ artifacts
    BY DEF Obsolete
  <2>6. \A n \in (artifacts \cup obsolete) \ {Manifest} : before[n].by \in {"nobody", "export"}
    BY <2>1, <2>2, <2>5, GeneratedIsOurs
  <2>7. /\ DOMAIN next = {"pc", "keep", "todo", "obsolete", "before", "pack", "compared"}
        /\ next.pc = "write" /\ next.todo = memory[p].artifacts
        /\ next.obsolete = obsolete /\ next.before = before /\ next.pack = pack
    OBVIOUS
  <2>8. WriteOK(next)
    <3> HIDE DEF next, pack, before, obsolete
    <3> QED
      BY <2>2, <2>4, <2>5, <2>6, <2>7 DEF WriteOK
  <2>9. MemoryOK(next)
    <3> HIDE DEF next
    <3> QED
      BY <2>7, <2>8 DEF MemoryOK, RoundOK
  <2>10. Only(p) /\ memory'[p] = next
    BY <2>1 DEF PackInv, Only
  <2>11. PackInv'
    BY <1>1, <2>1, <2>7, <2>9, <2>10, DiskIsKept, PackKept DEF Locked
  <2>12. ASSUME LatestInv PROVE LatestInv'
    <3> SUFFICES ASSUME Quiet'
                 PROVE  /\ (\A q \in Proc : memory'[q].pc # "write") => OnePack'
                        /\ \A q \in Proc :
                             /\ memory'[q].pc = "capture" =>
                                  memory'[q].previous = Owned(Latest)'
                             /\ memory'[q].pc = "write" => Halfway(memory[q])'
      BY <2>12 DEF LatestInv
    <3>1. Quiet /\ disk'[Latest] = disk[Latest]
      BY <2>1 DEF DiskKept, Quiet
    <3>2. \A q \in Proc \ {p} : memory'[q] = memory[q] /\ memory[q].pc \notin {"capture", "write"}
      BY <1>1, <2>10 DEF PackInv, Only, Locked
    <3>3. OnePack /\ previous = Owned(Latest)
      BY <1>1, <2>12, <3>1, <3>2 DEF LatestInv
    <3>4. \A n \in Name : Exists(found[n]) => n \in artifacts \cup DOMAIN previous
      BY <2>2, <3>3 DEF OnePack
    <3>5. obsolete \subseteq Name /\ \A n \in obsolete : Exists(found[n])
      <4>1. CASE Exists(found[Manifest])
        <5>1. {n \in Name : Exists(found[n])} = {Manifest} \cup DOMAIN previous
          BY <3>3, <4>1, PackNameFacts DEF OnePack
        <5> QED
          BY <2>5, <5>1
      <4>2. CASE ~Exists(found[Manifest])
        BY <2>5, <3>3, <4>2 DEF Owned, Nothing
      <4> QED
        BY <4>1, <4>2
    <3>6. \A n \in Name : found[n] = IF n \in artifacts \cup obsolete THEN before[n]
                                     ELSE IF n \in DOMAIN pack THEN pack[n] ELSE Absent
      BY <2>4, <2>5, <3>4 DEF Exists
    <3>7. \A n \in obsolete : Exists(before[n])
      BY <2>5, <3>5
    <3>8. Halfway(memory[p])'
      <4> HIDE DEF next, pack, before, obsolete
      <4> QED
        BY <2>7, <2>10, <3>1, <3>5, <3>6, <3>7 DEF Halfway
    <3> QED
      BY <2>7, <2>10, <3>2, <3>8
  <2> QED
    BY <2>11, <2>12
<1> QED
  BY <1>2, <1>3

\* Put at a place of `latest` or of a round.
LEMMA PutFacts ==
  ASSUME DiskOK, NEW d \in Dir, NEW n, NEW content, Put(d, n, content),
         n = Manifest => ListsExports(content)
  PROVE  /\ DiskOK'
         /\ \A e \in Dir \ {d} : disk'[e] = disk[e]
         /\ \A k \in Name \ {n} : disk'[d][k] = disk[d][k]
         /\ n \in Name => disk'[d][n] = content
         /\ UNCHANGED <<rounds, edits, crashes, reports>>
<1>1. /\ disk' = [disk EXCEPT ![d][n] = content]
      /\ UNCHANGED <<rounds, edits, crashes, reports>>
  BY DEF Put, counters
<1>2. /\ DOMAIN disk' = Dir /\ DOMAIN disk'[d] = Name
      /\ \A e \in Dir \ {d} : disk'[e] = disk[e]
      /\ \A k \in Name \ {n} : disk'[d][k] = disk[d][k]
      /\ n \in Name => disk'[d][n] = content
  BY <1>1 DEF DiskOK
<1>3. Manifest \in Name
  BY PackNameFacts
<1>4. \A e \in Dir : DOMAIN disk'[e] = Name /\ ListsExports(disk'[e][Manifest])
  <2> TAKE e \in Dir
  <2>1. CASE e # d
    BY <1>2, <2>1 DEF DiskOK
  <2>2. CASE e = d /\ n # Manifest
    BY <1>2, <1>3, <2>2 DEF DiskOK
  <2>3. CASE e = d /\ n = Manifest
    BY <1>2, <1>3, <2>3
  <2> QED
    BY <2>1, <2>2, <2>3
<1> QED
  BY <1>1, <1>2, <1>4 DEF DiskOK

LEMMA DirFacts ==
  Latest \in Dir /\ Latest \notin Round /\ Round \subseteq Dir
BY RoundAssumption DEF Latest, Dir

\* While p writes, only p does.
LEMMA OneWriter ==
  ASSUME PackInv, NEW p \in Proc, memory[p].pc = "write"
  PROVE  \A q \in Proc \ {p} : memory[q].pc \notin {"owned", "capture", "write"}
BY DEF PackInv, Locked

\* A step of the writer keeps the new pack half way.
LEMMA WriterStep ==
  ASSUME PackInv, NEW p \in Proc, memory[p].pc = "write", Only(p),
         memory'[p].pc = "write", WriteOK(memory'[p]), lock' = lock, DiskOK',
         UNCHANGED <<edits, crashes, reports>>,
         Quiet /\ Halfway(memory[p]) => Halfway(memory[p])'
  PROVE  PackInv' /\ (LatestInv => LatestInv')
<1>1. lock = p
  BY DEF PackInv, Locked
<1>2. MemoryOK(memory'[p])
  BY DEF MemoryOK, RoundOK, WriteOK
<1>3. PackInv'
  BY <1>1, <1>2, PackKept DEF Locked
<1>4. ASSUME LatestInv PROVE LatestInv'
  BY <1>4, OneWriter DEF LatestInv, Quiet, Only
<1> QED
  BY <1>3, <1>4

LEMMA SeqFacts ==
  ASSUME NEW s, ArtifactsOK(s), s # <<>>
  PROVE  /\ Head(s) \in Name /\ ArtifactsOK(Tail(s))
         /\ ToSet(s) = {Head(s)} \cup ToSet(Tail(s))
         /\ Head(s) \notin ToSet(Tail(s))
<1>1. s \in Seq(Name) /\ Len(s) \in Nat \ {0} /\ DOMAIN s = 1..Len(s)
  BY DEF ArtifactsOK
<1> DEFINE t == Tail(s)
<1>2. /\ t \in Seq(Name) /\ Len(t) = Len(s) - 1 /\ DOMAIN t = 1..(Len(s) - 1)
      /\ \A i \in 1..(Len(s) - 1) : t[i] = s[i + 1]
      /\ Head(s) = s[1] /\ s[1] \in Name
  BY <1>1
<1> HIDE DEF t
<1>3. \A i \in 1..(Len(s) - 1) : i + 1 \in 1..Len(s) /\ i + 1 # 1
  BY <1>1
<1>4. \A i \in 1..Len(s) : i = 1 \/ i - 1 \in 1..(Len(s) - 1)
  BY <1>1
<1>5. ArtifactsOK(t)
  <2> SUFFICES ASSUME NEW i \in 1..Len(t), NEW j \in 1..Len(t), t[i] = t[j] PROVE i = j
    BY <1>2 DEF ArtifactsOK
  <2>1. s[i + 1] = s[j + 1] /\ i + 1 \in 1..Len(s) /\ j + 1 \in 1..Len(s)
    BY <1>2, <1>3
  <2>2. i + 1 = j + 1
    BY <2>1 DEF ArtifactsOK
  <2> QED
    BY <1>1, <1>2, <2>2
<1>6. ToSet(t) = {s[i + 1] : i \in 1..(Len(s) - 1)}
  BY <1>2 DEF ToSet
<1>7. ToSet(s) = {s[1]} \cup ToSet(t)
  <2>1. ASSUME NEW x \in ToSet(s) PROVE x \in {s[1]} \cup ToSet(t)
    <3>1. PICK i \in 1..Len(s) : x = s[i]
      BY <1>1, <2>1 DEF ToSet
    <3>2. CASE i = 1
      BY <3>1, <3>2
    <3>3. CASE i # 1
      <4>1. i - 1 \in 1..(Len(s) - 1) /\ (i - 1) + 1 = i
        BY <1>1, <1>4, <3>3
      <4> QED
        BY <1>6, <3>1, <4>1
    <3> QED
      BY <3>2, <3>3
  <2>2. s[1] \in ToSet(s)
    BY <1>1 DEF ToSet
  <2>3. ToSet(t) \subseteq ToSet(s)
    BY <1>1, <1>3, <1>6 DEF ToSet
  <2> QED
    BY <2>1, <2>2, <2>3
<1>8. s[1] \notin ToSet(t)
  <2> SUFFICES ASSUME NEW i \in 1..(Len(s) - 1), s[1] = s[i + 1] PROVE FALSE
    BY <1>6
  <2>1. 1 \in 1..Len(s) /\ i + 1 \in 1..Len(s) /\ i + 1 # 1
    BY <1>1, <1>3
  <2> QED
    BY <2>1 DEF ArtifactsOK
<1> QED
  BY <1>2, <1>5, <1>7, <1>8 DEF t

\* A command goes on with another file.
LEMMA ContinuesFacts ==
  ASSUME PackInv, NEW p \in Proc, NEW rest, Continues(p, rest),
         "compared" \notin DOMAIN rest
  PROVE  /\ Only(p) /\ lock' = lock
         /\ DOMAIN memory'[p] = DOMAIN memory[p] \cup DOMAIN rest \cup {"compared"}
         /\ memory'[p].compared = None
         /\ \A x \in DOMAIN rest : memory'[p][x] = rest[x]
         /\ \A x \in DOMAIN memory[p] \ (DOMAIN rest \cup {"compared"}) :
              memory'[p][x] = memory[p][x]
<1> DEFINE f == Updated(rest, [compared |-> None])
<1>1. /\ DOMAIN f = DOMAIN rest \cup {"compared"} /\ f["compared"] = None
      /\ \A x \in DOMAIN rest : f[x] = rest[x]
  BY DEF Updated
<1>2. Goes(p, f) /\ lock' = lock
  BY DEF Continues
<1> HIDE DEF f
<1>3. /\ Only(p) /\ DOMAIN memory'[p] = DOMAIN memory[p] \cup DOMAIN f
      /\ \A x \in DOMAIN f : memory'[p][x] = f[x]
      /\ \A x \in DOMAIN memory[p] \ DOMAIN f : memory'[p][x] = memory[p][x]
  BY <1>2, Moves
<1>4. memory'[p]["compared"] = None
  BY <1>1, <1>3
<1> QED
  BY <1>1, <1>2, <1>3, <1>4

\* The file n of d has passed its last compare.
Passes(p, d, n) ==
  /\ disk[d][n] = memory[p].before[n]
  /\ Goes(p, [compared |-> n]) /\ DiskKept /\ lock' = lock /\ late' = FALSE
  /\ project' = project

LEMMA CompareCases ==
  ASSUME NEW p, NEW d, NEW n, Compare(p, d, n)
  PROVE  /\ memory[p].compared = None
         /\ \/ Passes(p, d, n)
            \/ Stops(p, "conflict") /\ disk[d][n] # memory[p].before[n]
BY DEF Compare, AsCaptured, Passes, DiskKept, counters, settings

LEMMA PassesFacts ==
  ASSUME PackInv, NEW p \in Proc, NEW d, NEW n, Passes(p, d, n),
         "compared" \in DOMAIN memory[p]
  PROVE  /\ Only(p) /\ DOMAIN memory'[p] = DOMAIN memory[p]
         /\ memory'[p].compared = n
         /\ \A x \in DOMAIN memory[p] \ {"compared"} : memory'[p][x] = memory[p][x]
<1> DEFINE f == [compared |-> n]
<1>1. Goes(p, f) /\ DOMAIN f = {"compared"} /\ f["compared"] = n
  BY DEF Passes
<1> HIDE DEF f
<1>2. /\ Only(p) /\ DOMAIN memory'[p] = DOMAIN memory[p] \cup DOMAIN f
      /\ \A x \in DOMAIN f : memory'[p][x] = f[x]
      /\ \A x \in DOMAIN memory[p] \ DOMAIN f : memory'[p][x] = memory[p][x]
  BY <1>1, Moves
<1>3. memory'[p]["compared"] = n
  BY <1>1, <1>2
<1> QED
  BY <1>1, <1>2, <1>3

LEMMA ReplaceFileCases ==
  ASSUME NEW p, NEW d, NEW n, NEW content, NEW rest, ReplaceFile(p, d, n, content, rest)
  PROVE  \/ Passes(p, d, n)
         \/ Stops(p, "conflict") /\ disk[d][n] # memory[p].before[n]
         \/ memory[p].compared = n /\ Put(d, n, content) /\ Continues(p, rest)
<1>1. CASE Compare(p, d, n)
  BY <1>1, CompareCases
<1>2. CASE ~Compare(p, d, n)
  BY <1>2 DEF ReplaceFile
<1> QED
  BY <1>1, <1>2

LEMMA RemoveFileCases ==
  ASSUME NEW p, NEW d, NEW n, NEW rest, RemoveFile(p, d, n, rest)
  PROVE  \/ Passes(p, d, n)
         \/ Stops(p, "conflict")
              /\ (Exists(memory[p].before[n]) => disk[d][n] # memory[p].before[n])
         \/ /\ ~Exists(memory[p].before[n]) \/ ~Exists(disk[d][n])
            /\ DiskKept /\ late' = late /\ project' = project /\ Continues(p, rest)
         \/ memory[p].compared = n /\ Put(d, n, Absent) /\ Continues(p, rest)
         \/ /\ memory[p].compared = n /\ Put(d, n, Absent)
            /\ disk[d][n] # memory[p].before[n] /\ Ends(p) /\ lock' = None
<1>1. CASE Compare(p, d, n)
  BY <1>1, CompareCases
<1>2. CASE /\ memory[p].compared = None
           /\ ~Exists(memory[p].before[n]) \/ ~Exists(disk[d][n])
           /\ Continues(p, rest) /\ UNCHANGED <<settings, files, counters>>
  BY <1>2 DEF DiskKept, files, counters, settings
<1>3. CASE /\ memory[p].compared = n
           /\ IF ~Exists(disk[d][n]) THEN Stops(p, "conflict")
              ELSE /\ Put(d, n, Absent)
                   /\ \/ Continues(p, rest)
                      \/ ~AsCaptured(d, n, memory[p].before[n]) /\ Ends(p) /\ lock' = None
  BY <1>3 DEF AsCaptured
<1> QED
  BY <1>1, <1>2, <1>3 DEF RemoveFile

LEMMA ManifestListsExports ==
  ASSUME NEW pack, PackOK(pack)
  PROVE  ListsExports(pack[Manifest])
BY DEF PackOK, ListsExports

\* The writer has compared a file.
LEMMA WriterCompares ==
  ASSUME PackInv, NEW p \in Proc, memory[p].pc = "write", NEW n, Passes(p, Latest, n)
  PROVE  PackInv' /\ (LatestInv => LatestInv')
<1> DEFINE m == memory[p]
<1>1. WriteOK(m) /\ DiskOK
  BY DEF PackInv, MemoryOK
<1>2. DOMAIN m = {"pc", "keep", "todo", "obsolete", "before", "pack", "compared"}
  BY <1>1 DEF WriteOK
<1>3. /\ Only(p) /\ DOMAIN memory'[p] = DOMAIN m
      /\ \A x \in DOMAIN m \ {"compared"} : memory'[p][x] = m[x]
  BY <1>2, PassesFacts
<1>4. /\ memory'[p].pc = "write" /\ memory'[p].todo = m.todo
      /\ memory'[p].obsolete = m.obsolete /\ memory'[p].before = m.before
      /\ memory'[p].pack = m.pack
  BY <1>2, <1>3
<1>5. WriteOK(memory'[p])
  BY <1>1, <1>2, <1>3, <1>4 DEF WriteOK
<1>6. DiskKept /\ lock' = lock
  BY DEF Passes
<1>7. DiskOK' /\ disk' = disk /\ UNCHANGED <<edits, crashes, reports>>
  BY <1>1, <1>6, DiskIsKept DEF DiskKept
<1>8. Halfway(m) => Halfway(m)'
  BY <1>4, <1>7 DEF Halfway
<1> QED
  BY <1>3, <1>4, <1>5, <1>6, <1>7, <1>8, WriterStep

\* The writer finds a file that is not what it captured.
LEMMA WriterStops ==
  ASSUME PackInv, NEW p \in Proc, memory[p].pc = "write", PackInv',
         UNCHANGED <<edits, crashes, reports>>,
         NEW n \in Name, n \in ToSet(memory[p].todo) \cup memory[p].obsolete,
         disk[Latest][n] # memory[p].before[n]
  PROVE  PackInv' /\ (LatestInv => LatestInv')
<1>1. ASSUME LatestInv, Quiet PROVE FALSE
  BY <1>1 DEF LatestInv, Halfway
<1>2. Quiet' => Quiet
  BY DEF Quiet
<1> QED
  BY <1>1, <1>2 DEF LatestInv

LEMMA WriteArtifactCases ==
  ASSUME PackInv, NEW p \in Proc, WriteArtifact(p)
  PROVE  LET n == Head(memory[p].todo) IN
         /\ memory[p].pc = "write" /\ memory[p].todo # <<>> /\ WriteOK(memory[p])
         /\ n \in Name /\ n \in ToSet(memory[p].todo)
         /\ \/ Passes(p, Latest, n)
            \/ Stops(p, "conflict") /\ disk[Latest][n] # memory[p].before[n]
            \/ /\ memory[p].compared = n /\ Put(Latest, n, memory[p].pack[n])
               /\ Continues(p, [todo |-> Tail(memory[p].todo)])
<1>1. memory[p].pc = "write" /\ memory[p].todo # <<>> /\ WriteOK(memory[p])
  BY DEF WriteArtifact, At, PackInv, MemoryOK
<1>2. Head(memory[p].todo) \in Name /\ Head(memory[p].todo) \in ToSet(memory[p].todo)
  BY <1>1, SeqFacts DEF WriteOK
<1> QED
  BY <1>1, <1>2, ReplaceFileCases DEF WriteArtifact

LEMMA WriteArtifactStep ==
  ASSUME PackInv, NEW p \in Proc, WriteArtifact(p)
  PROVE  PackInv' /\ (LatestInv => LatestInv')
<1> DEFINE m == memory[p]
           n == Head(m.todo)
<1>1. /\ m.pc = "write" /\ m.todo # <<>> /\ WriteOK(m)
      /\ n \in Name /\ n \in ToSet(m.todo) /\ DiskOK
  BY WriteArtifactCases DEF PackInv
<1>2. CASE Stops(p, "conflict") /\ disk[Latest][n] # m.before[n]
  <2>1. PackInv' /\ UNCHANGED <<edits, crashes, reports>>
    BY <1>2, StopsPack DEF Stops, files, counters
  <2> HIDE DEF n
  <2> QED
    BY <1>1, <1>2, <2>1, WriterStops
<1>3. CASE Put(Latest, n, m.pack[n]) /\ Continues(p, [todo |-> Tail(m.todo)])
  <2>1. /\ ArtifactsOK(Tail(m.todo)) /\ n \notin ToSet(Tail(m.todo))
        /\ ToSet(m.todo) = {n} \cup ToSet(Tail(m.todo))
        /\ PackOK(m.pack) /\ n \in DOMAIN m.pack
        /\ DOMAIN m = {"pc", "keep", "todo", "obsolete", "before", "pack", "compared"}
    BY <1>1, SeqFacts DEF WriteOK
  <2>2. n = Manifest => ListsExports(m.pack[n])
    BY <2>1, ManifestListsExports
  <2>3. /\ DiskOK' /\ UNCHANGED <<rounds, edits, crashes, reports>>
        /\ \A k \in Name \ {n} : disk'[Latest][k] = disk[Latest][k]
        /\ disk'[Latest][n] = m.pack[n]
    <3> HIDE DEF n
    <3> QED
      BY <1>1, <1>3, <2>2, DirFacts, PutFacts
  <2>4. /\ Only(p) /\ DOMAIN memory'[p] = DOMAIN m /\ lock' = lock
        /\ memory'[p].todo = Tail(m.todo)
        /\ \A x \in DOMAIN m \ {"todo", "compared"} : memory'[p][x] = m[x]
    <3> DEFINE rest == [todo |-> Tail(m.todo)]
    <3>1. /\ Continues(p, rest) /\ DOMAIN rest = {"todo"}
          /\ rest["todo"] = Tail(m.todo)
      BY <1>3
    <3> HIDE DEF rest
    <3>2. /\ Only(p) /\ lock' = lock
          /\ DOMAIN memory'[p] = DOMAIN m \cup DOMAIN rest \cup {"compared"}
          /\ \A x \in DOMAIN rest : memory'[p][x] = rest[x]
          /\ \A x \in DOMAIN m \ (DOMAIN rest \cup {"compared"}) : memory'[p][x] = m[x]
      BY <3>1, ContinuesFacts
    <3>3. memory'[p]["todo"] = Tail(m.todo)
      BY <3>1, <3>2
    <3> QED
      BY <2>1, <3>1, <3>2, <3>3
  <2>5. /\ memory'[p].pc = "write" /\ memory'[p].obsolete = m.obsolete
        /\ memory'[p].before = m.before /\ memory'[p].pack = m.pack
    BY <1>1, <2>1, <2>4
  <2>6. WriteOK(memory'[p])
    BY <1>1, <2>1, <2>4, <2>5 DEF WriteOK
  <2>7. ASSUME Halfway(m) PROVE Halfway(m)'
    <3> HIDE DEF n
    <3>1. n \notin ToSet(memory'[p].todo) \cup memory'[p].obsolete
      BY <1>1, <2>1, <2>4, <2>5 DEF WriteOK
    <3> QED
      BY <1>1, <2>1, <2>3, <2>4, <2>5, <2>7, <3>1 DEF Halfway
  <2> QED
    BY <1>1, <2>3, <2>4, <2>5, <2>6, <2>7, WriterStep DEF Locked
<1>4. CASE Passes(p, Latest, n)
  BY <1>1, <1>4, WriterCompares
<1> QED
  BY <1>2, <1>3, <1>4, WriteArtifactCases

LEMMA RemoveObsoleteCases ==
  ASSUME PackInv, NEW p \in Proc, RemoveObsolete(p)
  PROVE  /\ memory[p].pc = "write" /\ memory[p].todo = <<>> /\ WriteOK(memory[p])
         /\ \E n \in memory[p].obsolete :
              RemoveFile(p, Latest, n, [obsolete |-> memory[p].obsolete \ {n}])
BY DEF RemoveObsolete, At, PackInv, MemoryOK

LEMMA RemoveObsoleteStep ==
  ASSUME PackInv, NEW p \in Proc, RemoveObsolete(p)
  PROVE  PackInv' /\ (LatestInv => LatestInv')
<1> DEFINE m == memory[p]
<1>1. /\ m.pc = "write" /\ m.todo = <<>> /\ WriteOK(m) /\ DiskOK /\ lock = p
      /\ ListsExports(Absent)
  BY RemoveObsoleteCases DEF PackInv, Locked, ListsExports, Exists
<1>2. PICK n \in m.obsolete : RemoveFile(p, Latest, n, [obsolete |-> m.obsolete \ {n}])
  BY RemoveObsoleteCases
<1> DEFINE rest == [obsolete |-> m.obsolete \ {n}]
<1>3. ASSUME Continues(p, rest), DiskOK',
             UNCHANGED <<edits, crashes, reports>>,
             \A k \in Name \ {n} : disk'[Latest][k] = disk[Latest][k],
             n \in Name /\ Exists(m.before[n]) => disk'[Latest][n] = Absent
      PROVE  PackInv' /\ (LatestInv => LatestInv')
  <2>1. DOMAIN m = {"pc", "keep", "todo", "obsolete", "before", "pack", "compared"}
    BY <1>1 DEF WriteOK
  <2>2. /\ Only(p) /\ DOMAIN memory'[p] = DOMAIN m /\ lock' = lock
        /\ memory'[p].obsolete = m.obsolete \ {n}
        /\ \A x \in DOMAIN m \ {"obsolete", "compared"} : memory'[p][x] = m[x]
    <3>1. DOMAIN rest = {"obsolete"} /\ rest["obsolete"] = m.obsolete \ {n}
      OBVIOUS
    <3> HIDE DEF rest
    <3>2. /\ Only(p) /\ lock' = lock
          /\ DOMAIN memory'[p] = DOMAIN m \cup DOMAIN rest \cup {"compared"}
          /\ \A x \in DOMAIN rest : memory'[p][x] = rest[x]
          /\ \A x \in DOMAIN m \ (DOMAIN rest \cup {"compared"}) : memory'[p][x] = m[x]
      BY <1>3, <3>1, ContinuesFacts
    <3>3. memory'[p]["obsolete"] = m.obsolete \ {n}
      BY <3>1, <3>2
    <3> QED
      BY <2>1, <3>1, <3>2, <3>3
  <2>3. /\ memory'[p].pc = "write" /\ memory'[p].todo = m.todo
        /\ memory'[p].before = m.before /\ memory'[p].pack = m.pack
    BY <1>1, <2>1, <2>2
  <2>4. WriteOK(memory'[p])
    BY <1>1, <2>1, <2>2, <2>3 DEF WriteOK
  <2>5. ASSUME Halfway(m) PROVE Halfway(m)'
    <3>1. n \in Name /\ disk'[Latest][n] = Absent
      BY <1>3, <2>5 DEF Halfway
    <3>2. n \notin ToSet(m.todo) /\ n \notin DOMAIN m.pack
      BY <1>1 DEF WriteOK, ToSet
    <3>3. /\ memory'[p].obsolete \subseteq Name
          /\ \A k \in memory'[p].obsolete : Exists(memory'[p].before[k])
      BY <2>2, <2>3, <2>5 DEF Halfway
    <3>4. ASSUME NEW k \in Name
          PROVE  disk'[Latest][k] =
                   IF k \in ToSet(memory'[p].todo) \cup memory'[p].obsolete
                   THEN memory'[p].before[k]
                   ELSE IF k \in DOMAIN memory'[p].pack THEN memory'[p].pack[k] ELSE Absent
      <4>1. CASE k = n
        BY <2>2, <2>3, <3>1, <3>2, <4>1
      <4>2. CASE k # n
        BY <1>3, <2>2, <2>3, <2>5, <4>2 DEF Halfway
      <4> QED
        BY <4>1, <4>2
    <3> QED
      BY <3>3, <3>4 DEF Halfway
  <2> QED
    BY <1>1, <1>3, <2>2, <2>3, <2>4, <2>5, WriterStep DEF Locked
<1> HIDE DEF rest
<1>4. ASSUME PackInv', UNCHANGED <<edits, crashes, reports>>,
             Exists(m.before[n]) => disk[Latest][n] # m.before[n]
      PROVE  PackInv' /\ (LatestInv => LatestInv')
  <2>1. ASSUME LatestInv, Quiet PROVE FALSE
    <3>1. Halfway(m)
      BY <1>1, <2>1 DEF LatestInv
    <3>2. n \in Name /\ Exists(m.before[n]) /\ disk[Latest][n] = m.before[n]
      BY <3>1 DEF Halfway
    <3> QED
      BY <1>4, <3>2
  <2>2. Quiet' => Quiet
    BY <1>4 DEF Quiet
  <2> QED
    BY <1>4, <2>1, <2>2 DEF LatestInv
<1>5. CASE /\ ~Exists(m.before[n]) \/ ~Exists(disk[Latest][n])
           /\ DiskKept /\ Continues(p, rest)
  <2>1. DiskOK' /\ disk' = disk /\ UNCHANGED <<edits, crashes, reports>>
    BY <1>1, <1>5, DiskIsKept DEF DiskKept
  <2>2. Exists(m.before[n]) => disk'[Latest][n] = Absent
    BY <1>5, <2>1 DEF Exists
  <2> QED
    BY <1>3, <1>5, <2>1, <2>2 DEF rest
<1>6. CASE Passes(p, Latest, n)
  BY <1>1, <1>6, WriterCompares
<1>7. CASE /\ Stops(p, "conflict")
           /\ Exists(m.before[n]) => disk[Latest][n] # m.before[n]
  <2>1. PackInv' /\ UNCHANGED <<edits, crashes, reports>>
    BY <1>7, StopsPack DEF Stops, files, counters
  <2> QED
    BY <1>4, <1>7, <2>1
<1>8. CASE Put(Latest, n, Absent)
  <2>1. /\ DiskOK' /\ UNCHANGED <<edits, crashes, reports>>
        /\ \A k \in Name \ {n} : disk'[Latest][k] = disk[Latest][k]
        /\ n \in Name => disk'[Latest][n] = Absent
    BY <1>1, <1>8, DirFacts, PutFacts
  <2>2. CASE Continues(p, rest)
    BY <1>3, <2>1, <2>2 DEF rest
  <2>3. CASE disk[Latest][n] # m.before[n] /\ Ends(p) /\ lock' = None
    <3>1. PackInv'
      BY <1>1, <2>1, <2>3, EndsFacts, PackKept
    <3> QED
      BY <1>4, <2>1, <2>3, <3>1
  <2> QED
    BY <1>2, <1>5, <1>6, <1>7, <2>2, <2>3, RemoveFileCases DEF rest
<1> QED
  BY <1>2, <1>5, <1>6, <1>7, <1>8, RemoveFileCases DEF rest

LEMMA PackWrittenStep ==
  ASSUME PackInv, NEW p \in Proc, PackWritten(p)
  PROVE  PackInv' /\ (LatestInv => LatestInv')
<1> DEFINE m == memory[p]
           next == [pc |-> "lock prune", keep |-> m.keep]
<1>1. /\ m.pc = "write" /\ m.todo = <<>> /\ m.obsolete = {} /\ WriteOK(m) /\ lock = p
      /\ lock' = None /\ memory' = [memory EXCEPT ![p] = next] /\ DiskKept
  BY DEF PackWritten, At, PackInv, Locked, MemoryOK, DiskKept, files, counters
<1>2. Only(p) /\ memory'[p] = next
  BY <1>1 DEF PackInv, Only
<1>3. MemoryOK(next) /\ next.pc = "lock prune"
  BY DEF MemoryOK, RoundOK
<1>4. DiskOK' /\ disk' = disk
  BY <1>1, DiskIsKept DEF PackInv, DiskKept
<1>5. PackInv'
  <2> HIDE DEF next
  <2> QED
    BY <1>1, <1>2, <1>3, <1>4, PackKept DEF Locked
<1>6. ASSUME LatestInv PROVE LatestInv'
  <2> SUFFICES ASSUME Quiet'
               PROVE  /\ OnePack'
                      /\ \A q \in Proc : memory'[q].pc \notin {"capture", "write"}
    BY DEF LatestInv
  <2>1. Quiet
    BY <1>1 DEF DiskKept, Quiet
  <2>2. \A q \in Proc : memory'[q].pc \notin {"capture", "write"}
    <3> HIDE DEF next
    <3> QED
      BY <1>1, <1>2, <1>3, OneWriter DEF Only
  <2>3. \A n \in Name : disk[Latest][n] = IF n \in DOMAIN m.pack THEN m.pack[n] ELSE Absent
    <3>1. Halfway(m)
      BY <1>1, <1>6, <2>1 DEF LatestInv
    <3>2. DOMAIN m.todo = {}
      <4>1. DOMAIN <<>> = {}
        OBVIOUS
      <4> QED
        BY <1>1, <4>1
    <3>3. ToSet(m.todo) \cup m.obsolete = {}
      BY <1>1, <3>2 DEF ToSet
    <3> QED
      BY <3>1, <3>3 DEF Halfway
  <2>4. /\ PackOK(m.pack) /\ Manifest \in DOMAIN m.pack /\ DOMAIN m.pack \subseteq Name
        /\ \A n \in DOMAIN m.pack : Exists(m.pack[n])
    <3>1. PackOK(m.pack)
      BY <1>1 DEF WriteOK
    <3>2. \A n \in DOMAIN m.pack : m.pack[n].by = "export"
      BY <3>1 DEF PackOK
    <3>3. \A n \in DOMAIN m.pack : Exists(m.pack[n])
      BY <3>2 DEF Exists, Absent
    <3> QED
      BY <3>1, <3>3 DEF PackOK
  <2>5. {n \in Name : Exists(disk[Latest][n])} = DOMAIN m.pack
    BY <2>3, <2>4 DEF Exists
  <2>6. Owned(Latest) = [n \in DOMAIN m.pack \ {Manifest} |-> m.pack[n]]
    BY <2>3, <2>4 DEF Owned, PackOK
  <2>7. OnePack
    BY <2>3, <2>4, <2>5, <2>6 DEF OnePack
  <2> QED
    BY <1>4, <2>2, <2>7, SameLatest
<1> QED
  BY <1>5, <1>6
-----------------------------------------------------------------------------
LEMMA ListRoundsStep ==
  ASSUME PackInv, NEW p \in Proc, ListRounds(p)
  PROVE  PackInv' /\ (LatestInv => LatestInv')
<1> DEFINE todo == {r \in rounds : Cardinality({x \in rounds : x > r}) >= memory[p].keep}
<1>1. /\ memory[p].pc = "prune" /\ MemoryOK(memory[p]) /\ Reads /\ lock = p
      /\ memory' = [memory EXCEPT ![p] = Updated(memory[p], [pc |-> "round", todo |-> todo])]
      /\ todo \subseteq Round
  BY DEF ListRounds, At, PackInv, DiskOK, Goes, Locked
<1> HIDE DEF todo
<1>2. Only(p) /\ memory'[p] = Updated(memory[p], [pc |-> "round", todo |-> todo])
  BY <1>1 DEF PackInv, Only
<1>3. /\ {"pc", "todo"} \subseteq DOMAIN memory'[p] /\ memory'[p].pc = "round"
      /\ memory'[p].todo = todo
  BY <1>2 DEF Updated
<1>4. MemoryOK(memory'[p])
  BY <1>1, <1>3 DEF MemoryOK, RoundOK
<1> QED
  BY <1>1, <1>2, <1>3, <1>4, QuietStep, ReadsFacts DEF Locked

LEMMA CaptureRoundStep ==
  ASSUME PackInv, NEW p \in Proc, CaptureRound(p)
  PROVE  PackInv' /\ (LatestInv => LatestInv')
<1> DEFINE m == memory[p]
<1>1. /\ m.pc = "round" /\ MemoryOK(m) /\ m.todo \subseteq Round
      /\ {"pc", "todo"} \subseteq DOMAIN m /\ lock = p
  BY DEF CaptureRound, At, PackInv, MemoryOK, RoundOK, Locked
<1>2. CASE \E message : Stops(p, message)
  BY <1>1, <1>2, StopsStep
<1>3. CASE ~ \E message : Stops(p, message)
  <2> DEFINE f(r) == [pc |-> "remove", round |-> r,
                      obsolete |-> {n \in DOMAIN Owned(r) : Exists(disk[r][n])},
                      before |-> disk[r], compared |-> None]
  <2>1. PICK r \in m.todo :
          \/ Reads /\ Goes(p, [todo |-> m.todo \ {r}])
          \/ /\ \A n \in DOMAIN Owned(r) : IsGenerated(Owned(r), n, disk[r][n])
             /\ Reads /\ Goes(p, f(r))
    BY <1>3 DEF CaptureRound
  <2>2. r \in Round /\ r \in Dir
    BY <1>1, DirFacts
  <2>3. CASE Reads /\ Goes(p, [todo |-> m.todo \ {r}])
    <3>1. Only(p) /\ memory'[p] = Updated(m, [todo |-> m.todo \ {r}])
      BY <2>3 DEF Goes, PackInv, Only
    <3>2. /\ {"pc", "todo"} \subseteq DOMAIN memory'[p] /\ memory'[p].pc = "round"
          /\ memory'[p].todo = m.todo \ {r}
      BY <1>1, <3>1 DEF Updated
    <3>3. MemoryOK(memory'[p])
      BY <1>1, <3>2 DEF MemoryOK, RoundOK
    <3> QED
      BY <1>1, <2>3, <3>1, <3>2, <3>3, QuietStep, ReadsFacts DEF Locked
  <2>4. CASE /\ \A n \in DOMAIN Owned(r) : IsGenerated(Owned(r), n, disk[r][n])
             /\ Reads /\ Goes(p, f(r))
    <3> DEFINE before == disk[r]
               obsolete == {n \in DOMAIN Owned(r) : Exists(disk[r][n])}
    <3>1. Only(p) /\ memory'[p] = Updated(m, f(r))
      BY <2>4 DEF Goes, PackInv, Only
    <3>2. /\ {"pc", "todo", "round", "obsolete", "before", "compared"}
               \subseteq DOMAIN memory'[p]
          /\ memory'[p].pc = "remove" /\ memory'[p].round = r
          /\ memory'[p].todo = m.todo
          /\ memory'[p].obsolete = obsolete /\ memory'[p].before = before
      BY <1>1, <3>1 DEF Updated
    <3>3. \A n \in obsolete : before[n].by = "export"
      <4>1. \A n \in DOMAIN Owned(r) : Owned(r)[n].by = "export"
        BY <2>2 DEF PackInv, DiskOK, Owned, ListsExports, Nothing
      <4> QED
        BY <2>4, <4>1 DEF IsGenerated
    <3> HIDE DEF obsolete, before
    <3>4. MemoryOK(memory'[p])
      BY <1>1, <2>2, <3>2, <3>3 DEF MemoryOK, RoundOK
    <3> QED
      BY <1>1, <2>4, <3>1, <3>2, <3>4, QuietStep, ReadsFacts DEF Locked
  <2> QED
    BY <2>1, <2>3, <2>4
<1> QED
  BY <1>2, <1>3

\* A step of p on a file of a round.
LEMMA RoundPut ==
  ASSUME PackInv, NEW p \in Proc, Only(p), MemoryOK(memory'[p]),
         memory'[p].pc \notin {"capture", "write"}, memory[p].pc # "write",
         Locked(memory'[p]) => lock' = p,
         \A q \in Proc \ {p} : lock = q => lock' = q,
         NEW r \in Round, NEW n, Put(r, n, Absent)
  PROVE  PackInv' /\ (LatestInv => LatestInv')
<1>1. ListsExports(Absent) /\ DiskOK
  BY DEF ListsExports, Exists, PackInv
<1>2. DiskOK' /\ disk'[Latest] = disk[Latest] /\ UNCHANGED <<edits, crashes, reports>>
  BY <1>1, DirFacts, PutFacts
<1> QED
  BY <1>2, KeptStep DEF Quiet

\* A step of the removal of a file of a round.
LEMMA RoundFileStep ==
  ASSUME PackInv, NEW p \in Proc, memory[p].pc = "remove", NEW n, NEW rest,
         RemoveFile(p, memory[p].round, n, rest), "compared" \notin DOMAIN rest,
         Continues(p, rest) => MemoryOK(memory'[p]) /\ memory'[p].pc \in {"remove", "rmdir"}
  PROVE  PackInv' /\ (LatestInv => LatestInv')
<1> DEFINE m == memory[p]
           r == m.round
<1>1. /\ MemoryOK(m) /\ lock = p /\ r \in Round
      /\ {"pc", "todo", "round", "obsolete", "before", "compared"} \subseteq DOMAIN m
  BY DEF PackInv, Locked, MemoryOK, RoundOK
<1>2. CASE Passes(p, r, n)
  <2>1. /\ Only(p) /\ DOMAIN memory'[p] = DOMAIN m /\ DiskKept /\ lock' = lock
        /\ \A x \in DOMAIN m \ {"compared"} : memory'[p][x] = m[x]
    BY <1>1, <1>2, PassesFacts DEF Passes
  <2>2. /\ memory'[p].pc = "remove" /\ memory'[p].round = m.round
        /\ memory'[p].todo = m.todo /\ memory'[p].before = m.before
        /\ memory'[p].obsolete = m.obsolete
    BY <1>1, <2>1
  <2>3. MemoryOK(memory'[p])
    BY <1>1, <2>1, <2>2 DEF MemoryOK, RoundOK
  <2> QED
    BY <1>1, <2>1, <2>2, <2>3, QuietStep
<1>3. CASE Stops(p, "conflict")
  BY <1>3, StopsStep
<1>4. CASE DiskKept /\ Continues(p, rest)
  BY <1>1, <1>4, ContinuesFacts, QuietStep
<1>5. CASE Put(r, n, Absent) /\ Continues(p, rest)
  BY <1>1, <1>5, ContinuesFacts, RoundPut
<1>6. CASE Put(r, n, Absent) /\ Ends(p) /\ lock' = None
  BY <1>1, <1>6, EndsFacts, RoundPut
<1> QED
  BY <1>2, <1>3, <1>4, <1>5, <1>6, RemoveFileCases

LEMMA RemoveFromRoundCases ==
  ASSUME PackInv, NEW p \in Proc, RemoveFromRound(p)
  PROVE  /\ memory[p].pc = "remove" /\ MemoryOK(memory[p])
         /\ \E n \in memory[p].obsolete :
              RemoveFile(p, memory[p].round, n, [obsolete |-> memory[p].obsolete \ {n}])
BY DEF RemoveFromRound, At, PackInv

LEMMA RemoveFromRoundStep ==
  ASSUME PackInv, NEW p \in Proc, RemoveFromRound(p)
  PROVE  PackInv' /\ (LatestInv => LatestInv')
<1> DEFINE m == memory[p]
<1>1. /\ m.pc = "remove" /\ MemoryOK(m) /\ RoundOK(m) /\ "pc" \in DOMAIN m
      /\ {"todo", "round", "obsolete", "before", "compared"} \subseteq DOMAIN m
  BY RemoveFromRoundCases DEF MemoryOK, RoundOK
<1>2. PICK n \in m.obsolete : RemoveFile(p, m.round, n, [obsolete |-> m.obsolete \ {n}])
  BY RemoveFromRoundCases
<1> DEFINE rest == [obsolete |-> m.obsolete \ {n}]
<1>3. DOMAIN rest = {"obsolete"} /\ rest["obsolete"] = m.obsolete \ {n}
      /\ RemoveFile(p, m.round, n, rest)
  BY <1>2
<1> HIDE DEF rest
<1>4. ASSUME Continues(p, rest)
      PROVE  MemoryOK(memory'[p]) /\ memory'[p].pc \in {"remove", "rmdir"}
  <2>1. /\ DOMAIN memory'[p] = DOMAIN m \cup DOMAIN rest \cup {"compared"}
        /\ \A x \in DOMAIN rest : memory'[p][x] = rest[x]
        /\ \A x \in DOMAIN m \ (DOMAIN rest \cup {"compared"}) : memory'[p][x] = m[x]
    BY <1>3, <1>4, ContinuesFacts
  <2>2. memory'[p]["obsolete"] = m.obsolete \ {n}
    BY <1>3, <2>1
  <2>3. /\ memory'[p].pc = "remove" /\ memory'[p].round = m.round
        /\ memory'[p].todo = m.todo /\ memory'[p].before = m.before
    BY <1>1, <1>3, <2>1
  <2> QED
    BY <1>1, <1>3, <2>1, <2>2, <2>3 DEF MemoryOK, RoundOK
<1> QED
  BY <1>1, <1>3, <1>4, RoundFileStep

LEMMA RemoveRoundManifestCases ==
  ASSUME PackInv, NEW p \in Proc, RemoveRoundManifest(p)
  PROVE  /\ memory[p].pc = "remove" /\ MemoryOK(memory[p])
         /\ RemoveFile(p, memory[p].round, Manifest, [pc |-> "rmdir"])
BY DEF RemoveRoundManifest, At, PackInv

LEMMA RemoveRoundManifestStep ==
  ASSUME PackInv, NEW p \in Proc, RemoveRoundManifest(p)
  PROVE  PackInv' /\ (LatestInv => LatestInv')
<1> DEFINE m == memory[p]
           rest == [pc |-> "rmdir"]
<1>1. /\ m.pc = "remove" /\ MemoryOK(m) /\ m.round \in Round /\ m.todo \subseteq Round
      /\ {"pc", "todo", "round"} \subseteq DOMAIN m
  BY RemoveRoundManifestCases DEF MemoryOK, RoundOK
<1>2. DOMAIN rest = {"pc"} /\ rest["pc"] = "rmdir"
      /\ RemoveFile(p, m.round, Manifest, rest)
  BY RemoveRoundManifestCases
<1> HIDE DEF rest
<1>3. ASSUME Continues(p, rest)
      PROVE  MemoryOK(memory'[p]) /\ memory'[p].pc \in {"remove", "rmdir"}
  <2>1. /\ DOMAIN memory'[p] = DOMAIN m \cup DOMAIN rest \cup {"compared"}
        /\ \A x \in DOMAIN rest : memory'[p][x] = rest[x]
        /\ \A x \in DOMAIN m \ (DOMAIN rest \cup {"compared"}) : memory'[p][x] = m[x]
    BY <1>2, <1>3, ContinuesFacts
  <2>2. memory'[p]["pc"] = "rmdir"
    BY <1>2, <2>1
  <2>3. memory'[p].round = m.round /\ memory'[p].todo = m.todo
    BY <1>1, <1>2, <2>1
  <2> QED
    BY <1>1, <1>2, <2>1, <2>2, <2>3 DEF MemoryOK, RoundOK
<1> QED
  BY <1>1, <1>2, <1>3, RoundFileStep

LEMMA RemoveRoundStep ==
  ASSUME PackInv, NEW p \in Proc, RemoveRound(p)
  PROVE  PackInv' /\ (LatestInv => LatestInv')
<1> DEFINE m == memory[p]
<1>1. /\ m.pc = "rmdir" /\ MemoryOK(m) /\ lock = p
      /\ rounds' \subseteq rounds /\ UNCHANGED <<disk, reports, lock, edits, crashes>>
      /\ Goes(p, [pc |-> "round", todo |-> m.todo \ {m.round}])
  BY DEF RemoveRound, At, PackInv, counters, Locked
<1>2. {"pc", "todo", "round"} \subseteq DOMAIN m /\ m.todo \subseteq Round
  BY <1>1 DEF MemoryOK, RoundOK
<1>3. Only(p) /\ memory'[p] = Updated(m, [pc |-> "round", todo |-> m.todo \ {m.round}])
  BY <1>1 DEF Goes, PackInv, Only
<1>4. /\ {"pc", "todo"} \subseteq DOMAIN memory'[p]
      /\ memory'[p].pc = "round" /\ memory'[p].todo = m.todo \ {m.round}
  BY <1>1, <1>2, <1>3 DEF Updated
<1>5. MemoryOK(memory'[p])
  BY <1>2, <1>4 DEF MemoryOK, RoundOK
<1>6. DiskOK' /\ (Quiet' => Quiet)
  BY <1>1 DEF PackInv, DiskOK, Quiet
<1> QED
  BY <1>1, <1>3, <1>4, <1>5, <1>6, KeptStep DEF Locked

LEMMA WriteReportStep ==
  ASSUME PackInv, NEW p \in Proc, WriteReport(p)
  PROVE  PackInv' /\ (LatestInv => LatestInv')
<1> DEFINE n == memory[p].output
<1>1. /\ n # Manifest /\ lock' = None /\ Ends(p) /\ memory[p].pc = "report"
      /\ disk' = [disk EXCEPT ![Latest][n] = Text("report", clock + 1)]
      /\ reports' = reports + 1 /\ UNCHANGED <<rounds, edits, crashes>>
  BY DEF WriteReport, OutputAccepted, At, counters
<1>2. /\ DOMAIN disk' = Dir
      /\ \A d \in Dir : DOMAIN disk'[d] = Name /\ disk'[d][Manifest] = disk[d][Manifest]
  <2> HIDE DEF n
  <2>1. DOMAIN disk = Dir /\ \A d \in Dir : DOMAIN disk[d] = Name
    BY DEF PackInv, DiskOK
  <2> QED
    BY <1>1, <2>1, PackNameFacts
<1>3. DiskOK' /\ ~Quiet'
  BY <1>1, <1>2 DEF PackInv, DiskOK, Quiet
<1>4. \A q \in Proc \ {p} : lock = q => lock' = q
  BY <1>1 DEF PackInv, Locked, WriteReport
<1> QED
  BY <1>1, <1>3, <1>4, EndsFacts, PackKept DEF LatestInv

LEMMA CrashStep ==
  ASSUME PackInv, NEW p \in Proc, Crash(p)
  PROVE  PackInv' /\ (LatestInv => LatestInv')
<1>1. /\ Ends(p) /\ crashes' = crashes + 1 /\ UNCHANGED <<disk, rounds, reports, edits>>
      /\ \A q \in Proc \ {p} : lock = q => lock' = q
  BY DEF Crash, files
<1>2. DiskOK' /\ ~Quiet'
  BY <1>1 DEF PackInv, DiskOK, Quiet
<1> QED
  BY <1>1, <1>2, EndsFacts, PackKept DEF LatestInv, Locked

LEMMA SchemaStep ==
  ASSUME PackInv, SchemaChanges
  PROVE  PackInv' /\ (LatestInv => LatestInv')
<1>1. UNCHANGED <<disk, rounds, reports, lock, memory, crashes, edits>>
  BY DEF SchemaChanges, files
<1>2. DiskKept
  BY <1>1 DEF DiskKept
<1>3. PackInv'
  BY <1>1, <1>2, DiskIsKept DEF PackInv
<1> QED
  BY <1>1, <1>3 DEF LatestInv, Quiet, OnePack, Owned, Halfway

\* People keep a manifest readable or not, and what it lists stays.
LEMMA EditStep ==
  ASSUME PackInv, Edit
  PROVE  PackInv' /\ (LatestInv => LatestInv')
<1>1. /\ edits' = edits + 1 /\ UNCHANGED <<rounds, reports, lock, memory, crashes>>
      /\ DiskOK
  BY DEF Edit, PackInv
<1>2. PICK d \in rounds \cup {Latest}, n \in EditedNames :
        \E content \in Edited(n, disk[d][n]) : disk' = [disk EXCEPT ![d][n] = content]
  BY DEF Edit
<1>2a. PICK content \in Edited(n, disk[d][n]) : disk' = [disk EXCEPT ![d][n] = content]
  BY <1>2
<1>3. d \in Dir
  BY <1>1, DirFacts DEF DiskOK
<1>4. n = Manifest => ListsExports(content)
  <2>1. ASSUME n = Manifest, Exists(disk[d][n]),
               content = [disk[d][n] EXCEPT !.by = "people", !.at = clock + 1]
        PROVE  ListsExports(content)
    <3>1. ListsExports(disk[d][n])
      BY <1>1, <1>3, <2>1 DEF DiskOK
    <3>2. "lists" \in DOMAIN content /\ content.lists = disk[d][n].lists
      BY <2>1, <3>1 DEF ListsExports
    <3> QED
      BY <2>1, <3>1, <3>2 DEF ListsExports
  <2>2. ListsExports(Absent)
    BY DEF ListsExports, Exists
  <2>3. ListsExports(ManifestText("people", clock + 1, FALSE, Nothing))
    BY DEF ListsExports, ManifestText, Nothing
  <2> QED
    BY <1>2a, <2>1, <2>2, <2>3 DEF Edited
<1>5. /\ DOMAIN disk' = Dir
      /\ \A e \in Dir : DOMAIN disk'[e] = Name /\ ListsExports(disk'[e][Manifest])
  <2>1. DOMAIN disk = Dir /\ \A e \in Dir : DOMAIN disk[e] = Name /\ ListsExports(disk[e][Manifest])
    BY <1>1 DEF DiskOK
  <2>2. /\ DOMAIN disk' = Dir
        /\ \A e \in Dir : DOMAIN disk'[e] = Name
        /\ \A e \in Dir, k \in Name : (e # d \/ k # n) => disk'[e][k] = disk[e][k]
        /\ n \in Name => disk'[d][n] = content
    BY <1>3, <1>2a, <2>1
  <2>3. ASSUME NEW e \in Dir PROVE ListsExports(disk'[e][Manifest])
    <3>1. CASE e = d /\ n = Manifest
      BY <1>4, <2>2, <3>1, PackNameFacts
    <3>2. CASE ~(e = d /\ n = Manifest)
      BY <2>1, <2>2, <3>2, PackNameFacts
    <3> QED
      BY <3>1, <3>2
  <2> QED
    BY <2>2, <2>3
<1>6. DiskOK' /\ ~Quiet'
  BY <1>1, <1>5 DEF DiskOK, Quiet
<1>7. PackInv'
  BY <1>1, <1>6 DEF PackInv
<1> QED
  BY <1>6, <1>7 DEF LatestInv

LEMMA ProcessStep ==
  ASSUME PackInv, NEW p \in Proc,
         \/ Give(p) \/ Guard(p) \/ Plan(p) \/ Accept(p) \/ TakeLock(p) \/ LockHeld(p)
         \/ ReadOwned(p) \/ Capture(p) \/ WriteArtifact(p) \/ RemoveObsolete(p)
         \/ PackWritten(p)
         \/ ListRounds(p) \/ CaptureRound(p) \/ RemoveFromRound(p)
         \/ RemoveRoundManifest(p) \/ RemoveRound(p) \/ Pruned(p)
         \/ ReportRefused(p) \/ WriteReport(p) \/ Crash(p)
  PROVE  PackInv' /\ (LatestInv => LatestInv')
<1>1. CASE LockHeld(p)
  BY <1>1, StopsStep DEF LockHeld
<1>2. CASE Pruned(p)
  BY <1>2, StopsStep DEF Pruned, At
<1>3. CASE ReportRefused(p)
  BY <1>3, StopsStep DEF ReportRefused, At
<1> QED
  BY <1>1, <1>2, <1>3, GiveStep, GuardStep, PlanStep, AcceptStep, TakeLockStep,
     ReadOwnedStep, CaptureStep, WriteArtifactStep, RemoveObsoleteStep, PackWrittenStep,
     ListRoundsStep, CaptureRoundStep, RemoveFromRoundStep, RemoveRoundManifestStep,
     RemoveRoundStep, WriteReportStep, CrashStep

LEMMA PackStep == PackInv /\ LatestInv /\ [Next]_vars => PackInv' /\ LatestInv'
<1> SUFFICES ASSUME PackInv, LatestInv, [Next]_vars PROVE PackInv' /\ LatestInv'
  OBVIOUS
<1>1. CASE UNCHANGED vars
  <2>1. UNCHANGED <<disk, rounds, reports, lock, memory, crashes, edits>>
    BY <1>1 DEF vars, files, counters
  <2>2. DiskKept
    BY <2>1 DEF DiskKept
  <2>3. PackInv'
    BY <2>1, <2>2, DiskIsKept DEF PackInv
  <2> QED
    BY <2>1, <2>3 DEF LatestInv, Quiet, OnePack, Owned, Halfway
<1>2. CASE SchemaChanges \/ Edit
  BY <1>2, SchemaStep, EditStep
<1>3. CASE ~ (SchemaChanges \/ Edit) /\ Next
  BY <1>3, ProcessStep DEF Next
<1> QED
  BY <1>1, <1>2, <1>3

\* What a manifest lists and what an export is about to replace or remove was
\* written by an export; and half way through a pack that nobody disturbs, what
\* is written is new and the rest is as it was.
THEOREM PackInvariant == Spec => [](PackInv /\ LatestInv)
BY InitPack, PackStep, PTL DEF Spec

\* Packs of any modes and tasks after one another, some of them refused, leave one
\* pack in `latest`: what its manifest lists, and no other file
\* (writeArtifactSet).
THEOREM PacksLeaveOnePack == Spec => []LatestIsOnePack
<1>1. PackInv /\ LatestInv => LatestIsOnePack
  <2> SUFFICES ASSUME PackInv, LatestInv, Quiet, lock = None PROVE OnePack
    BY DEF LatestIsOnePack, OnePack, Quiet
  <2>1. \A p \in Proc : memory[p].pc # "write"
    BY ProcAssumption DEF PackInv, Locked
  <2> QED
    BY <2>1 DEF LatestInv
<1> QED
  BY <1>1, PackInvariant, PTL

-----------------------------------------------------------------------------
\* A step changes at most one file, in the hands of whoever wrote it.
ChangesOnly(d, n) ==
  \A e \in Dir, k \in Name : (e # d \/ k # n) => disk'[e][k] = disk[e][k]

LEMMA PutChanges ==
  ASSUME DiskOK, NEW d \in Dir, NEW n, NEW content, Put(d, n, content)
  PROVE  ChangesOnly(d, n)
<1>1. disk' = [disk EXCEPT ![d][n] = content]
  BY DEF Put
<1> QED
  BY <1>1 DEF ChangesOnly, DiskOK

Generated ==
  \A d \in Dir, n \in Name \ {Manifest} :
    disk'[d][n] # disk[d][n] => disk[d][n].by \in {"nobody", "export"}

LEMMA OneChange ==
  ASSUME NEW d \in Dir, NEW n, ChangesOnly(d, n),
         n # Manifest => disk[d][n].by \in {"nobody", "export"}
  PROVE  Generated
BY DEF ChangesOnly, Generated

LEMMA SameDisk ==
  ASSUME disk' = disk PROVE Generated
BY DEF Generated

\* The command is about to replace or unlink what it has compared: while nobody
\* edits it, the file is still the one captured.
Publishing == {"write", "remove"}
DirOf(m) == IF m.pc = "remove" THEN m.round ELSE Latest

DueOK(p) ==
  memory[p].pc \in Publishing /\ memory[p].compared \in Name /\ ~late =>
    disk[DirOf(memory[p])][memory[p].compared] = memory[p].before[memory[p].compared]
DueInv == \A p \in Proc : DueOK(p)

\* Whoever publishes has the lock.
LEMMA DueStep ==
  ASSUME PackInv, DueInv, NEW p \in Proc, Only(p),
         (disk' = disk /\ late' = late) \/ lock = p, DueOK(p)'
  PROVE  DueInv'
<1> SUFFICES ASSUME NEW q \in Proc \ {p} PROVE DueOK(q)'
  BY DEF DueInv
<1>1. memory'[q] = memory[q] /\ DueOK(q)
  BY DEF Only, DueInv
<1>2. CASE memory[q].pc \notin Publishing
  BY <1>1, <1>2 DEF DueOK
<1>3. CASE memory[q].pc \in Publishing
  <2>1. lock = q
    BY <1>3 DEF PackInv, Locked, Publishing
  <2>2. disk' = disk /\ late' = late
    BY <2>1
  <2> QED
    BY <1>1, <2>2 DEF DueOK
<1> QED
  BY <1>2, <1>3

LEMMA NotDue ==
  ASSUME PackInv, DueInv, NEW p \in Proc, Only(p),
         (disk' = disk /\ late' = late) \/ lock = p,
         memory'[p].pc \notin Publishing
  PROVE  DueInv'
<1>1. DueOK(p)'
  BY DEF DueOK
<1> QED
  BY <1>1, DueStep

LEMMA GoesDue ==
  ASSUME PackInv, DueInv, NEW p \in Proc, NEW f, Goes(p, f), "pc" \in DOMAIN f,
         f["pc"] \notin Publishing, disk' = disk, late' = late
  PROVE  DueInv'
<1>1. Only(p) /\ memory'[p]["pc"] = f["pc"]
  BY Moves
<1> QED
  BY <1>1, NotDue

LEMMA GotoDue ==
  ASSUME PackInv, DueInv, NEW p \in Proc, NEW l, Goto(p, l), l \notin Publishing,
         disk' = disk, late' = late
  PROVE  DueInv'
<1> DEFINE f == [pc |-> l]
<1>1. Goes(p, f) /\ "pc" \in DOMAIN f /\ f["pc"] = l
  BY DEF Goto
<1> HIDE DEF f
<1> QED
  BY <1>1, GoesDue

LEMMA BecomesDue ==
  ASSUME PackInv, DueInv, NEW p \in Proc, NEW next,
         memory' = [memory EXCEPT ![p] = next],
         next.pc \notin Publishing \/ next.compared \notin Name,
         disk' = disk, late' = late
  PROVE  DueInv'
<1>1. Only(p) /\ memory'[p] = next
  BY DEF PackInv, Only
<1>2. DueOK(p)'
  BY <1>1 DEF DueOK
<1> QED
  BY <1>1, <1>2, DueStep

LEMMA EndsDue ==
  ASSUME PackInv, DueInv, NEW p \in Proc, Ends(p),
         (disk' = disk /\ late' = late) \/ lock = p
  PROVE  DueInv'
<1>1. Only(p) /\ memory'[p].pc \notin Publishing
  BY EndsFacts DEF Publishing
<1> QED
  BY <1>1, NotDue

LEMMA StopsDue ==
  ASSUME PackInv, DueInv, NEW p \in Proc, NEW message, Stops(p, message)
  PROVE  DueInv'
BY EndsDue DEF Stops, files

\* A command that replaces or unlinks a file.
LEMMA FileDue ==
  ASSUME PackInv, DueInv, NEW p \in Proc, memory[p].pc \in Publishing,
         NEW n, NEW rest, "compared" \notin DOMAIN rest,
         Passes(p, DirOf(memory[p]), n) \/ Continues(p, rest) \/ Ends(p)
  PROVE  DueInv'
<1> DEFINE m == memory[p]
<1>1. /\ lock = p /\ {"pc", "before", "compared"} \subseteq DOMAIN m
      /\ m.pc = "remove" => "round" \in DOMAIN m
  BY DEF PackInv, Locked, MemoryOK, WriteOK, RoundOK, Publishing
<1>2. CASE Passes(p, DirOf(m), n)
  <2>1. /\ Only(p) /\ memory'[p].compared = n
        /\ \A x \in DOMAIN m \ {"compared"} : memory'[p][x] = m[x]
    BY <1>1, <1>2, PassesFacts
  <2>2. /\ memory'[p].pc = m.pc /\ memory'[p].before = m.before
        /\ m.pc = "remove" => memory'[p].round = m.round
    BY <1>1, <2>1
  <2>3. disk' = disk /\ disk[DirOf(m)][n] = m.before[n]
    BY <1>2 DEF Passes, DiskKept
  <2>4. DirOf(m)' = DirOf(m)
    BY <2>2 DEF DirOf
  <2>5. DueOK(p)'
    BY <2>1, <2>2, <2>3, <2>4 DEF DueOK
  <2> QED
    BY <1>1, <2>1, <2>5, DueStep
<1>3. CASE Continues(p, rest)
  <2>1. Only(p) /\ memory'[p].compared = None
    BY <1>3, ContinuesFacts
  <2>2. DueOK(p)'
    BY <2>1, NameAssumption DEF DueOK
  <2> QED
    BY <1>1, <2>1, <2>2, DueStep
<1>4. CASE Ends(p)
  BY <1>1, <1>4, EndsDue
<1> QED
  BY <1>2, <1>3, <1>4

LEMMA RemoveFileDue ==
  ASSUME PackInv, DueInv, NEW p \in Proc, memory[p].pc \in Publishing,
         NEW n, NEW rest, "compared" \notin DOMAIN rest,
         RemoveFile(p, DirOf(memory[p]), n, rest)
  PROVE  DueInv'
<1>1. \/ Passes(p, DirOf(memory[p]), n) \/ Continues(p, rest) \/ Ends(p)
  BY RemoveFileCases DEF Stops
<1> QED
  BY <1>1, FileDue

LEMMA FilesDue ==
  ASSUME PackInv, DueInv, NEW p \in Proc,
         \/ WriteArtifact(p) \/ RemoveObsolete(p)
         \/ RemoveFromRound(p) \/ RemoveRoundManifest(p)
  PROVE  DueInv'
<1>1. CASE WriteArtifact(p)
  <2> DEFINE n == Head(memory[p].todo)
             rest == [todo |-> Tail(memory[p].todo)]
  <2>1. /\ memory[p].pc = "write"
        /\ Passes(p, Latest, n) \/ Ends(p) \/ Continues(p, rest)
    BY <1>1, WriteArtifactCases DEF Stops
  <2>2. "compared" \notin DOMAIN rest /\ DirOf(memory[p]) = Latest
    BY <2>1 DEF DirOf
  <2> HIDE DEF n, rest
  <2> QED
    BY <2>1, <2>2, FileDue DEF Publishing
<1>2. CASE RemoveObsolete(p)
  <2>1. PICK n \in memory[p].obsolete :
          /\ memory[p].pc = "write"
          /\ RemoveFile(p, Latest, n, [obsolete |-> memory[p].obsolete \ {n}])
    BY <1>2, RemoveObsoleteCases
  <2> DEFINE rest == [obsolete |-> memory[p].obsolete \ {n}]
  <2>2. /\ "compared" \notin DOMAIN rest /\ DirOf(memory[p]) = Latest
        /\ RemoveFile(p, Latest, n, rest)
    BY <2>1 DEF DirOf
  <2> HIDE DEF rest
  <2> QED
    BY <2>1, <2>2, RemoveFileDue DEF Publishing
<1>3. CASE RemoveFromRound(p)
  <2>1. PICK n \in memory[p].obsolete :
          /\ memory[p].pc = "remove"
          /\ RemoveFile(p, memory[p].round, n, [obsolete |-> memory[p].obsolete \ {n}])
    BY <1>3, RemoveFromRoundCases
  <2> DEFINE rest == [obsolete |-> memory[p].obsolete \ {n}]
  <2>2. /\ "compared" \notin DOMAIN rest /\ DirOf(memory[p]) = memory[p].round
        /\ RemoveFile(p, memory[p].round, n, rest)
    BY <2>1 DEF DirOf
  <2> HIDE DEF rest
  <2> QED
    BY <2>1, <2>2, RemoveFileDue DEF Publishing
<1>4. CASE RemoveRoundManifest(p)
  <2> DEFINE rest == [pc |-> "rmdir"]
  <2>1. memory[p].pc = "remove" /\ RemoveFile(p, memory[p].round, Manifest, rest)
    BY <1>4, RemoveRoundManifestCases
  <2>2. "compared" \notin DOMAIN rest /\ DirOf(memory[p]) = memory[p].round
    BY <2>1 DEF DirOf
  <2> HIDE DEF rest
  <2> QED
    BY <2>1, <2>2, RemoveFileDue DEF Publishing
<1> QED
  BY <1>1, <1>2, <1>3, <1>4

LEMMA CaptureRoundDue ==
  ASSUME PackInv, DueInv, NEW p \in Proc, CaptureRound(p),
         \A message : ~ Stops(p, message)
  PROVE  DueInv'
<1> DEFINE m == memory[p]
           f(r) == [pc |-> "remove", round |-> r,
                    obsolete |-> {n \in DOMAIN Owned(r) : Exists(disk[r][n])},
                    before |-> disk[r], compared |-> None]
<1>1. PICK r : /\ Goes(p, [todo |-> m.todo \ {r}]) \/ Goes(p, f(r))
               /\ m.pc = "round" /\ disk' = disk /\ late' = late /\ "pc" \in DOMAIN m
  BY DEF CaptureRound, At, Reads, files, PackInv, MemoryOK
<1>2. CASE Goes(p, [todo |-> m.todo \ {r}])
  <2> DEFINE g == [todo |-> m.todo \ {r}]
  <2>1. Goes(p, g) /\ DOMAIN g = {"todo"}
    BY <1>2
  <2> HIDE DEF g
  <2>2. Only(p) /\ memory'[p].pc = "round"
    BY <1>1, <2>1, Moves
  <2> QED
    BY <1>1, <2>2, NotDue DEF Publishing
<1>3. CASE Goes(p, f(r))
  <2> DEFINE g == f(r)
  <2>1. Goes(p, g) /\ "compared" \in DOMAIN g /\ g["compared"] = None
    BY <1>3
  <2> HIDE DEF g
  <2>2. Only(p) /\ memory'[p]["compared"] = None
    BY <2>1, Moves
  <2>3. DueOK(p)'
    BY <2>2, NameAssumption DEF DueOK
  <2> QED
    BY <1>1, <2>2, <2>3, DueStep
<1> QED
  BY <1>1, <1>2, <1>3

LEMMA OthersDue ==
  ASSUME PackInv, DueInv, NEW p \in Proc,
         \/ Give(p) \/ Guard(p) \/ Plan(p) \/ Accept(p) \/ TakeLock(p) \/ LockHeld(p)
         \/ ReadOwned(p) \/ Capture(p) \/ PackWritten(p) \/ ListRounds(p)
         \/ CaptureRound(p) \/ RemoveRound(p) \/ Pruned(p) \/ ReportRefused(p)
         \/ WriteReport(p) \/ Crash(p)
  PROVE  DueInv'
<1>1. CASE \E message : Stops(p, message)
  BY <1>1, StopsDue
<1> SUFFICES ASSUME \A message : ~ Stops(p, message) PROVE DueInv'
  BY <1>1
<1>2. CASE Give(p)
  <2>1. disk' = disk /\ late' = late
    BY <1>2 DEF Give, files
  <2>2. CASE memory' = memory
    BY <2>1, <2>2 DEF DueInv, DueOK, DirOf
  <2>3. CASE memory' # memory
    <3>1. PICK request \in Requests :
            memory' = [memory EXCEPT ![p] = Updated(request, [pc |-> "guard"])]
      BY <1>2, <2>3 DEF Give
    <3> DEFINE next == Updated(request, [pc |-> "guard"])
    <3>2. next.pc = "guard"
      BY DEF Updated
    <3> HIDE DEF next
    <3> QED
      BY <2>1, <3>1, <3>2, BecomesDue DEF Publishing, next
  <2> QED
    BY <2>2, <2>3
<1>3. CASE Guard(p) \/ TakeLock(p)
  <2>1. PICK l \in {"plan", "report", "lock report", "owned", "prune"} :
          Goto(p, l) /\ disk' = disk /\ late' = late
    BY <1>3 DEF Guard, TakeLock, Reads, files
  <2> QED
    BY <2>1, GotoDue DEF Publishing
<1>4. CASE Plan(p)
  <2>1. PICK x, y : /\ Goes(p, [pc |-> "planned", bundles |-> x, artifacts |-> y])
                    /\ disk' = disk /\ late' = late
    BY <1>4 DEF Plan, Reads, files
  <2> DEFINE f == [pc |-> "planned", bundles |-> x, artifacts |-> y]
  <2>2. Goes(p, f) /\ "pc" \in DOMAIN f /\ f["pc"] = "planned"
    BY <2>1
  <2> HIDE DEF f
  <2> QED
    BY <2>1, <2>2, GoesDue DEF Publishing
<1>5. CASE Accept(p)
  <2> DEFINE next == [pc |-> "lock", artifacts |-> <<Manifest>> \o memory[p].artifacts,
                      keep |-> memory[p].keep]
  <2>1. memory' = [memory EXCEPT ![p] = next] /\ disk' = disk /\ late' = late
    BY <1>5 DEF Accept, Reads, files
  <2>2. next.pc \notin Publishing
    BY DEF Publishing
  <2> HIDE DEF next
  <2> QED
    BY <2>1, <2>2, BecomesDue
<1>6. CASE ReadOwned(p)
  <2> DEFINE f == [pc |-> "capture", previous |-> Owned(Latest)]
  <2>1. Goes(p, f) /\ disk' = disk /\ late' = late
    BY <1>6 DEF ReadOwned, Reads, files
  <2>2. "pc" \in DOMAIN f /\ f["pc"] = "capture"
    OBVIOUS
  <2> HIDE DEF f
  <2> QED
    BY <2>1, <2>2, GoesDue DEF Publishing
<1>7. CASE Capture(p)
  <2> DEFINE previous == memory[p].previous
             artifacts == ToSet(memory[p].artifacts)
             next == [pc |-> "write", keep |-> memory[p].keep,
                      todo |-> memory[p].artifacts,
                      obsolete |-> Obsolete(previous, artifacts), compared |-> None,
                      before |-> [n \in artifacts \cup DOMAIN previous |-> disk[Latest][n]],
                      pack |-> NewPack(artifacts, clock + 1)]
  <2>1. memory' = [memory EXCEPT ![p] = next] /\ disk' = disk /\ late' = late
    BY <1>7, CaptureCases
  <2>2. next.compared \notin Name
    BY NameAssumption
  <2> HIDE DEF next
  <2> QED
    BY <2>1, <2>2, BecomesDue
<1>8. CASE PackWritten(p)
  <2> DEFINE next == [pc |-> "lock prune", keep |-> memory[p].keep]
  <2>1. memory' = [memory EXCEPT ![p] = next] /\ disk' = disk /\ late' = late
    BY <1>8 DEF PackWritten, files
  <2>2. next.pc \notin Publishing
    BY DEF Publishing
  <2> HIDE DEF next
  <2> QED
    BY <2>1, <2>2, BecomesDue
<1>9. CASE ListRounds(p) \/ RemoveRound(p)
  <2>1. PICK x : Goes(p, [pc |-> "round", todo |-> x]) /\ disk' = disk /\ late' = late
    BY <1>9 DEF ListRounds, RemoveRound, Reads, files
  <2> DEFINE f == [pc |-> "round", todo |-> x]
  <2>2. Goes(p, f) /\ "pc" \in DOMAIN f /\ f["pc"] = "round"
    BY <2>1
  <2> HIDE DEF f
  <2> QED
    BY <2>1, <2>2, GoesDue DEF Publishing
<1>10. CASE CaptureRound(p)
  BY <1>10, CaptureRoundDue
<1>11. CASE WriteReport(p)
  <2>1. Ends(p) /\ lock = p
    BY <1>11 DEF WriteReport, At, PackInv, Locked
  <2> QED
    BY <2>1, EndsDue
<1>12. CASE Crash(p)
  BY <1>12, EndsDue DEF Crash, files
<1> QED
  BY <1>2, <1>3, <1>4, <1>5, <1>6, <1>7, <1>8, <1>9, <1>10, <1>11, <1>12
     DEF LockHeld, Pruned, ReportRefused

\* An edit of what is due is remembered.
LEMMA EditDue ==
  ASSUME PackInv, DueInv, Edit
  PROVE  DueInv'
<1>1. PICK d \in rounds \cup {Latest}, n \in EditedNames :
        /\ \E content : disk' = [disk EXCEPT ![d][n] = content]
        /\ late' = (late \/ \E p \in Proc : AboutToPublish(p, d, n))
        /\ memory' = memory
  BY DEF Edit
<1>2. PICK content : disk' = [disk EXCEPT ![d][n] = content]
  BY <1>1
<1> SUFFICES ASSUME NEW p \in Proc, memory[p].pc \in Publishing,
                    memory[p].compared \in Name, ~late'
             PROVE  disk'[DirOf(memory[p])][memory[p].compared] =
                      memory[p].before[memory[p].compared]
  BY <1>1 DEF DueInv, DueOK, DirOf
<1>3. ~late /\ ~AboutToPublish(p, d, n)
  BY <1>1
<1>4. d # DirOf(memory[p]) \/ n # memory[p].compared
  BY <1>3 DEF AboutToPublish, At, Publishing, DirOf
<1>5. disk[DirOf(memory[p])][memory[p].compared] = memory[p].before[memory[p].compared]
  BY <1>3 DEF DueInv, DueOK
<1>6. DirOf(memory[p]) \in Dir /\ DOMAIN disk = Dir
      /\ DOMAIN disk[DirOf(memory[p])] = Name
  BY DirFacts DEF PackInv, DiskOK, MemoryOK, RoundOK, DirOf, Publishing
<1> QED
  BY <1>2, <1>4, <1>5, <1>6

LEMMA DueInductive ==
  ASSUME PackInv, DueInv, [Next]_vars
  PROVE  DueInv'
<1>1. CASE UNCHANGED vars
  BY <1>1 DEF vars, files, DueInv, DueOK, DirOf
<1>2. CASE SchemaChanges
  BY <1>2 DEF SchemaChanges, files, DueInv, DueOK, DirOf
<1> QED
  BY <1>1, <1>2, EditDue, FilesDue, OthersDue DEF Next

THEOREM DueInvariant == Spec => []DueInv
<1>1. Init => DueInv
  BY DEF Init, DueInv, DueOK, Publishing
<1> QED
  BY <1>1, DueInductive, PackInvariant, PTL DEF Spec

\* What is put at the place of a file that has passed its last compare.
LEMMA PutIsGenerated ==
  ASSUME PackInv, DueInv, ~late, NEW p \in Proc, memory[p].pc \in Publishing,
         NEW n, NEW content, memory[p].compared = n,
         Put(DirOf(memory[p]), n, content),
         n \in Name \ {Manifest} => memory[p].before[n].by \in {"nobody", "export"}
  PROVE  Generated
<1> DEFINE d == DirOf(memory[p])
<1>1. d \in Dir /\ DiskOK
  BY DirFacts DEF PackInv, MemoryOK, RoundOK, DirOf, Publishing
<1>2. n \in Name => disk[d][n] = memory[p].before[n]
  BY DEF DueInv, DueOK
<1> HIDE DEF d
<1>3. ChangesOnly(d, n)
  BY <1>1, PutChanges DEF d
<1>4. CASE n \in Name
  BY <1>1, <1>2, <1>3, <1>4, OneChange
<1>5. CASE n \notin Name
  BY <1>3, <1>5 DEF ChangesOnly, Generated
<1> QED
  BY <1>4, <1>5

LEMMA RemoveFileChanges ==
  ASSUME NEW p, NEW d, NEW n, NEW rest, RemoveFile(p, d, n, rest), disk' # disk
  PROVE  memory[p].compared = n /\ Put(d, n, Absent)
BY RemoveFileCases DEF Passes, DiskKept, Stops, files

LEMMA ChangesAreGenerated ==
  ASSUME PackInv, DueInv, [Next]_vars, edits' = edits, reports' = reports, ~late
  PROVE  Generated
<1>1. DiskOK /\ edits \in Nat /\ reports \in Nat
  BY DEF PackInv, DiskOK
<1>2. CASE disk' = disk
  BY <1>2, SameDisk
<1>3. ASSUME NEW p \in Proc, WriteArtifact(p), disk' # disk PROVE Generated
  <2> DEFINE n == Head(memory[p].todo)
  <2>1. /\ memory[p].pc = "write" /\ WriteOK(memory[p]) /\ n \in ToSet(memory[p].todo)
        /\ memory[p].compared = n /\ Put(Latest, n, memory[p].pack[n])
    BY <1>3, WriteArtifactCases DEF Passes, DiskKept, Stops, files
  <2> HIDE DEF n
  <2>2. n # Manifest => memory[p].before[n].by \in {"nobody", "export"}
    BY <2>1 DEF WriteOK
  <2>3. DirOf(memory[p]) = Latest
    BY <2>1 DEF DirOf
  <2> QED
    BY <2>1, <2>2, <2>3, PutIsGenerated DEF Publishing
<1>4. ASSUME NEW p \in Proc, RemoveObsolete(p), disk' # disk PROVE Generated
  <2>1. PICK n \in memory[p].obsolete :
          /\ memory[p].pc = "write" /\ WriteOK(memory[p])
          /\ RemoveFile(p, Latest, n, [obsolete |-> memory[p].obsolete \ {n}])
    BY <1>4, RemoveObsoleteCases
  <2>2. memory[p].compared = n /\ Put(Latest, n, Absent)
    BY <1>4, <2>1, RemoveFileChanges
  <2>3. n # Manifest => memory[p].before[n].by \in {"nobody", "export"}
    BY <2>1 DEF WriteOK
  <2>4. DirOf(memory[p]) = Latest
    BY <2>1 DEF DirOf
  <2> QED
    BY <2>1, <2>2, <2>3, <2>4, PutIsGenerated DEF Publishing
<1>5. ASSUME NEW p \in Proc, RemoveFromRound(p), disk' # disk PROVE Generated
  <2>1. PICK n \in memory[p].obsolete :
          /\ memory[p].pc = "remove" /\ MemoryOK(memory[p])
          /\ RemoveFile(p, memory[p].round, n, [obsolete |-> memory[p].obsolete \ {n}])
    BY <1>5, RemoveFromRoundCases
  <2>2. memory[p].compared = n /\ Put(memory[p].round, n, Absent)
    BY <1>5, <2>1, RemoveFileChanges
  <2>3. memory[p].before[n].by = "export" /\ DirOf(memory[p]) = memory[p].round
    BY <2>1 DEF MemoryOK, RoundOK, DirOf
  <2> QED
    BY <2>1, <2>2, <2>3, PutIsGenerated DEF Publishing
<1>6. ASSUME NEW p \in Proc, RemoveRoundManifest(p), disk' # disk PROVE Generated
  <2>1. /\ memory[p].pc = "remove" /\ memory[p].compared = Manifest
        /\ Put(memory[p].round, Manifest, Absent)
    BY <1>6, RemoveRoundManifestCases, RemoveFileChanges
  <2>2. DirOf(memory[p]) = memory[p].round
    BY <2>1 DEF DirOf
  <2> QED
    BY <2>1, <2>2, PutIsGenerated DEF Publishing
<1>7. ASSUME NEW p \in Proc, WriteReport(p) PROVE FALSE
  BY <1>1, <1>7 DEF WriteReport
<1>8. ~Edit
  BY <1>1 DEF Edit
<1>9. ASSUME disk' # disk, Next
      PROVE  \E p \in Proc : \/ WriteArtifact(p) \/ RemoveObsolete(p)
                             \/ RemoveFromRound(p) \/ RemoveRoundManifest(p)
  <2>1. ~SchemaChanges
    BY <1>9 DEF SchemaChanges, files
  <2>2. ASSUME NEW p \in Proc,
               \/ Give(p) \/ Guard(p) \/ Plan(p) \/ Accept(p) \/ TakeLock(p) \/ LockHeld(p)
               \/ ReadOwned(p) \/ Capture(p) \/ PackWritten(p) \/ ListRounds(p)
               \/ CaptureRound(p) \/ RemoveRound(p) \/ Pruned(p) \/ ReportRefused(p)
               \/ Crash(p)
        PROVE  disk' = disk
    BY <2>2 DEF Give, Guard, Plan, Accept, TakeLock, LockHeld, ReadOwned, Capture,
       PackWritten, ListRounds, CaptureRound, RemoveRound, Pruned, ReportRefused, Crash,
       Stops, Reads, files
  <2> QED
    BY <1>7, <1>8, <1>9, <2>1, <2>2 DEF Next
<1>10. CASE disk' # disk
  <2>1. Next
    BY <1>10 DEF vars, files
  <2> QED
    BY <1>3, <1>4, <1>5, <1>6, <1>9, <1>10, <2>1
<1> QED
  BY <1>2, <1>10

\* Whatever people and other commands do up to the last compare of a file, a pack
\* replaces and removes only what an export wrote (writeArtifactSet,
\* pruneTimestampedExports).  The exceptions are the manifest, which is the
\* command's own, and an edit of the very file between its last compare and its
\* rename or unlink (mutation-cas.ts:229-248).
THEOREM TheirExportsAreKept == Spec => TheirExportsSurvive
<1>1. PackInv /\ DueInv /\ [Next]_vars =>
        [edits' = edits /\ reports' = reports /\ ~late =>
           \A d \in Dir, n \in Name \ {Manifest} :
             disk'[d][n] # disk[d][n] => disk[d][n].by \in {"nobody", "export"}]_vars
  <2> SUFFICES ASSUME PackInv, DueInv, [Next]_vars, edits' = edits, reports' = reports,
                      ~late
               PROVE  Generated
    BY DEF Generated
  <2> QED
    BY ChangesAreGenerated
<1> QED
  BY <1>1, PackInvariant, DueInvariant, PTL DEF Spec, TheirExportsSurvive
-----------------------------------------------------------------------------
(***************************************************************************)
(* Folds.  There is no induction over a finite set in one step here: of    *)
(* the subsets for which something fails there is a least one.             *)
(***************************************************************************)
LEMMA LeastSubset ==
  ASSUME NEW S, IsFiniteSet(S), NEW bad \in SUBSET (SUBSET S), bad # {}
  PROVE  \E T \in bad : \A U \in SUBSET T : U # T => U \notin bad
<1>1. bad \subseteq FiniteSubsetsOf(S)
  BY FS_Subset DEF FiniteSubsetsOf
<1>2. PICK T \in bad : \A U \in bad : ~(<<U, T>> \in StrictSubsetOrdering(S))
  BY <1>1, FS_StrictSubsetOrderingWellFounded, WFMin
<1>3. ASSUME NEW U \in SUBSET T, U # T, U \in bad PROVE FALSE
  <2>1. <<U, T>> \in StrictSubsetOrdering(S)
    BY <1>1, <1>3 DEF StrictSubsetOrdering
  <2> QED
    BY <1>2, <1>3, <2>1
<1> QED
  BY <1>3

LEMMA LeastNatural ==
  ASSUME NEW T \in SUBSET Nat, T # {}
  PROVE  \E n \in T : \A m \in T : n <= m
<1>1. PICK k \in T : k \in Nat
  OBVIOUS
<1> DEFINE bad == {s \in SUBSET (0..k) : \E m \in T : s = 0..m}
<1>2. IsFiniteSet(0..k)
  BY <1>1, FS_Interval
<1>3. bad # {} /\ bad \in SUBSET (SUBSET (0..k))
  BY <1>1
<1>4. \E s \in bad : \A U \in SUBSET s : U # s => U \notin bad
  <2> HIDE DEF bad
  <2> QED
    BY <1>2, <1>3, LeastSubset
<1>5. PICK n \in T : /\ 0..n \subseteq 0..k
                     /\ \A U \in SUBSET (0..n) : U # 0..n => U \notin bad
  BY <1>4
<1>6. ASSUME NEW m \in T, m < n PROVE FALSE
  <2>1. 0..m \subseteq 0..n /\ 0..m \subseteq 0..k /\ n \in 0..n /\ n \notin 0..m
    BY <1>1, <1>5, <1>6
  <2> QED
    BY <1>5, <2>1
<1> QED
  <2>1. \A m \in T : m \in Nat /\ n \in Nat /\ ~(m < n)
    BY <1>6
  <2> QED
    BY <2>1

\* What a fold computes, as a function of the subsets of S that are in D.
Computes(fold, D, base, choose, op) ==
  \A s \in D :
    fold[s] = IF s = {} THEN base ELSE op[choose[s]][fold[s \ {choose[s]}]]

HasFold(S, T, base, choose, op) ==
  \E fold \in [SUBSET S -> T] : Computes(fold, SUBSET S, base, choose, op)

\* There is such a function for the subsets of n elements, if there is one for
\* those of fewer.
LEMMA FoldExists ==
  ASSUME NEW S, IsFiniteSet(S), NEW T, NEW base \in T, NEW choose,
         \A s \in SUBSET S : s # {} => choose[s] \in s,
         NEW op \in [S -> [T -> T]]
  PROVE  HasFold(S, T, base, choose, op)
<1> DEFINE Small(n) == {s \in SUBSET S : Cardinality(s) <= n}
           Has(n) == \E fold \in [Small(n) -> T] : Computes(fold, Small(n), base, choose, op)
           bad == {n \in Nat : ~Has(n)}
<1>1. \A s \in SUBSET S : /\ Cardinality(s) \in Nat /\ Cardinality(s) <= Cardinality(S)
                          /\ Cardinality(s) = 0 <=> s = {}
                          /\ \A x \in s : Cardinality(s \ {x}) = Cardinality(s) - 1
  BY FS_Subset, FS_CardinalityType, FS_EmptySet, FS_RemoveElement
<1>2. Has(0)
  <2> DEFINE fold == [s \in Small(0) |-> base]
  <2>1. \A s \in Small(0) : s = {}
    BY <1>1
  <2>2. fold \in [Small(0) -> T]
    OBVIOUS
  <2>3. Computes(fold, Small(0), base, choose, op)
    BY <2>1 DEF Computes
  <2> QED
    BY <2>2, <2>3
<1>3. ASSUME NEW n \in Nat, Has(n) PROVE Has(n + 1)
  <2>1. PICK g \in [Small(n) -> T] : Computes(g, Small(n), base, choose, op)
    BY <1>3
  <2> DEFINE fold == [s \in Small(n + 1) |->
               IF s = {} THEN base ELSE op[choose[s]][g[s \ {choose[s]}]]]
  <2>2. ASSUME NEW s \in Small(n + 1), s # {}
        PROVE  s \ {choose[s]} \in Small(n) /\ choose[s] \in S
    <3>1. choose[s] \in s /\ Cardinality(s) \in Nat
      BY <1>1, <2>2
    <3>2. Cardinality(s \ {choose[s]}) = Cardinality(s) - 1
      BY <1>1, <3>1
    <3> QED
      BY <2>2, <3>1, <3>2
  <2>3. fold \in [Small(n + 1) -> T]
    <3>1. ASSUME NEW s \in Small(n + 1)
          PROVE  (IF s = {} THEN base ELSE op[choose[s]][g[s \ {choose[s]}]]) \in T
      <4> HIDE DEF Small
      <4> QED
        BY <2>1, <2>2
    <3> HIDE DEF Small
    <3> QED
      BY <3>1
  <2>4. \A s \in Small(n) : s \in Small(n + 1)
    BY <1>1
  <2>5. \A s \in Small(n) : fold[s] = g[s]
    <3> HIDE DEF Small
    <3> QED
      BY <2>1, <2>4 DEF Computes
  <2>6. Computes(fold, Small(n + 1), base, choose, op)
    <3> HIDE DEF Small
    <3>1. \A s \in Small(n + 1) :
            fold[s] = IF s = {} THEN base ELSE op[choose[s]][g[s \ {choose[s]}]]
      OBVIOUS
    <3> HIDE DEF fold
    <3> QED
      BY <2>2, <2>5, <3>1 DEF Computes
  <2> QED
    <3> HIDE DEF Small, fold
    <3> QED
      BY <2>3, <2>6
<1>4. bad = {}
  <2> HIDE DEF Has
  <2>1. ASSUME bad # {} PROVE FALSE
    <3>1. PICK n \in bad : \A m \in bad : n <= m
      BY <2>1, LeastNatural
    <3>2. n # 0 /\ n \in Nat
      BY <1>2
    <3>3. n - 1 \in Nat /\ n - 1 \notin bad
      BY <3>1, <3>2
    <3>4. Has(n - 1)
      BY <3>3
    <3>5. Has((n - 1) + 1)
      BY <1>3, <3>3, <3>4
    <3>6. (n - 1) + 1 = n
      BY <3>2
    <3>7. ~Has(n)
      OBVIOUS
    <3> QED
      BY <3>5, <3>6, <3>7
  <2> QED
    BY <2>1
<1>5. Has(Cardinality(S))
  <2> HIDE DEF Has
  <2> QED
    BY <1>1, <1>4
<1>6. Small(Cardinality(S)) = SUBSET S
  BY <1>1
<1> HIDE DEF Small
<1> QED
  BY <1>5, <1>6 DEF HasFold

\* It is the only one.
LEMMA FoldUnique ==
  ASSUME NEW S, IsFiniteSet(S), NEW base, NEW choose, NEW op, NEW f, NEW g,
         \A s \in SUBSET S : s # {} => choose[s] \in s,
         Computes(f, SUBSET S, base, choose, op), Computes(g, SUBSET S, base, choose, op)
  PROVE  \A s \in SUBSET S : f[s] = g[s]
<1> DEFINE bad == {s \in SUBSET S : f[s] # g[s]}
<1>1. ASSUME bad # {} PROVE FALSE
  <2>1. PICK s \in bad : \A U \in SUBSET s : U # s => U \notin bad
    <3>1. bad \in SUBSET (SUBSET S)
      OBVIOUS
    <3> HIDE DEF bad
    <3> QED
      BY <1>1, <3>1, LeastSubset
  <2>2. CASE s = {}
    BY <2>2 DEF Computes
  <2>3. CASE s # {}
    <3> DEFINE U == s \ {choose[s]}
    <3>1. U \in SUBSET s /\ U # s /\ U \in SUBSET S
      BY <2>3
    <3>2. f[U] = g[U]
      BY <2>1, <3>1
    <3> QED
      BY <2>3, <3>2 DEF Computes
  <2> QED
    BY <2>2, <2>3
<1> QED
  BY <1>1

-----------------------------------------------------------------------------
\* Characters is a fold that takes any record next.
Pick(s) == CHOOSE x \in s : TRUE
Picks(S) == [s \in SUBSET S |-> Pick(s)]
AddCharacters(S) == [x \in S |-> [n \in Nat |-> x.characters + n]]
Sized(S) == IsFiniteSet(S) /\ \A r \in S : r.characters \in Nat

LEMMA PicksElement ==
  ASSUME NEW S
  PROVE  \A s \in SUBSET S : s # {} => Picks(S)[s] \in s
BY DEF Picks, Pick

LEMMA CharactersFold ==
  ASSUME NEW S, Sized(S)
  PROVE  \E c \in [SUBSET S -> Nat] :
           /\ Computes(c, SUBSET S, 0, Picks(S), AddCharacters(S))
           /\ Characters(S) = c[S]
<1> DEFINE F(c) == [s \in SUBSET S |->
                      IF s = {} THEN 0 ELSE Pick(s).characters + c[s \ {Pick(s)}]]
           iter == CHOOSE c : c = F(c)
<1>1. AddCharacters(S) \in [S -> [Nat -> Nat]]
  BY DEF AddCharacters, Sized
<1>2. PICK g \in [SUBSET S -> Nat] :
        Computes(g, SUBSET S, 0, Picks(S), AddCharacters(S))
  <2>1. IsFiniteSet(S) /\ 0 \in Nat
    BY DEF Sized
  <2>2. HasFold(S, Nat, 0, Picks(S), AddCharacters(S))
    BY <1>1, <2>1, PicksElement, FoldExists
  <2> QED
    BY <2>2 DEF HasFold
<1>3. ASSUME NEW c \in [SUBSET S -> Nat], NEW s \in SUBSET S, s # {}
      PROVE  AddCharacters(S)[Picks(S)[s]][c[s \ {Picks(S)[s]}]]
               = Pick(s).characters + c[s \ {Pick(s)}]
  BY <1>3, PicksElement DEF AddCharacters, Picks
<1>4. g = F(g)
  <2>1. ASSUME NEW s \in SUBSET S PROVE g[s] = F(g)[s]
    BY <1>2, <1>3 DEF Computes
  <2> QED
    BY <2>1
<1>5. iter = F(iter)
  BY <1>4
<1>6. Characters(S) = iter[S]
  BY DEF Characters, MapThenSumSet, MapThenFoldSet, Pick
<1>7. ASSUME NEW s \in SUBSET S PROVE iter[s] = g[s]
  <2> DEFINE bad == {t \in SUBSET S : iter[t] # g[t]}
  <2> HIDE DEF iter
  <2>1. ASSUME NEW t \in bad, \A U \in SUBSET t : U # t => U \notin bad
        PROVE  FALSE
    <3>1. /\ iter[t] = IF t = {} THEN 0 ELSE Pick(t).characters + iter[t \ {Pick(t)}]
          /\ g[t] = IF t = {} THEN 0 ELSE Pick(t).characters + g[t \ {Pick(t)}]
      BY <1>4, <1>5
    <3>2. t # {} => t \ {Pick(t)} # t /\ t \ {Pick(t)} \in SUBSET t
      BY DEF Pick
    <3> QED
      BY <2>1, <3>1, <3>2
  <2>2. bad \in SUBSET (SUBSET S)
    OBVIOUS
  <2> HIDE DEF bad
  <2>3. bad = {}
    BY <2>1, <2>2, LeastSubset DEF Sized
  <2> QED
    BY <2>3 DEF bad
<1> QED
  BY <1>2, <1>6, <1>7

\* The fold of S is that of its subsets, too.
LEMMA CharactersAdd ==
  ASSUME NEW S, Sized(S)
  PROVE  /\ Characters(S) \in Nat
         /\ S = {} => Characters(S) = 0
         /\ S # {} => Characters(S) = Pick(S).characters + Characters(S \ {Pick(S)})
<1> DEFINE rest == S \ {Pick(S)}
<1>1. PICK c \in [SUBSET S -> Nat] :
        /\ Computes(c, SUBSET S, 0, Picks(S), AddCharacters(S))
        /\ Characters(S) = c[S]
  BY CharactersFold
<1>2. S = {} => c[S] = 0
  BY <1>1 DEF Computes
<1>3. CASE S # {}
  <2>1. Sized(rest) /\ rest \in SUBSET S /\ Pick(S) \in S
    BY <1>3, FS_Subset DEF Sized, Pick
  <2>2. PICK d \in [SUBSET rest -> Nat] :
          /\ Computes(d, SUBSET rest, 0, Picks(rest), AddCharacters(rest))
          /\ Characters(rest) = d[rest]
    BY <2>1, CharactersFold
  <2> HIDE DEF rest
  <2>3. Computes(c, SUBSET rest, 0, Picks(rest), AddCharacters(rest))
    <3>1. ASSUME NEW s \in SUBSET rest, s # {}
          PROVE  /\ Picks(rest)[s] = Picks(S)[s] /\ Picks(S)[s] \in rest
                 /\ s \in SUBSET S /\ s \ {Picks(S)[s]} \in SUBSET S
      BY <2>1, <3>1, PicksElement DEF Picks
    <3>2. ASSUME NEW x \in rest PROVE AddCharacters(rest)[x] = AddCharacters(S)[x]
      BY <2>1 DEF AddCharacters
    <3>3. \A s \in SUBSET rest : s \in SUBSET S
      BY <2>1
    <3> QED
      BY <1>1, <3>1, <3>2, <3>3 DEF Computes
  <2>4. c[rest] = d[rest]
    BY <2>1, <2>2, <2>3, PicksElement, FoldUnique DEF Sized
  <2>5. c[S] = Pick(S).characters + c[rest]
    BY <1>1, <1>3, <2>1 DEF Computes, Picks, AddCharacters, rest
  <2> QED
    BY <1>1, <1>3, <2>2, <2>4, <2>5 DEF rest
<1> QED
  BY <1>1, <1>2, <1>3

\* So any record may be taken first.
LEMMA CharactersWithout ==
  ASSUME NEW S, Sized(S), NEW r \in S
  PROVE  Characters(S) = r.characters + Characters(S \ {r})
<1> DEFINE Sums(T) == \A x \in T : Characters(T) = x.characters + Characters(T \ {x})
           bad == {T \in SUBSET S : ~Sums(T)}
<1>1. \A T \in SUBSET S : Sized(T) /\ Characters(T) \in Nat
  BY CharactersAdd, FS_Subset DEF Sized
<1>2. ASSUME NEW T \in bad, \A U \in SUBSET T : U # T => U \notin bad
      PROVE  FALSE
  <2>1. PICK x \in T : Characters(T) # x.characters + Characters(T \ {x})
    OBVIOUS
  <2> DEFINE y == Pick(T)
             both == T \ {x, y}
  <2>2. /\ y \in T /\ Characters(T) = y.characters + Characters(T \ {y})
        /\ x.characters \in Nat /\ y.characters \in Nat /\ x # y
    BY <1>1, <2>1, CharactersAdd DEF Sized, Pick
  <2>3. /\ T \ {x} \in SUBSET T /\ T \ {x} # T /\ T \ {y} \in SUBSET T /\ T \ {y} # T
        /\ y \in T \ {x} /\ x \in T \ {y}
        /\ (T \ {x}) \ {y} = both /\ (T \ {y}) \ {x} = both
        /\ both \in SUBSET S /\ T \ {x} \in SUBSET S /\ T \ {y} \in SUBSET S
    BY <2>1, <2>2
  <2> HIDE DEF y, both
  <2>4. Sums(T \ {x}) /\ Sums(T \ {y})
    BY <1>2, <2>3
  <2>5. /\ Characters(T \ {x}) = y.characters + Characters(both)
        /\ Characters(T \ {y}) = x.characters + Characters(both)
    BY <2>3, <2>4
  <2>6. Characters(both) \in Nat
    BY <1>1, <2>3
  <2> QED
    BY <2>1, <2>2, <2>5, <2>6
<1>3. bad \in SUBSET (SUBSET S)
  OBVIOUS
<1>4. bad = {}
  <2> HIDE DEF bad
  <2> QED
    BY <1>2, <1>3, LeastSubset DEF Sized
<1> QED
  BY <1>4

-----------------------------------------------------------------------------
(***************************************************************************)
(* The order of the records: something comes last in it.                   *)
(***************************************************************************)
TagWeights(S) == MapThenSumSet(LAMBDA tag : Weight[tag], S)
AddWeight(S) == [tag \in S |-> [n \in Int |-> Weight[tag] + n]]

LEMMA TagsAreFinite ==
  ASSUME NEW S, S \subseteq DOMAIN Weight
  PROVE  IsFiniteSet(S) /\ \A tag \in S : Weight[tag] \in Int
<1>1. /\ DOMAIN Weight = {"entry", "api", "cli", "worker", "contract", "ui", "test",
                          "config", "oversized"}
      /\ \A tag \in DOMAIN Weight : Weight[tag] \in Int
  BY DEF Weight
<1>2. IsFiniteSet(DOMAIN Weight)
  <2>1. \A T, x : IsFiniteSet(T) => IsFiniteSet(T \cup {x})
    BY FS_AddElement
  <2>2. IsFiniteSet({} \cup {"entry"} \cup {"api"} \cup {"cli"} \cup {"worker"}
          \cup {"contract"} \cup {"ui"} \cup {"test"} \cup {"config"}
          \cup {"oversized"})
    BY <2>1, FS_EmptySet, Zenon
  <2>3. DOMAIN Weight = {} \cup {"entry"} \cup {"api"} \cup {"cli"} \cup {"worker"}
          \cup {"contract"} \cup {"ui"} \cup {"test"} \cup {"config"}
          \cup {"oversized"}
    BY <1>1
  <2> QED
    BY <2>2, <2>3
<1> QED
  BY <1>1, <1>2, FS_Subset

LEMMA WeightsAreInt ==
  ASSUME NEW S, S \subseteq DOMAIN Weight
  PROVE  TagWeights(S) \in Int
<1> DEFINE F(c) == [s \in SUBSET S |->
                      IF s = {} THEN 0 ELSE Weight[Pick(s)] + c[s \ {Pick(s)}]]
           iter == CHOOSE c : c = F(c)
<1>1. AddWeight(S) \in [S -> [Int -> Int]] /\ IsFiniteSet(S) /\ 0 \in Int
  <2>1. IsFiniteSet(S) /\ \A tag \in S : Weight[tag] \in Int
    BY TagsAreFinite
  <2>2. \A tag \in S : [n \in Int |-> Weight[tag] + n] \in [Int -> Int]
    BY <2>1
  <2> QED
    BY <2>1, <2>2 DEF AddWeight
<1>2. PICK g \in [SUBSET S -> Int] : Computes(g, SUBSET S, 0, Picks(S), AddWeight(S))
  <2>1. HasFold(S, Int, 0, Picks(S), AddWeight(S))
    BY <1>1, PicksElement, FoldExists
  <2> QED
    BY <2>1 DEF HasFold
<1>3. ASSUME NEW c \in [SUBSET S -> Int], NEW s \in SUBSET S, s # {}
      PROVE  AddWeight(S)[Picks(S)[s]][c[s \ {Picks(S)[s]}]]
               = Weight[Pick(s)] + c[s \ {Pick(s)}]
  BY <1>3, PicksElement DEF AddWeight, Picks
<1>4. g = F(g)
  <2>1. ASSUME NEW s \in SUBSET S PROVE g[s] = F(g)[s]
    BY <1>2, <1>3 DEF Computes
  <2> QED
    BY <2>1
<1>5. iter = F(iter)
  BY <1>4
<1>6. TagWeights(S) = iter[S]
  BY DEF TagWeights, MapThenSumSet, MapThenFoldSet, Pick
<1>7. ASSUME NEW s \in SUBSET S PROVE iter[s] = g[s]
  <2> DEFINE bad == {t \in SUBSET S : iter[t] # g[t]}
  <2> HIDE DEF iter
  <2>1. ASSUME NEW t \in bad, \A U \in SUBSET t : U # t => U \notin bad
        PROVE  FALSE
    <3>1. /\ iter[t] = IF t = {} THEN 0 ELSE Weight[Pick(t)] + iter[t \ {Pick(t)}]
          /\ g[t] = IF t = {} THEN 0 ELSE Weight[Pick(t)] + g[t \ {Pick(t)}]
      BY <1>4, <1>5
    <3>2. t # {} => t \ {Pick(t)} # t /\ t \ {Pick(t)} \in SUBSET t
      BY DEF Pick
    <3> QED
      BY <2>1, <3>1, <3>2
  <2>2. bad \in SUBSET (SUBSET S)
    OBVIOUS
  <2> HIDE DEF bad
  <2>3. bad = {}
    BY <1>1, <2>1, <2>2, LeastSubset
  <2> QED
    BY <2>3 DEF bad
<1> QED
  <2>1. iter[S] = g[S] /\ g[S] \in Int
    BY <1>2, <1>7
  <2> HIDE DEF iter
  <2> QED
    BY <1>6, <2>1

LEMMA SourceFacts ==
  ASSUME NEW file, SourceOK(file)
  PROVE  /\ Score(file) \in Int /\ file.top \in Int /\ file.name \in Int
         /\ \E i, j \in Int : Bucket(file) = <<i, j>>
<1>1. Score(file) \in Int
  <2>1. TagWeights(file.tags) \in Int
    BY WeightsAreInt DEF SourceOK
  <2>2. Score(file) = TagWeights(file.tags)
                        + (IF file.depth < 20 THEN 20 - file.depth ELSE 0)
    BY DEF Score, TagWeights
  <2> QED
    BY <2>1, <2>2 DEF SourceOK
<1>2. file.areas # {} => Min(file.areas) \in Int
  <2>1. ASSUME file.areas # {} PROVE \E x \in file.areas : \A y \in file.areas : x =< y
    BY <2>1, LeastNatural DEF SourceOK
  <2> QED
    BY <2>1 DEF Min, SourceOK
<1>3. \E i, j \in Int : Bucket(file) = <<i, j>>
  BY <1>2 DEF Bucket, SourceOK
<1> QED
  BY <1>1, <1>3 DEF SourceOK

LEMMA EarlierIsAnOrder ==
  ASSUME NEW i1 \in Int, NEW i2 \in Int, NEW j1 \in Int, NEW j2 \in Int,
         NEW k1 \in Int, NEW k2 \in Int
  PROVE  /\ ~Earlier(<<i1, i2>>, <<i1, i2>>)
         /\ Earlier(<<i1, i2>>, <<j1, j2>>) /\ Earlier(<<j1, j2>>, <<k1, k2>>)
              => Earlier(<<i1, i2>>, <<k1, k2>>)
BY DEF Earlier

LEMMA BeforeIsAnOrder ==
  ASSUME NEW strategy, NEW S, \A file \in S : SourceOK(file)
  PROVE  /\ \A a \in S : ~Before(strategy, a, a)
         /\ \A a, b, c \in S : Before(strategy, a, b) /\ Before(strategy, b, c)
                                 => Before(strategy, a, c)
<1>1. ASSUME NEW a \in S PROVE ~Before(strategy, a, a)
  <2>1. PICK i, j \in Int : Bucket(a) = <<i, j>>
    BY SourceFacts
  <2>2. ~Earlier(Bucket(a), Bucket(a))
    BY <2>1, EarlierIsAnOrder
  <2> QED
    BY <2>2, SourceFacts DEF Before
<1>2. ASSUME NEW a \in S, NEW b \in S, NEW c \in S,
             Before(strategy, a, b), Before(strategy, b, c)
      PROVE  Before(strategy, a, c)
  <2>2. Earlier(Bucket(a), Bucket(b)) /\ Earlier(Bucket(b), Bucket(c))
          => Earlier(Bucket(a), Bucket(c))
    <3>1. PICK a1, a2 \in Int : Bucket(a) = <<a1, a2>>
      BY SourceFacts
    <3>2. PICK b1, b2 \in Int : Bucket(b) = <<b1, b2>>
      BY SourceFacts
    <3>3. PICK c1, c2 \in Int : Bucket(c) = <<c1, c2>>
      BY SourceFacts
    <3> QED
      BY <3>1, <3>2, <3>3, EarlierIsAnOrder
  <2>3. /\ Score(a) \in Int /\ Score(b) \in Int /\ Score(c) \in Int
        /\ a.top \in Int /\ b.top \in Int /\ c.top \in Int
        /\ a.name \in Int /\ b.name \in Int /\ c.name \in Int
    BY SourceFacts
  <2> QED
    BY <1>2, <2>2, <2>3 DEF Before
<1> QED
  BY <1>1, <1>2

LEMMA SomethingIsLast ==
  ASSUME NEW strategy, NEW S, IsFiniteSet(S), \A file \in S : SourceOK(file), S # {}
  PROVE  SortedLast(S, strategy) \in S
<1> DEFINE Has(T) == \E m \in T : \A x \in T : ~Before(strategy, m, x)
           bad == {T \in SUBSET S : T # {} /\ ~Has(T)}
<1>1. ASSUME NEW T \in bad, \A U \in SUBSET T : U # T => U \notin bad
      PROVE  FALSE
  <2>1. PICK x \in T : TRUE
    OBVIOUS
  <2>2. T \ {x} \in SUBSET T /\ T \ {x} # T /\ T \subseteq S
    BY <2>1
  <2>3. CASE T \ {x} = {}
    <3>1. T = {x}
      BY <2>1, <2>3
    <3> QED
      BY <3>1, BeforeIsAnOrder
  <2>4. CASE T \ {x} # {}
    <3>1. Has(T \ {x})
      BY <1>1, <2>2, <2>4
    <3>2. PICK m \in T \ {x} : \A y \in T \ {x} : ~Before(strategy, m, y)
      BY <3>1
    <3>3. CASE ~Before(strategy, m, x)
      BY <3>2, <3>3
    <3>4. CASE Before(strategy, m, x)
      <4>1. ASSUME NEW y \in T PROVE ~Before(strategy, x, y)
        BY <2>1, <2>2, <3>2, <3>4, BeforeIsAnOrder
      <4> QED
        BY <4>1
    <3> QED
      BY <3>3, <3>4
  <2> QED
    BY <2>3, <2>4
<1>2. bad \in SUBSET (SUBSET S)
  OBVIOUS
<1>3. bad = {}
  <2> HIDE DEF bad
  <2> QED
    BY <1>1, <1>2, LeastSubset
<1>4. Has(S)
  BY <1>3
<1> QED
  BY <1>4 DEF SortedLast

-----------------------------------------------------------------------------
\* Bundles is a fold that takes the last record of the order last.
Lasts(S, strategy) == [s \in SUBSET S |-> SortedLast(s, strategy)]
BundlesOf(S) == [first : SUBSET S, second : SUBSET S, omitted : SUBSET S]
AddRecord(S, budget) == [r \in S |-> [b \in BundlesOf(S) |-> Add(budget, b, r)]]
NoBundles == [first |-> {}, second |-> {}, omitted |-> {}]
Sources(S) == IsFiniteSet(S) /\ \A file \in S : SourceOK(file)

LEMMA SourcesFacts ==
  ASSUME NEW S, Sources(S)
  PROVE  Sized(S) /\ \A T \in SUBSET S : Sources(T) /\ Sized(T)
BY FS_Subset DEF Sources, Sized, SourceOK

LEMMA LastsElement ==
  ASSUME NEW S, Sources(S), NEW strategy
  PROVE  \A s \in SUBSET S : s # {} => Lasts(S, strategy)[s] \in s
<1>1. ASSUME NEW s \in SUBSET S, s # {} PROVE SortedLast(s, strategy) \in s
  BY <1>1, SourcesFacts, SomethingIsLast DEF Sources
<1> QED
  BY <1>1 DEF Lasts

LEMMA AddTyped ==
  ASSUME NEW S, NEW budget, NEW b \in BundlesOf(S), NEW r \in S
  PROVE  Add(budget, b, r) \in BundlesOf(S)
BY DEF Add, BundlesOf

LEMMA BundlesFold ==
  ASSUME NEW S, Sources(S), NEW strategy, NEW budget
  PROVE  \E c \in [SUBSET S -> BundlesOf(S)] :
           /\ Computes(c, SUBSET S, NoBundles, Lasts(S, strategy), AddRecord(S, budget))
           /\ Bundles(S, strategy, budget) = c[S]
<1> DEFINE last(s) == SortedLast(s, strategy)
           F(c) == [s \in SUBSET S |->
                      IF s = {} THEN NoBundles
                      ELSE Add(budget, c[s \ {last(s)}], last(s))]
           iter == CHOOSE c : c = F(c)
<1>1. AddRecord(S, budget) \in [S -> [BundlesOf(S) -> BundlesOf(S)]]
  <2>1. \A r \in S : [b \in BundlesOf(S) |-> Add(budget, b, r)]
                       \in [BundlesOf(S) -> BundlesOf(S)]
    BY AddTyped
  <2> QED
    BY <2>1 DEF AddRecord
<1>2. PICK g \in [SUBSET S -> BundlesOf(S)] :
        Computes(g, SUBSET S, NoBundles, Lasts(S, strategy), AddRecord(S, budget))
  <2>1. NoBundles \in BundlesOf(S)
    BY DEF NoBundles, BundlesOf
  <2>2. HasFold(S, BundlesOf(S), NoBundles, Lasts(S, strategy), AddRecord(S, budget))
    BY <1>1, <2>1, LastsElement, FoldExists DEF Sources
  <2> QED
    BY <2>2 DEF HasFold
<1>3. \A s \in SUBSET S : s # {} => last(s) \in s
  BY LastsElement DEF Lasts
<1>4. ASSUME NEW c \in [SUBSET S -> BundlesOf(S)], NEW s \in SUBSET S, s # {}
      PROVE  AddRecord(S, budget)[Lasts(S, strategy)[s]][c[s \ {Lasts(S, strategy)[s]}]]
               = Add(budget, c[s \ {last(s)}], last(s))
  <2>1. Lasts(S, strategy)[s] = last(s) /\ last(s) \in S
    BY <1>3, <1>4 DEF Lasts
  <2> HIDE DEF last
  <2>2. c[s \ {last(s)}] \in BundlesOf(S)
    OBVIOUS
  <2> QED
    BY <2>1, <2>2 DEF AddRecord
<1>5. g = F(g)
  <2>1. ASSUME NEW s \in SUBSET S PROVE g[s] = F(g)[s]
    <3> HIDE DEF last
    <3> QED
      BY <1>2, <1>4 DEF Computes
  <2> QED
    BY <2>1
<1>6. iter = F(iter)
  BY <1>5
<1>7. Bundles(S, strategy, budget) = iter[S]
  BY DEF Bundles, MapThenFoldSet, NoBundles
<1>8. ASSUME NEW s \in SUBSET S PROVE iter[s] = g[s]
  <2> DEFINE bad == {t \in SUBSET S : iter[t] # g[t]}
  <2> HIDE DEF iter, last
  <2>1. ASSUME NEW t \in bad, \A U \in SUBSET t : U # t => U \notin bad
        PROVE  FALSE
    <3>1. /\ iter[t] = IF t = {} THEN NoBundles
                       ELSE Add(budget, iter[t \ {last(t)}], last(t))
          /\ g[t] = IF t = {} THEN NoBundles
                    ELSE Add(budget, g[t \ {last(t)}], last(t))
      BY <1>5, <1>6
    <3>2. t # {} => t \ {last(t)} # t /\ t \ {last(t)} \in SUBSET t
      BY <1>3
    <3> QED
      BY <2>1, <3>1, <3>2
  <2>2. bad \in SUBSET (SUBSET S)
    OBVIOUS
  <2> HIDE DEF bad
  <2>3. bad = {}
    BY <2>1, <2>2, LeastSubset DEF Sources
  <2> QED
    BY <2>3 DEF bad
<1> QED
  <2>1. iter[S] = g[S]
    BY <1>8
  <2> HIDE DEF iter, last
  <2> QED
    BY <1>2, <1>7, <2>1

LEMMA BundlesAdd ==
  ASSUME NEW S, Sources(S), NEW strategy, NEW budget
  PROVE  LET last == SortedLast(S, strategy)
         IN  /\ S = {} => Bundles(S, strategy, budget) = NoBundles
             /\ S # {} => /\ last \in S
                          /\ Bundles(S, strategy, budget)
                               = Add(budget, Bundles(S \ {last}, strategy, budget), last)
<1> DEFINE last == SortedLast(S, strategy)
           rest == S \ {last}
<1>1. PICK c \in [SUBSET S -> BundlesOf(S)] :
        /\ Computes(c, SUBSET S, NoBundles, Lasts(S, strategy), AddRecord(S, budget))
        /\ Bundles(S, strategy, budget) = c[S]
  BY BundlesFold
<1>2. S = {} => c[S] = NoBundles
  BY <1>1 DEF Computes
<1>3. CASE S # {}
  <2>1. /\ last \in S /\ Lasts(S, strategy)[S] = last
        /\ Sources(rest) /\ rest \in SUBSET S /\ S \in SUBSET S
    BY <1>3, LastsElement, SourcesFacts DEF Lasts
  <2>2. PICK d \in [SUBSET rest -> BundlesOf(rest)] :
          /\ Computes(d, SUBSET rest, NoBundles, Lasts(rest, strategy), AddRecord(rest, budget))
          /\ Bundles(rest, strategy, budget) = d[rest]
    BY <2>1, BundlesFold
  <2> HIDE DEF last, rest
  <2>3. Computes(d, SUBSET rest, NoBundles, Lasts(S, strategy), AddRecord(S, budget))
    <3>1. ASSUME NEW s \in SUBSET rest, s # {}
          PROVE  /\ Lasts(rest, strategy)[s] = Lasts(S, strategy)[s]
                 /\ Lasts(S, strategy)[s] \in s
      BY <2>1, <3>1, LastsElement DEF Lasts
    <3>2. ASSUME NEW x \in rest, NEW b \in BundlesOf(rest)
          PROVE  AddRecord(rest, budget)[x][b] = AddRecord(S, budget)[x][b]
      <4>1. b \in BundlesOf(S) /\ x \in S
        BY <2>1 DEF BundlesOf
      <4> QED
        BY <4>1 DEF AddRecord
    <3>3. ASSUME NEW s \in SUBSET rest, s # {}
          PROVE  d[s] = AddRecord(S, budget)[Lasts(S, strategy)[s]]
                                            [d[s \ {Lasts(S, strategy)[s]}]]
      <4> DEFINE x == Lasts(S, strategy)[s]
      <4>1. Lasts(rest, strategy)[s] = x /\ x \in rest
        BY <3>1, <3>3
      <4>2. d[s] = AddRecord(rest, budget)[x][d[s \ {x}]]
        BY <2>2, <3>3, <4>1 DEF Computes
      <4> HIDE DEF x
      <4>3. d[s \ {x}] \in BundlesOf(rest)
        BY <2>2
      <4>4. d[s] = AddRecord(S, budget)[x][d[s \ {x}]]
        BY <3>2, <4>1, <4>2, <4>3
      <4> QED
        BY <4>4 DEF x
    <3>4. d[{}] = NoBundles
      BY <2>2 DEF Computes
    <3> QED
      BY <3>3, <3>4 DEF Computes
  <2>4. Computes(c, SUBSET rest, NoBundles, Lasts(S, strategy), AddRecord(S, budget))
    BY <1>1, <2>1 DEF Computes
  <2>5. \A s \in SUBSET rest : s # {} => Lasts(S, strategy)[s] \in s
    BY <2>1, LastsElement
  <2>6. \A s \in SUBSET rest : c[s] = d[s]
    BY <2>1, <2>3, <2>4, <2>5, FoldUnique DEF Sources
  <2>7. c[rest] = d[rest] /\ c[rest] \in BundlesOf(S)
    BY <2>1, <2>6
  <2>8. c[S] = AddRecord(S, budget)[last][c[rest]]
    BY <1>1, <1>3, <2>1 DEF Computes, rest
  <2>9. c[S] = Add(budget, c[rest], last)
    BY <2>1, <2>7, <2>8 DEF AddRecord
  <2> QED
    BY <1>1, <1>3, <2>1, <2>2, <2>7, <2>9 DEF rest, last
<1> QED
  BY <1>1, <1>2, <1>3

\* Both bundles are within the budget, and neither has room for what is left out.
WithinBudget(b, budget) ==
  /\ Characters(b.first) <= budget /\ Characters(b.second) <= budget
  /\ \A r \in b.omitted : /\ Characters(b.first) + r.characters > budget
                          /\ Characters(b.second) + r.characters > budget

\* A bundle that one more record goes to is larger by it.
LEMMA BundleGrows ==
  ASSUME NEW S, Sources(S), NEW r \in S, NEW bundle \in SUBSET (S \ {r})
  PROVE  /\ Characters(bundle) \in Nat /\ r.characters \in Nat
         /\ Characters(bundle \cup {r}) = Characters(bundle) + r.characters
<1>1. bundle \in SUBSET S /\ bundle \cup {r} \in SUBSET S /\ r \notin bundle
  OBVIOUS
<1>2. Sized(bundle) /\ Sized(bundle \cup {r})
  BY <1>1, SourcesFacts
<1>3. Characters(bundle) \in Nat /\ r.characters \in Nat
  BY <1>2, CharactersAdd DEF Sized
<1>4. (bundle \cup {r}) \ {r} = bundle
  BY <1>1
<1>5. Characters(bundle \cup {r}) = r.characters + Characters((bundle \cup {r}) \ {r})
  BY <1>2, CharactersWithout
<1> QED
  BY <1>3, <1>4, <1>5

LEMMA AddStaysWithin ==
  ASSUME NEW S, Sources(S), NEW r \in S, NEW budget \in Nat,
         NEW b \in BundlesOf(S \ {r}), WithinBudget(b, budget)
  PROVE  /\ WithinBudget(Add(budget, b, r), budget)
         /\ Add(budget, b, r) \in BundlesOf(S)
<1>1. /\ b.first \in SUBSET (S \ {r}) /\ b.second \in SUBSET (S \ {r})
      /\ b.omitted \in SUBSET (S \ {r}) /\ DOMAIN b = {"first", "second", "omitted"}
  BY DEF BundlesOf
<1>2. /\ Characters(b.first) \in Nat /\ Characters(b.second) \in Nat
      /\ r.characters \in Nat
      /\ Characters(b.first \cup {r}) = Characters(b.first) + r.characters
      /\ Characters(b.second \cup {r}) = Characters(b.second) + r.characters
  BY <1>1, BundleGrows
<1>3. \A x \in b.omitted : x.characters \in Nat
  BY <1>1 DEF Sources, SourceOK
<1>4. Add(budget, b, r) \in BundlesOf(S)
  <2>1. b \in BundlesOf(S)
    BY DEF BundlesOf
  <2> QED
    BY <2>1, AddTyped
<1>5. CASE Characters(b.first) + r.characters <= budget
  <2>1. Add(budget, b, r) = [b EXCEPT !.first = @ \cup {r}]
    BY <1>5 DEF Add
  <2>2. /\ Add(budget, b, r).first = b.first \cup {r}
        /\ Add(budget, b, r).second = b.second
        /\ Add(budget, b, r).omitted = b.omitted
    BY <1>1, <2>1
  <2> QED
    <3>1. Characters(b.first \cup {r}) <= budget /\ Characters(b.second) <= budget
      BY <1>2, <1>5 DEF WithinBudget
    <3>2. ASSUME NEW x \in b.omitted
          PROVE  /\ Characters(b.first \cup {r}) + x.characters > budget
                 /\ Characters(b.second) + x.characters > budget
      <4>1. /\ Characters(b.first) + x.characters > budget
            /\ Characters(b.second) + x.characters > budget /\ x.characters \in Nat
        BY <1>3 DEF WithinBudget
      <4> QED
        BY <1>2, <4>1
    <3> QED
      BY <1>4, <2>2, <3>1, <3>2 DEF WithinBudget
<1>6. CASE /\ ~(Characters(b.first) + r.characters <= budget)
           /\ Characters(b.second) + r.characters <= budget
  <2>1. Add(budget, b, r) = [b EXCEPT !.second = @ \cup {r}]
    BY <1>6 DEF Add
  <2>2. /\ Add(budget, b, r).first = b.first
        /\ Add(budget, b, r).second = b.second \cup {r}
        /\ Add(budget, b, r).omitted = b.omitted
    BY <1>1, <2>1
  <2> QED
    <3>1. Characters(b.first) <= budget /\ Characters(b.second \cup {r}) <= budget
      BY <1>2, <1>6 DEF WithinBudget
    <3>2. ASSUME NEW x \in b.omitted
          PROVE  /\ Characters(b.first) + x.characters > budget
                 /\ Characters(b.second \cup {r}) + x.characters > budget
      <4>1. /\ Characters(b.first) + x.characters > budget
            /\ Characters(b.second) + x.characters > budget /\ x.characters \in Nat
        BY <1>3 DEF WithinBudget
      <4> QED
        BY <1>2, <4>1
    <3> QED
      BY <1>4, <2>2, <3>1, <3>2 DEF WithinBudget
<1>7. CASE /\ ~(Characters(b.first) + r.characters <= budget)
           /\ ~(Characters(b.second) + r.characters <= budget)
  <2>1. Add(budget, b, r) = [b EXCEPT !.omitted = @ \cup {r}]
    BY <1>7 DEF Add
  <2>2. /\ Add(budget, b, r).first = b.first
        /\ Add(budget, b, r).second = b.second
        /\ Add(budget, b, r).omitted = b.omitted \cup {r}
    BY <1>1, <2>1
  <2> QED
    BY <1>2, <1>3, <1>4, <1>7, <2>2 DEF WithinBudget
<1> QED
  BY <1>5, <1>6, <1>7

\* What assignBundles computes, for any files, order and budget.
LEMMA BundlesAreWithin ==
  ASSUME NEW S, Sources(S), NEW strategy, NEW budget \in Nat
  PROVE  /\ Bundles(S, strategy, budget) \in BundlesOf(S)
         /\ WithinBudget(Bundles(S, strategy, budget), budget)
<1> DEFINE bundles(T) == Bundles(T, strategy, budget)
           Good(T) == bundles(T) \in BundlesOf(T) /\ WithinBudget(bundles(T), budget)
           bad == {T \in SUBSET S : ~Good(T)}
<1>1. ASSUME NEW T \in bad, \A U \in SUBSET T : U # T => U \notin bad
      PROVE  FALSE
  <2>1. T \in SUBSET S /\ Sources(T)
    BY SourcesFacts
  <2>2. CASE T = {}
    <3>1. bundles(T) = NoBundles
      BY <2>1, <2>2, BundlesAdd
    <3>2. Characters({}) = 0
      <4>1. Sized({})
        BY FS_EmptySet DEF Sized
      <4> QED
        BY <4>1, CharactersAdd
    <3>3. Good(T)
      BY <3>1, <3>2 DEF NoBundles, BundlesOf, WithinBudget
    <3> QED
      BY <3>3
  <2>3. CASE T # {}
    <3> DEFINE last == SortedLast(T, strategy)
               rest == T \ {last}
    <3>1. last \in T /\ bundles(T) = Add(budget, bundles(rest), last)
      BY <2>1, <2>3, BundlesAdd
    <3>2. rest \in SUBSET T /\ rest # T /\ rest \in SUBSET S
      BY <2>1, <3>1
    <3> HIDE DEF last
    <3>3. Good(rest)
      BY <1>1, <3>2
    <3>4. Good(T)
      BY <2>1, <3>1, <3>3, AddStaysWithin
    <3> QED
      BY <3>4
  <2> QED
    BY <2>2, <2>3
<1>2. bad \in SUBSET (SUBSET S)
  OBVIOUS
<1>3. bad = {}
  <2> HIDE DEF bad
  <2> QED
    BY <1>1, <1>2, LeastSubset DEF Sources
<1> QED
  BY <1>3

-----------------------------------------------------------------------------
LEMMA Lengths ==
  ASSUME NEW x, NEW s, s = <<>> \/ s = <<x>>
  PROVE  Len(s) \in {0, 1} /\ (Len(s) = 1 => s # <<>>)
<1>1. CASE s = <<>>
  BY <1>1
<1>2. CASE s = <<x>>
  BY <1>2
<1> QED
  BY <1>1, <1>2

\* The artifacts of a mode, with the manifest, are within a limit that was accepted.
LEMMA DefaultBundlesFit ==
  ASSUME NEW s \in Seq(Name), NEW max \in Int, NEW bundles, Len(s) + 1 <= max
  PROVE  Len(WithDefaultBundles(s, max, bundles)) + 1 <= max
<1> DEFINE c == IF Slots(max, s) >= 1 /\ bundles.first # {} THEN <<"core">> ELSE <<>>
           e == IF Slots(max, s) >= 2 /\ bundles.second # {} THEN <<"extended">> ELSE <<>>
<1>1. /\ c \in Seq(Name) /\ (c = <<>> \/ (c = <<"core">> /\ max - Len(s) - 1 >= 1))
      /\ e \in Seq(Name) /\ (e = <<>> \/ (e = <<"extended">> /\ max - Len(s) - 1 >= 2))
  BY PackNameFacts DEF Slots
<1>2. WithDefaultBundles(s, max, bundles) = (s \o c) \o e
  BY DEF WithDefaultBundles
<1> HIDE DEF c, e
<1>3. Len((s \o c) \o e) = Len(s) + Len(c) + Len(e)
  BY <1>1
<1>4. Len(c) \in {0, 1} /\ (Len(c) = 1 => max - Len(s) - 1 >= 1)
  BY <1>1, Lengths
<1>5. Len(e) \in {0, 1} /\ (Len(e) = 1 => max - Len(s) - 1 >= 2)
  BY <1>1, Lengths
<1>6. Len(s) \in Nat
  OBVIOUS
<1> QED
  BY <1>2, <1>3, <1>4, <1>5, <1>6

LEMMA TaskFits ==
  ASSUME NEW max \in Int, NEW bundles, NEW task \in Name, 4 <= max
  PROVE  Len(WithTask(<<"full", "index">>, max, bundles, task)) + 1 <= max
<1> DEFINE taken == Append(<<"full", "index">>, task)
           e == IF Slots(max, taken) >= 1 /\ bundles.second # {} THEN <<"support">> ELSE <<>>
<1>1. taken \in Seq(Name) /\ Len(taken) = 3
  BY PackNameFacts
<1>2. WithTask(<<"full", "index">>, max, bundles, task) = taken \o e
  BY DEF WithTask
<1> HIDE DEF taken
<1>3. e \in Seq(Name) /\ (e = <<>> \/ (e = <<"support">> /\ max - Len(taken) - 1 >= 1))
  BY PackNameFacts DEF Slots
<1> HIDE DEF e
<1>4. Len(e) \in {0, 1} /\ (Len(e) = 1 => max - Len(taken) - 1 >= 1)
  BY <1>3, Lengths
<1>5. Len(taken \o e) = Len(taken) + Len(e)
  <2>1. taken \in Seq(Name) /\ e \in Seq(Name)
    BY <1>1, <1>3
  <2> QED
    BY <2>1
<1> QED
  BY <1>1, <1>2, <1>4, <1>5

LEMMA ArtifactsFit ==
  ASSUME NEW mode \in Modes, NEW max \in Int, NEW bundles, NEW task,
         mode = "task-context" => task \in Name,
         LimitAccepted(mode, max)
  PROVE  Len(Artifacts(mode, max, bundles, task)) + 1 <= max
<1>1. CASE mode = "code-index"
  <2>1. Artifacts(mode, max, bundles, task) = <<"index">> /\ 2 <= max
    BY <1>1 DEF Artifacts, LimitAccepted, RequiredFiles, MaximumPackFiles
  <2> QED
    BY <2>1
<1>2. CASE mode = "source-pack"
  <2>1. /\ Artifacts(mode, max, bundles, task)
             = WithDefaultBundles(<<"full", "index">>, max, bundles)
        /\ 3 <= max
    BY <1>2 DEF Artifacts, LimitAccepted, RequiredFiles, MaximumPackFiles
  <2> DEFINE s == <<"full", "index">>
  <2>2. s \in Seq(Name) /\ Len(s) = 2
    BY PackNameFacts
  <2> HIDE DEF s
  <2>3. Len(s) + 1 <= max
    BY <2>1, <2>2
  <2>4. Len(WithDefaultBundles(s, max, bundles)) + 1 <= max
    BY <2>2, <2>3, DefaultBundlesFit
  <2> QED
    BY <2>1, <2>4 DEF s
<1>3. CASE mode = "code-bundles"
  <2>1. /\ Artifacts(mode, max, bundles, task)
             = WithDefaultBundles(<<"index">>, max, bundles)
        /\ 3 <= max
    BY <1>3 DEF Artifacts, LimitAccepted, RequiredFiles, MaximumPackFiles
  <2> DEFINE s == <<"index">>
  <2>2. s \in Seq(Name) /\ Len(s) = 1
    BY PackNameFacts
  <2> HIDE DEF s
  <2>3. Len(s) + 1 <= max
    BY <2>1, <2>2
  <2>4. Len(WithDefaultBundles(s, max, bundles)) + 1 <= max
    BY <2>2, <2>3, DefaultBundlesFit
  <2> QED
    BY <2>1, <2>4 DEF s
<1>4. CASE mode = "task-context"
  <2>1. /\ Artifacts(mode, max, bundles, task)
             = WithTask(<<"full", "index">>, max, bundles, task)
        /\ 4 <= max
    BY <1>4 DEF Artifacts, LimitAccepted, RequiredFiles, MaximumPackFiles
  <2> QED
    BY <1>4, <2>1, TaskFits
<1> QED
  BY <1>1, <1>2, <1>3, <1>4 DEF Modes

\* A pack that was asked for has passed parseArgs; a pack that was planned fits.
Asked(m) ==
  m.pc \in {"guard", "plan"} /\ m.mode \in Modes => PackRequestOK(m) /\ ArgumentsParsed(m)
Fits(m) ==
  /\ Len(m.artifacts) + 1 <= m.max
  /\ WithinBudget(m.bundles, BudgetOf(m))

PlansInv ==
  /\ project \in Projects
  /\ \A p \in Proc : Asked(memory[p]) /\ (memory[p].pc = "planned" => Fits(memory[p]))

Planning == {"guard", "plan", "planned"}

LEMMA PlansStep ==
  ASSUME PlansInv, NEW p \in Proc, Only(p), project' = project,
         Asked(memory'[p]), memory'[p].pc = "planned" => Fits(memory'[p])
  PROVE  PlansInv'
<1>1. ASSUME NEW q \in Proc
      PROVE  Asked(memory'[q]) /\ (memory'[q].pc = "planned" => Fits(memory'[q]))
  <2>1. CASE q = p
    BY <2>1
  <2>2. CASE q # p
    BY <2>2 DEF Only, PlansInv
  <2> QED
    BY <2>1, <2>2
<1> QED
  BY <1>1 DEF PlansInv

\* A step of p that plans nothing.
LEMMA PlansKept ==
  ASSUME PlansInv, NEW p \in Proc, Only(p), project' = project,
         memory'[p].pc \notin Planning
  PROVE  PlansInv'
<1>1. Asked(memory'[p]) /\ memory'[p].pc # "planned"
  BY DEF Asked, Planning
<1> QED
  BY <1>1, PlansStep

LEMMA EndsPlans ==
  ASSUME PackInv, PlansInv, NEW p \in Proc, Ends(p), project' = project
  PROVE  PlansInv'
<1>1. Only(p) /\ memory'[p].pc \notin Planning
  BY EndsFacts DEF Planning
<1> QED
  BY <1>1, PlansKept

LEMMA StopsPlans ==
  ASSUME PackInv, PlansInv, NEW p \in Proc, NEW message, Stops(p, message)
  PROVE  PlansInv'
BY EndsPlans DEF Stops, settings

LEMMA BecomesPlans ==
  ASSUME PackInv, PlansInv, NEW p \in Proc, NEW next,
         memory' = [memory EXCEPT ![p] = next], next.pc \notin Planning,
         project' = project
  PROVE  PlansInv'
<1>1. Only(p) /\ memory'[p] = next
  BY DEF PackInv, Only
<1> QED
  BY <1>1, PlansKept

LEMMA GoesPlans ==
  ASSUME PackInv, PlansInv, NEW p \in Proc, NEW f, Goes(p, f),
         "pc" \in DOMAIN f => f.pc \notin Planning,
         memory[p].pc \notin Planning, project' = project
  PROVE  PlansInv'
<1>1. "pc" \in DOMAIN memory[p]
  BY DEF PackInv, MemoryOK
<1>2. Only(p) /\ memory'[p].pc \notin Planning
  BY <1>1, Moves
<1> QED
  BY <1>2, PlansKept

LEMMA GivePlans ==
  ASSUME PackInv, PlansInv, NEW p \in Proc, Give(p)
  PROVE  PlansInv'
<1>1. memory[p].pc = "idle" /\ project' = project
  BY DEF Give, At, settings
<1>2. CASE memory' = memory
  BY <1>1, <1>2 DEF PlansInv
<1>3. CASE memory' # memory
  <2>1. PICK request \in Requests :
          /\ ArgumentsParsed(request)
          /\ memory' = [memory EXCEPT ![p] = Updated(request, [pc |-> "guard"])]
    BY <1>3 DEF Give
  <2>2. Only(p) /\ memory'[p] = Updated(request, [pc |-> "guard"])
    BY <2>1 DEF PackInv, Only
  <2>3. /\ memory'[p].pc = "guard"
        /\ \A x \in DOMAIN request \ {"pc"} :
             memory'[p][x] = request[x] /\ x \in DOMAIN memory'[p]
    BY <2>2 DEF Updated
  <2> DEFINE m == memory'[p]
  <2>4. m.mode = request.mode
    BY <2>3, RequestAssumption DEF RequestOK
  <2>5. ASSUME m.mode \in Modes PROVE PackRequestOK(m) /\ ArgumentsParsed(m)
    <3>1. PackRequestOK(request)
      BY <2>4, <2>5, PackRequestAssumption
    <3>2. /\ m.max = request.max /\ m.budget = request.budget /\ m.keep = request.keep
          /\ m.strategy = request.strategy
      BY <2>3, <3>1 DEF PackRequestOK
    <3> QED
      BY <2>1, <2>3, <2>4, <2>5, <3>1, <3>2 DEF PackRequestOK, ArgumentsParsed
  <2>6. Asked(m) /\ m.pc # "planned"
    BY <2>3, <2>5 DEF Asked
  <2> HIDE DEF m
  <2> QED
    BY <1>1, <2>2, <2>6, PlansStep DEF m
<1> QED
  BY <1>2, <1>3

LEMMA GuardPlans ==
  ASSUME PackInv, PlansInv, NEW p \in Proc, Guard(p)
  PROVE  PlansInv'
<1>1. /\ memory[p].pc = "guard" /\ RequestOK(memory[p]) /\ Asked(memory[p])
  BY DEF Guard, At, PackInv, MemoryOK, PlansInv
<1>2. CASE Stops(p, "refused")
  BY <1>2, StopsPlans
<1>3. CASE ~ Stops(p, "refused")
  <2>1. PICK l \in {"plan", "report", "lock report"} : Goto(p, l) /\ project' = project
    BY <1>3 DEF Guard, Reads, settings
  <2> DEFINE f == [pc |-> l]
  <2>2. Goes(p, f) /\ DOMAIN f = {"pc"} /\ f.pc = l
    BY <2>1 DEF Goto
  <2> HIDE DEF f
  <2>3. /\ Only(p) /\ memory'[p].pc = l
        /\ \A x \in DOMAIN memory[p] \ {"pc"} : memory'[p][x] = memory[p][x]
    BY <2>2, Moves
  <2>4. DOMAIN memory'[p] = DOMAIN memory[p] \cup {"pc"}
    <3>1. DOMAIN memory'[p] = DOMAIN memory[p] \cup DOMAIN f
      BY <2>2, Moves
    <3> QED
      BY <2>2, <3>1
  <2>5. memory'[p].mode = memory[p].mode
    BY <1>1, <2>3 DEF RequestOK
  <2>6. ASSUME memory'[p].mode \in Modes
        PROVE  PackRequestOK(memory'[p]) /\ ArgumentsParsed(memory'[p])
    <3>1. PackRequestOK(memory[p]) /\ ArgumentsParsed(memory[p])
      BY <1>1, <2>5, <2>6 DEF Asked
    <3>2. /\ memory'[p].max = memory[p].max /\ memory'[p].keep = memory[p].keep
          /\ memory'[p].budget = memory[p].budget
          /\ memory'[p].strategy = memory[p].strategy
      BY <2>3, <3>1 DEF PackRequestOK
    <3> QED
      BY <2>4, <2>5, <3>1, <3>2 DEF PackRequestOK, ArgumentsParsed
  <2>7. Asked(memory'[p]) /\ memory'[p].pc # "planned"
    BY <2>3, <2>6 DEF Asked
  <2> QED
    BY <2>1, <2>3, <2>7, PlansStep
<1> QED
  BY <1>2, <1>3

\* The budget of a pack, from its options, its profile or the default.
LEMMA BudgetFacts ==
  ASSUME NEW request, PackRequestOK(request), ArgumentsParsed(request),
         request.mode \in Modes, request.profile \in DOMAIN Profiles \cup {None}
  PROVE  BudgetOf(request) \in Nat
<1>1. request.budget # None => request.budget \in Nat
  BY DEF PackRequestOK, ArgumentsParsed
<1>2. ProfileOf(request).budget # None => ProfileOf(request).budget \in Nat
  <2>1. CASE request.profile = None
    BY <2>1 DEF ProfileOf, NoProfile
  <2>2. CASE request.profile # None
    <3>1. Profiles[request.profile].budget \in (Nat \ {0}) \cup {None}
      BY <2>2, ProfilesAssumption
    <3> QED
      BY <2>2, <3>1 DEF ProfileOf
  <2> QED
    BY <2>1, <2>2
<1> QED
  BY <1>1, <1>2 DEF BudgetOf, DefaultBundleCharacters

LEMMA RecordsFacts ==
  ASSUME project \in Projects, NEW request
  PROVE  Sources(RecordsOf(request))
<1>1. ProjectOK(project)
  BY ProjectsAssumption
<1>2. RecordsOf(request) \in SUBSET project
  BY DEF RecordsOf, CodeRecords
<1> QED
  BY <1>1, <1>2, FS_Subset DEF ProjectOK, Sources

LEMMA PlanPlans ==
  ASSUME PackInv, PlansInv, NEW p \in Proc, Plan(p)
  PROVE  PlansInv'
<1> DEFINE request == memory[p]
           bundles == Bundles(RecordsOf(request), request.strategy, BudgetOf(request))
           artifacts == Artifacts(request.mode, request.max, bundles, request.task)
<1>1. /\ memory[p].pc = "plan" /\ RequestOK(request) /\ request.mode \in Modes
      /\ PackRequestOK(request) /\ ArgumentsParsed(request) /\ project \in Projects
  BY DEF Plan, At, PackInv, MemoryOK, PlansInv, Asked
<1>2. CASE Stops(p, "refused")
  BY <1>2, StopsPlans
<1>3. CASE ~ Stops(p, "refused")
  <2> DEFINE f == [pc |-> "planned", bundles |-> bundles, artifacts |-> artifacts]
  <2>1. /\ Reads /\ Goes(p, f)
        /\ LimitAccepted(request.mode, request.max)
        /\ request.profile \in DOMAIN Profiles \cup {None}
    BY <1>3 DEF Plan
  <2>2. BudgetOf(request) \in Nat
    BY <1>1, <2>1, BudgetFacts
  <2>3. WithinBudget(bundles, BudgetOf(request))
    BY <1>1, <2>2, RecordsFacts, BundlesAreWithin
  <2>4. Len(artifacts) + 1 <= request.max
    <3>1. request.mode = "task-context" => request.task \in Name
      BY <1>1 DEF RequestOK
    <3>2. request.max \in Int
      BY <1>1 DEF PackRequestOK
    <3> HIDE DEF bundles
    <3> QED
      BY <1>1, <2>1, <3>1, <3>2, ArtifactsFit
  <2> HIDE DEF artifacts, bundles
  <2>5. /\ DOMAIN f = {"pc", "bundles", "artifacts"} /\ f.pc = "planned"
        /\ f.bundles = bundles /\ f.artifacts = artifacts
    OBVIOUS
  <2> HIDE DEF f
  <2>6. /\ Only(p)
        /\ \A x \in DOMAIN f : memory'[p][x] = f[x]
        /\ \A x \in DOMAIN request \ DOMAIN f : memory'[p][x] = request[x]
    BY <2>1, Moves
  <2>7. /\ memory'[p].pc = "planned" /\ memory'[p].bundles = bundles
        /\ memory'[p].artifacts = artifacts
    BY <2>5, <2>6
  <2>8. /\ memory'[p].max = request.max /\ memory'[p].budget = request.budget
        /\ memory'[p].profile = request.profile
    BY <1>1, <2>5, <2>6 DEF PackRequestOK
  <2> DEFINE m == memory'[p]
  <2>9. m.max = request.max /\ BudgetOf(m) = BudgetOf(request)
    BY <2>8 DEF BudgetOf, ProfileOf
  <2>10. m.bundles = bundles /\ m.artifacts = artifacts /\ m.pc = "planned"
    BY <2>7
  <2> HIDE DEF m
  <2>11. Fits(m) /\ Asked(m)
    <3> HIDE DEF request
    <3> QED
      BY <2>3, <2>4, <2>9, <2>10 DEF Fits, Asked
  <2> QED
    <3>1. project' = project
      BY <2>1 DEF Reads, settings
    <3> QED
      BY <2>6, <2>11, <3>1, PlansStep DEF m
<1> QED
  BY <1>2, <1>3

LEMMA GotoPlans ==
  ASSUME PackInv, PlansInv, NEW p \in Proc, NEW l, Goto(p, l), l \notin Planning,
         memory[p].pc \notin Planning, project' = project
  PROVE  PlansInv'
<1> DEFINE f == [pc |-> l]
<1>1. Goes(p, f) /\ f.pc = l
  BY DEF Goto
<1> HIDE DEF f
<1> QED
  BY <1>1, GoesPlans

LEMMA FieldPlans ==
  ASSUME PackInv, PlansInv, NEW p \in Proc, NEW x, Goes(p, [todo |-> x]),
         memory[p].pc \notin Planning, project' = project
  PROVE  PlansInv'
<1> DEFINE f == [todo |-> x]
<1>1. Goes(p, f) /\ "pc" \notin DOMAIN f
  OBVIOUS
<1> HIDE DEF f
<1> QED
  BY <1>1, GoesPlans

\* A command that replaces or unlinks a file.
LEMMA FilePlans ==
  ASSUME PackInv, PlansInv, NEW p \in Proc, memory[p].pc \notin Planning,
         project' = project, NEW d, NEW n, NEW rest,
         "pc" \in DOMAIN rest => rest["pc"] \notin Planning,
         Passes(p, d, n) \/ Continues(p, rest) \/ Ends(p)
  PROVE  PlansInv'
<1>1. CASE Passes(p, d, n)
  <2> DEFINE f == [compared |-> n]
  <2>1. Goes(p, f) /\ "pc" \notin DOMAIN f
    BY <1>1 DEF Passes
  <2> HIDE DEF f
  <2> QED
    BY <2>1, GoesPlans
<1>2. CASE Continues(p, rest)
  <2> DEFINE f == Updated(rest, [compared |-> None])
  <2>1. Goes(p, f)
    BY <1>2 DEF Continues
  <2>2. "pc" \in DOMAIN f => f["pc"] \notin Planning
    BY DEF Updated
  <2> HIDE DEF f
  <2> QED
    BY <2>1, <2>2, GoesPlans
<1>3. CASE Ends(p)
  BY <1>3, EndsPlans
<1> QED
  BY <1>1, <1>2, <1>3

LEMMA RemoveFilePlans ==
  ASSUME PackInv, PlansInv, NEW p \in Proc, memory[p].pc \notin Planning,
         NEW d, NEW n, NEW rest, RemoveFile(p, d, n, rest),
         "pc" \in DOMAIN rest => rest["pc"] \notin Planning
  PROVE  PlansInv'
<1>1. /\ project' = project
      /\ Passes(p, d, n) \/ Continues(p, rest) \/ Ends(p)
  BY RemoveFileCases DEF Passes, Stops, Put, settings
<1> QED
  BY <1>1, FilePlans

LEMMA RoundPlans ==
  ASSUME PackInv, PlansInv, NEW p \in Proc,
         ListRounds(p) \/ CaptureRound(p) \/ RemoveRound(p),
         \A message : ~ Stops(p, message)
  PROVE  PlansInv'
<1>1. project' = project /\ memory[p].pc \notin Planning
  BY DEF ListRounds, CaptureRound, RemoveRound, Reads, settings, At, Planning
<1>2. CASE \E x : Goes(p, [todo |-> x])
  BY <1>1, <1>2, FieldPlans
<1>3. CASE \E x : Goes(p, [pc |-> "round", todo |-> x])
  <2>1. PICK x : Goes(p, [pc |-> "round", todo |-> x])
    BY <1>3
  <2> DEFINE f == [pc |-> "round", todo |-> x]
  <2>2. Goes(p, f) /\ f.pc \notin Planning
    BY <2>1 DEF Planning
  <2> HIDE DEF f
  <2> QED
    BY <1>1, <2>2, GoesPlans
<1>4. CASE \E r, x, y : Goes(p, [pc |-> "remove", round |-> r, obsolete |-> x, before |-> y,
                                  compared |-> None])
  <2>1. PICK r, x, y : Goes(p, [pc |-> "remove", round |-> r, obsolete |-> x, before |-> y,
                                  compared |-> None])
    BY <1>4
  <2> DEFINE f == [pc |-> "remove", round |-> r, obsolete |-> x, before |-> y,
                                  compared |-> None]
  <2>2. Goes(p, f) /\ f.pc \notin Planning
    BY <2>1 DEF Planning
  <2> HIDE DEF f
  <2> QED
    BY <1>1, <2>2, GoesPlans
<1>5. CASE ListRounds(p)
  BY <1>3, <1>5 DEF ListRounds
<1>6. CASE CaptureRound(p)
  BY <1>2, <1>4, <1>6 DEF CaptureRound
<1>7. CASE RemoveRound(p)
  BY <1>3, <1>7 DEF RemoveRound
<1> QED
  BY <1>5, <1>6, <1>7

LEMMA OthersPlan ==
  ASSUME PackInv, PlansInv, NEW p \in Proc,
         \/ Accept(p) \/ TakeLock(p) \/ LockHeld(p) \/ ReadOwned(p) \/ Capture(p)
         \/ WriteArtifact(p) \/ RemoveObsolete(p) \/ PackWritten(p) \/ ListRounds(p)
         \/ CaptureRound(p) \/ RemoveFromRound(p) \/ RemoveRoundManifest(p)
         \/ RemoveRound(p) \/ Pruned(p) \/ ReportRefused(p) \/ WriteReport(p) \/ Crash(p)
  PROVE  PlansInv'
<1>1. CASE \E message : Stops(p, message)
  BY <1>1, StopsPlans
<1> SUFFICES ASSUME \A message : ~ Stops(p, message) PROVE PlansInv'
  BY <1>1
<1>2. CASE Accept(p)
  <2> DEFINE next == [pc |-> "lock", artifacts |-> <<Manifest>> \o memory[p].artifacts,
                      keep |-> memory[p].keep]
  <2>1. memory' = [memory EXCEPT ![p] = next] /\ project' = project
    BY <1>2 DEF Accept, Reads, settings
  <2>2. next.pc \notin Planning
    BY DEF Planning
  <2> HIDE DEF next
  <2> QED
    BY <2>1, <2>2, BecomesPlans
<1>3. CASE TakeLock(p)
  <2>1. PICK l \in {"owned", "prune", "report"} : Goto(p, l) /\ project' = project
    BY <1>3 DEF TakeLock, settings
  <2>2. memory[p].pc \notin Planning
    BY <1>3 DEF TakeLock, Planning
  <2> QED
    BY <2>1, <2>2, GotoPlans DEF Planning
<1>4. CASE LockHeld(p)
  BY <1>4 DEF LockHeld
<1>5. CASE ReadOwned(p)
  <2> DEFINE f == [pc |-> "capture", previous |-> Owned(Latest)]
  <2>1. Goes(p, f) /\ project' = project /\ memory[p].pc \notin Planning
    BY <1>5 DEF ReadOwned, Reads, settings, At, Planning
  <2>2. f.pc \notin Planning
    BY DEF Planning
  <2> HIDE DEF f
  <2> QED
    BY <2>1, <2>2, GoesPlans
<1>6. CASE Capture(p)
  <2>1. PICK next :
          /\ memory' = [memory EXCEPT ![p] = next] /\ next.pc = "write"
          /\ project' = project
    BY <1>6, CaptureCases DEF settings
  <2> QED
    BY <2>1, BecomesPlans DEF Planning
<1>7. CASE WriteArtifact(p)
  <2> DEFINE n == Head(memory[p].todo)
             rest == [todo |-> Tail(memory[p].todo)]
  <2>1. /\ memory[p].pc \notin Planning /\ project' = project
        /\ Passes(p, Latest, n) \/ Ends(p) \/ Continues(p, rest)
    BY <1>7, WriteArtifactCases DEF Passes, Stops, Put, settings, Planning
  <2>2. "pc" \notin DOMAIN rest
    OBVIOUS
  <2> HIDE DEF n, rest
  <2> QED
    BY <2>1, <2>2, FilePlans
<1>10. CASE RemoveObsolete(p) \/ RemoveFromRound(p) \/ RemoveRoundManifest(p)
  <2>1. memory[p].pc \notin Planning
    BY <1>10 DEF RemoveObsolete, RemoveFromRound, RemoveRoundManifest, At, Planning
  <2>2. CASE \E d, n, x : RemoveFile(p, d, n, [obsolete |-> x])
    <3>1. PICK d, n, x : RemoveFile(p, d, n, [obsolete |-> x])
      BY <2>2
    <3> DEFINE rest == [obsolete |-> x]
    <3>2. RemoveFile(p, d, n, rest) /\ "pc" \notin DOMAIN rest
      BY <3>1
    <3> HIDE DEF rest
    <3> QED
      BY <2>1, <3>2, RemoveFilePlans
  <2>3. CASE \E d, n : RemoveFile(p, d, n, [pc |-> "rmdir"])
    <3>1. PICK d, n : RemoveFile(p, d, n, [pc |-> "rmdir"])
      BY <2>3
    <3> DEFINE rest == [pc |-> "rmdir"]
    <3>2. RemoveFile(p, d, n, rest) /\ rest["pc"] \notin Planning
      BY <3>1 DEF Planning
    <3> HIDE DEF rest
    <3> QED
      BY <2>1, <3>2, RemoveFilePlans
  <2> QED
    BY <1>10, <2>2, <2>3 DEF RemoveObsolete, RemoveFromRound, RemoveRoundManifest
<1>8. CASE PackWritten(p)
  <2> DEFINE next == [pc |-> "lock prune", keep |-> memory[p].keep]
  <2>1. memory' = [memory EXCEPT ![p] = next] /\ project' = project
    BY <1>8 DEF PackWritten, settings
  <2>2. next.pc \notin Planning
    BY DEF Planning
  <2> HIDE DEF next
  <2> QED
    BY <2>1, <2>2, BecomesPlans
<1>9. CASE ListRounds(p) \/ CaptureRound(p) \/ RemoveRound(p)
  BY <1>9, RoundPlans
<1>11. CASE Pruned(p) \/ ReportRefused(p)
  BY <1>11 DEF Pruned, ReportRefused
<1>12. CASE WriteReport(p) \/ Crash(p)
  <2>1. Ends(p) /\ project' = project
    BY <1>12 DEF WriteReport, Crash, settings
  <2> QED
    BY <2>1, EndsPlans
<1> QED
  BY <1>2, <1>3, <1>4, <1>5, <1>6, <1>7, <1>8, <1>9, <1>10, <1>11, <1>12

LEMMA PlansInductive ==
  ASSUME PackInv, PlansInv, [Next]_vars
  PROVE  PlansInv'
<1>1. CASE UNCHANGED vars
  BY <1>1 DEF PlansInv, vars, settings
<1>2. CASE SchemaChanges \/ Edit
  <2>1. memory' = memory /\ project' = project
    BY <1>2 DEF SchemaChanges, Edit, settings
  <2> QED
    BY <2>1 DEF PlansInv
<1>3. ASSUME NEW p \in Proc, Give(p) \/ Guard(p) \/ Plan(p) PROVE PlansInv'
  BY <1>3, GivePlans, GuardPlans, PlanPlans
<1>4. ASSUME NEW p \in Proc,
             \/ Accept(p) \/ TakeLock(p) \/ LockHeld(p) \/ ReadOwned(p) \/ Capture(p)
             \/ WriteArtifact(p) \/ RemoveObsolete(p) \/ PackWritten(p) \/ ListRounds(p)
             \/ CaptureRound(p) \/ RemoveFromRound(p) \/ RemoveRoundManifest(p)
             \/ RemoveRound(p) \/ Pruned(p) \/ ReportRefused(p) \/ WriteReport(p) \/ Crash(p)
      PROVE  PlansInv'
  BY <1>4, OthersPlan
<1> QED
  BY <1>1, <1>2, <1>3, <1>4 DEF Next

\* A limit that validateMaxPackFiles accepts is enough for every project, profile
\* and option; the bundles that assignBundles makes are within the budget, and a
\* file is left out for it only when neither bundle had room.
THEOREM PlansFit == Spec => []PlanFits
<1>1. Init => PlansInv
  BY DEF Init, PlansInv, Asked
<1>2. PlansInv => PlanFits
  <2> SUFFICES ASSUME PlansInv, NEW p \in Proc, memory[p].pc = "planned"
               PROVE  LET plan == memory[p]
                          budget == BudgetOf(plan)
                      IN  /\ Len(plan.artifacts) + 1 <= plan.max
                          /\ Characters(plan.bundles.first) <= budget
                          /\ Characters(plan.bundles.second) <= budget
                          /\ \A r \in plan.bundles.omitted, b \in {"first", "second"} :
                               Characters(plan.bundles[b]) + r.characters > budget
    BY DEF PlanFits, At
  <2>1. Fits(memory[p])
    BY DEF PlansInv
  <2> QED
    BY <2>1 DEF Fits, WithinBudget
<1>3. PackInv /\ PackInv' /\ PlansInv /\ [Next]_vars => PlansInv'
  BY PlansInductive
<1> QED
  BY <1>1, <1>2, <1>3, PackInvariant, PTL DEF Spec
===============================================================================
