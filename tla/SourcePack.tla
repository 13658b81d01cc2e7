------------------------------ MODULE SourcePack ------------------------------
(***************************************************************************)
(* `export-context`: Source Packs in tmp/ty-context/context-exports, in    *)
(* its directory `latest` and in the rounds that earlier versions left,    *)
(* and the reports of --full and --code, given at the same time, killed at *)
(* any point, with people who write, edit and delete files there.          *)
(*                                                                         *)
(* A pack is planned without the lock, written under it, and the earlier   *)
(* rounds are pruned under it again.  A file is compared with the one      *)
(* captured in one step, and replaced or unlinked in the next, which takes *)
(* what is there by then (MutationTransaction and Retirement have all the  *)
(* steps).                                                                 *)
(***************************************************************************)
EXTENDS SourcePackPlan

CONSTANTS
  Proc,
  Name,          \* names of files
  Round,         \* names of rounds, in the order of time
  Requests,      \* the packs and reports asked for
  Profiles,      \* the profiles in config.yaml, by their name
  Projects,      \* what the files of the project may be
  InitialRounds, \* what the rounds may be to begin with
  EditedNames,   \* the files that people write and delete
  MaxCommands,   \* bound on commands given
  MaxCrashes,    \* bound on commands killed
  MaxEdits,      \* bound on what people do
  None

ASSUME ProcAssumption == None \notin Proc
ASSUME RoundAssumption == Round \subseteq Nat \ {0}

VARIABLES
  project,    \* the files of the project
  supported,  \* what assertSupportedSchema answers
  disk,       \* disk[d][n]: the file n of directory d
  rounds,     \* the rounds whose directory exists
  lock,       \* who holds the maintenance lock, or None
  memory,     \* memory[p]: where command p stands and what it captured
  clock,      \* the last content made
  reports,    \* history: reports written to `latest`
  late,       \* history: people edited a file between its last compare and its
              \* replacement or removal
  commands, crashes, edits

settings == <<project, supported>>
files == <<disk, rounds, clock, reports, late>>
counters == <<commands, crashes, edits>>
vars == <<settings, files, lock, memory, counters>>

Manifest == "manifest"
Latest == 0
Dir == Round \cup {Latest}
Absent == [by |-> "nobody"]
Exists(file) == file # Absent

\* Every content is another one; a manifest lists the contents of its pack.
Text(by, at) == [by |-> by, at |-> at]
ManifestText(by, at, valid, lists) ==
  [by |-> by, at |-> at, valid |-> valid, lists |-> lists]
Nothing == [n \in {} |-> Absent]

\* The artifacts whose names are fixed; that of a task is another one.
PackNames == {Manifest, "full", "index", "core", "extended", "support"}
ASSUME NameAssumption == PackNames \subseteq Name /\ None \notin Name

ReportModes == {"full", "code"}
RequestOK(request) ==
  /\ {"mode", "check"} \subseteq DOMAIN request /\ request.mode \in Modes \cup ReportModes
  /\ request.mode = "task-context" =>
       "task" \in DOMAIN request /\ request.task \in Name \ PackNames
ASSUME RequestAssumption == \A request \in Requests : RequestOK(request)

\* The numbers among the options (parseInteger) and in a profile (readPositiveInteger).
PackRequestOK(request) ==
  /\ {"max", "budget", "keep", "profile", "strategy"} \subseteq DOMAIN request
  /\ request.max \in Int /\ request.keep \in Int /\ request.budget \in Int \cup {None}
ASSUME PackRequestAssumption ==
  \A request \in Requests : request.mode \in Modes => PackRequestOK(request)
ASSUME ProfilesAssumption ==
  \A id \in DOMAIN Profiles : Profiles[id].budget \in (Nat \ {0}) \cup {None}
ASSUME ProjectsAssumption == \A tree \in Projects : ProjectOK(tree)

\* A manifest lists what an export wrote.
ListsExports(file) ==
  Exists(file) => /\ "lists" \in DOMAIN file
                  /\ \A n \in DOMAIN file.lists : file.lists[n].by = "export"
ASSUME RoundsAssumption ==
  \A old \in InitialRounds, r \in Round :
    DOMAIN old[r] = Name /\ ListsExports(old[r][Manifest])

At(p, pc) == memory[p].pc = pc
\* The record m with the fields of f.
Updated(m, f) ==
  [x \in DOMAIN m \cup DOMAIN f |-> IF x \in DOMAIN f THEN f[x] ELSE m[x]]
Goes(p, f) == memory' = [memory EXCEPT ![p] = Updated(@, f)]
Goto(p, pc) == Goes(p, [pc |-> pc])
Ends(p) == memory' = [memory EXCEPT ![p] = [pc |-> "idle"]]

Reads == UNCHANGED <<settings, files, lock, counters>>
\* The command ends, with this message, and gives the lock back.
Stops(p, message) ==
  /\ lock' = IF lock = p THEN None ELSE lock
  /\ Ends(p)
  /\ UNCHANGED <<settings, files, counters>>
-----------------------------------------------------------------------------
Init ==
  /\ project \in Projects
  /\ supported = TRUE
  /\ \E old \in InitialRounds :
       disk = [d \in Dir |-> IF d \in Round THEN old[d] ELSE [n \in Name |-> Absent]]
  /\ rounds = {r \in Round : \E n \in Name : Exists(disk[r][n])}
  /\ lock = None
  /\ memory = [p \in Proc |-> [pc |-> "idle"]]
  /\ clock = 0 /\ reports = 0 /\ late = FALSE
  /\ commands = 0 /\ crashes = 0 /\ edits = 0

IsReport(request) == request.mode \in ReportModes

\* parseArgs, of the options of a pack.
ArgumentsParsed(request) ==
  request.mode \in Modes =>
    /\ request.max > 0 /\ request.keep >= 0
    /\ request.budget = None \/ request.budget > 0
    /\ request.strategy \in {"auto", "area", "topdir", "config"}

\* validateParsedArgs: --output is for a report, the other options are for a pack.
OptionsFitMode(request) ==
  IF IsReport(request) THEN DOMAIN request \subseteq {"mode", "output", "check"}
  ELSE "output" \notin DOMAIN request

\* A pack, or a report with --output; --check plans and writes nothing.
Give(p) ==
  /\ At(p, "idle") /\ commands < MaxCommands
  /\ commands' = commands + 1
  /\ \E request \in Requests :
       memory' = IF ArgumentsParsed(request) /\ OptionsFitMode(request)
                 THEN [memory EXCEPT ![p] = Updated(request, [pc |-> "guard"])]
                 ELSE memory
  /\ UNCHANGED <<settings, files, lock, crashes, edits>>

Guard(p) ==
  /\ At(p, "guard")
  /\ IF supported \/ memory[p].check
     THEN Reads /\ Goto(p, IF ~IsReport(memory[p]) THEN "plan"
                          ELSE IF memory[p].check THEN "report" ELSE "lock report")
     ELSE Stops(p, "refused")
-----------------------------------------------------------------------------
(***************************************************************************)
(* The plan of a pack.                                                     *)
(***************************************************************************)
DefaultBundleCharacters == 800000
NoProfile == [code |-> {}, context |-> {}, exclude |-> {}, budget |-> None]

ProfileOf(request) ==
  IF request.profile = None THEN NoProfile ELSE Profiles[request.profile]

RecordsOf(request) ==
  CodeRecords(project, ProfileOf(request).code \cup request.include,
              ProfileOf(request).exclude)

ContextsOf(request) ==
  ContextSources(project, request.mode,
                 ProfileOf(request).context \cup request.includeContext)

\* --max-bundle-characters before the profile's.
BudgetOf(request) ==
  CASE request.budget # None -> request.budget
    [] request.budget = None /\ ProfileOf(request).budget # None -> ProfileOf(request).budget
    [] OTHER -> DefaultBundleCharacters

Plan(p) ==
  LET request == memory[p]
      bundles == Bundles(RecordsOf(request), request.strategy, BudgetOf(request))
  IN  /\ At(p, "plan")
      /\ IF \/ ~LimitAccepted(request.mode, request.max)
            \/ request.profile \notin DOMAIN Profiles \cup {None}
         THEN Stops(p, "refused")
         ELSE /\ Reads
              /\ Goes(p, [pc |-> "planned", bundles |-> bundles,
                          artifacts |-> Artifacts(request.mode, request.max, bundles,
                                                  request.task)])

\* The manifest is put before the artifacts; the limit; --redaction-strict.
Accept(p) ==
  LET request == memory[p]
      all == <<Manifest>> \o request.artifacts
      redacted == \E source \in RecordsOf(request) \cup ContextsOf(request) :
                    source.sensitive
  IN  /\ At(p, "planned")
      /\ CASE Len(all) > request.max \/ (request.strict /\ redacted) ->
                Stops(p, "refused")
           [] OTHER ->
                IF request.check THEN Stops(p, "checked")
                ELSE /\ memory' = [memory EXCEPT ![p] =
                          [pc |-> "lock", artifacts |-> all, keep |-> request.keep]]
                     /\ Reads

\* withMaintenanceLock, for the pack, for the pruning and for a report; the
\* guard is repeated.
TakeLock(p) ==
  /\ memory[p].pc \in {"lock", "lock prune", "lock report"} /\ lock = None
  /\ IF supported
     THEN /\ lock' = p
          /\ Goto(p, CASE At(p, "lock") -> "owned" [] At(p, "lock prune") -> "prune"
                       [] OTHER -> "report")
          /\ UNCHANGED <<settings, files, counters>>
     ELSE Stops(p, "refused")

LockHeld(p) ==
  /\ memory[p].pc \in {"lock", "lock prune", "lock report"} /\ lock # None
  /\ Stops(p, "maintenance_in_progress")
-----------------------------------------------------------------------------
(***************************************************************************)
(* writeArtifactSet.                                                       *)
(***************************************************************************)
Recognised(manifest) == Exists(manifest) => manifest.valid
\* ownedArtifacts.
Owned(d) == IF Exists(disk[d][Manifest]) THEN disk[d][Manifest].lists ELSE Nothing

ReadOwned(p) ==
  /\ At(p, "owned")
  /\ IF Recognised(disk[Latest][Manifest])
     THEN Reads /\ Goes(p, [pc |-> "capture", previous |-> Owned(Latest)])
     ELSE Stops(p, "unrecognized export manifest")

\* mutant: a file that no manifest lists is taken for one of the pack.
ListedFilesOnly(previous, n, file) ==
  Exists(file) /\ n \in DOMAIN previous => file = previous[n]
\* What is at the place of an artifact is what the last manifest says.
IsGenerated(previous, n, file) ==
  Exists(file) => n \in DOMAIN previous /\ file = previous[n]

\* mutant: what the last pack had and this one has not is left there.
NothingObsolete(previous, artifacts) == {}
Obsolete(previous, artifacts) == DOMAIN previous \ artifacts

\* The contents of this pack; the manifest lists the others.
NewPack(artifacts, at) ==
  LET texts == [n \in artifacts \ {Manifest} |-> Text("export", at)]
  IN  [n \in artifacts |-> IF n = Manifest THEN ManifestText("export", at, TRUE, texts)
                           ELSE texts[n]]

Capture(p) ==
  LET previous == memory[p].previous
      artifacts == ToSet(memory[p].artifacts)
      found == disk[Latest]
  IN  /\ At(p, "capture")
      /\ IF \/ \E n \in artifacts \ {Manifest} : ~IsGenerated(previous, n, found[n])
            \/ \E n \in DOMAIN previous : ~IsGenerated(previous, n, found[n])
         THEN Stops(p, "export_conflict")
         ELSE /\ memory' = [memory EXCEPT ![p] =
                   [pc |-> "write", keep |-> @.keep, todo |-> @.artifacts,
                    obsolete |-> Obsolete(previous, artifacts), compared |-> None,
                    before |-> [n \in artifacts \cup DOMAIN previous |-> found[n]],
                    pack |-> NewPack(artifacts, clock + 1)]]
              /\ clock' = clock + 1
              /\ UNCHANGED <<settings, disk, rounds, reports, late, lock, counters>>

\* mutant: a file is replaced and removed whatever has become of it.
AnyFile(d, n, before) == TRUE
AsCaptured(d, n, before) == disk[d][n] = before

Put(d, n, content) ==
  /\ disk' = [disk EXCEPT ![d][n] = content]
  /\ UNCHANGED <<settings, rounds, clock, reports, late, counters>>

\* The last compare before a file is replaced or unlinked.
Compare(p, d, n) ==
  /\ memory[p].compared = None
  /\ IF AsCaptured(d, n, memory[p].before[n])
     THEN /\ Goes(p, [compared |-> n])
          /\ late' = FALSE
          /\ UNCHANGED <<settings, disk, rounds, clock, reports, lock, counters>>
     ELSE Stops(p, "conflict")

Continues(p, rest) == Goes(p, Updated(rest, [compared |-> None])) /\ UNCHANGED lock

\* writeMaintenanceText: the rename over what was there; a file that was not is linked.
ReplaceFile(p, d, n, content, rest) ==
  \/ Compare(p, d, n)
  \/ /\ memory[p].compared = n
     /\ IF Exists(disk[d][n]) /\ ~Exists(memory[p].before[n])
        THEN Stops(p, "conflict")
        ELSE Put(d, n, content) /\ Continues(p, rest)

\* removeMaintenanceFile.  A file that goes once its tombstone is there counts as
\* removed.  One that is replaced after the last compare goes with it; one that is
\* written into is still at the tombstone, which does not pass the readback.
RemoveFile(p, d, n, rest) ==
  \/ /\ memory[p].compared = None
     /\ ~Exists(memory[p].before[n]) \/ ~Exists(disk[d][n])
     /\ Continues(p, rest) /\ UNCHANGED <<settings, files, counters>>
  \/ Exists(memory[p].before[n]) /\ Compare(p, d, n)
  \/ /\ memory[p].compared = n
     /\ IF ~Exists(disk[d][n]) THEN Stops(p, "conflict")
        ELSE /\ Put(d, n, Absent)
             /\ \/ Continues(p, rest)
                \/ ~AsCaptured(d, n, memory[p].before[n]) /\ Ends(p) /\ lock' = None

WriteArtifact(p) ==
  LET n == Head(memory[p].todo) IN
  /\ At(p, "write") /\ memory[p].todo # <<>>
  /\ ReplaceFile(p, Latest, n, memory[p].pack[n], [todo |-> Tail(memory[p].todo)])

\* In the order of the manifest; in any order here.
RemoveObsolete(p) ==
  /\ At(p, "write") /\ memory[p].todo = <<>>
  /\ \E n \in memory[p].obsolete :
       RemoveFile(p, Latest, n, [obsolete |-> memory[p].obsolete \ {n}])

PackWritten(p) ==
  /\ At(p, "write") /\ memory[p].todo = <<>> /\ memory[p].obsolete = {}
  /\ lock' = None
  /\ memory' = [memory EXCEPT ![p] = [pc |-> "lock prune", keep |-> @.keep]]
  /\ UNCHANGED <<settings, files, counters>>
-----------------------------------------------------------------------------
(***************************************************************************)
(* pruneTimestampedExports.                                                *)
(***************************************************************************)
\* readdir: the rounds but the newest ones.
ListRounds(p) ==
  /\ At(p, "prune")
  /\ Reads
  /\ Goes(p, [pc |-> "round",
              todo |-> {r \in rounds :
                          Cardinality({x \in rounds : x > r}) >= memory[p].keep}])

\* The newest first.  A round without a manifest stays.
CaptureRound(p) ==
  /\ At(p, "round")
  /\ \E r \in memory[p].todo :
       /\ \A x \in memory[p].todo : x <= r
       /\ IF ~Exists(disk[r][Manifest])
          THEN Reads /\ Goes(p, [todo |-> memory[p].todo \ {r}])
          ELSE IF ~Recognised(disk[r][Manifest])
          THEN Stops(p, "unrecognized export manifest")
          ELSE IF \E n \in DOMAIN Owned(r) : ~IsGenerated(Owned(r), n, disk[r][n])
          THEN Stops(p, "export_cleanup_conflict")
          ELSE Reads /\ Goes(p, [pc |-> "remove", round |-> r,
                                 obsolete |-> {n \in DOMAIN Owned(r) : Exists(disk[r][n])},
                                 before |-> disk[r], compared |-> None])

\* The files of the round, its manifest after them.
RemoveFromRound(p) ==
  /\ At(p, "remove")
  /\ \E n \in memory[p].obsolete :
       RemoveFile(p, memory[p].round, n, [obsolete |-> memory[p].obsolete \ {n}])

RemoveRoundManifest(p) ==
  /\ At(p, "remove") /\ memory[p].obsolete = {}
  /\ RemoveFile(p, memory[p].round, Manifest, [pc |-> "rmdir"])

\* A directory with files of others stays.
RemoveRound(p) ==
  LET r == memory[p].round IN
  /\ At(p, "rmdir")
  /\ rounds' = IF \E n \in Name : Exists(disk[r][n]) THEN rounds ELSE rounds \ {r}
  /\ Goes(p, [pc |-> "round", todo |-> memory[p].todo \ {r}])
  /\ UNCHANGED <<settings, disk, clock, reports, late, lock, counters>>

Pruned(p) ==
  /\ At(p, "round") /\ memory[p].todo = {}
  /\ Stops(p, "ok")
-----------------------------------------------------------------------------
\* resolveOutputPath: a report is a Markdown file.
OutputAccepted(output) == output # Manifest

ReportRefused(p) ==
  /\ At(p, "report") /\ (~OutputAccepted(memory[p].output) \/ memory[p].check)
  /\ Stops(p, IF OutputAccepted(memory[p].output) THEN "checked" ELSE "refused")

\* --full and --code: the file is captured when it is written, whatever it is.
WriteReport(p) ==
  /\ At(p, "report") /\ OutputAccepted(memory[p].output) /\ ~memory[p].check
  /\ disk' = [disk EXCEPT ![Latest][memory[p].output] = Text("report", clock + 1)]
  /\ clock' = clock + 1 /\ reports' = reports + 1
  /\ lock' = None
  /\ Ends(p)
  /\ UNCHANGED <<settings, rounds, late, counters>>

Crash(p) ==
  /\ ~At(p, "idle") /\ crashes < MaxCrashes
  /\ crashes' = crashes + 1
  /\ lock' = IF lock = p THEN None ELSE lock
  /\ Ends(p)
  /\ UNCHANGED <<settings, files, commands, edits>>

\* An upgrade is begun, or ended, by another command.
SchemaChanges ==
  /\ lock = None /\ commands < MaxCommands
  /\ commands' = commands + 1
  /\ supported' = ~supported
  /\ UNCHANGED <<project, files, lock, memory, crashes, edits>>

\* What people make of a file; a manifest may stay readable.
Edited(n, file) ==
  {Absent} \cup
    IF n # Manifest THEN {Text("people", clock + 1)}
    ELSE {ManifestText("people", clock + 1, FALSE, Nothing)} \cup
           IF Exists(file) THEN {[file EXCEPT !.by = "people", !.at = clock + 1]} ELSE {}

\* The file has passed its last compare and is about to be replaced or unlinked.
AboutToPublish(p, d, n) ==
  \/ At(p, "write") /\ memory[p].compared = n /\ d = Latest
  \/ At(p, "remove") /\ memory[p].compared = n /\ d = memory[p].round

\* People write, edit and delete files.
Edit ==
  /\ edits < MaxEdits
  /\ edits' = edits + 1
  /\ clock' = clock + 1
  /\ \E d \in rounds \cup {Latest}, n \in EditedNames :
       \E content \in Edited(n, disk[d][n]) :
         /\ disk' = [disk EXCEPT ![d][n] = content] /\ disk' # disk
         /\ late' = (late \/ \E p \in Proc : AboutToPublish(p, d, n))
  /\ UNCHANGED <<settings, rounds, reports, lock, memory, commands, crashes>>

Next ==
  \/ \E p \in Proc :
       \/ Give(p) \/ Guard(p) \/ Plan(p) \/ Accept(p) \/ TakeLock(p) \/ LockHeld(p)
       \/ ReadOwned(p) \/ Capture(p) \/ WriteArtifact(p) \/ RemoveObsolete(p)
       \/ PackWritten(p)
       \/ ListRounds(p) \/ CaptureRound(p) \/ RemoveFromRound(p)
       \/ RemoveRoundManifest(p) \/ RemoveRound(p) \/ Pruned(p)
       \/ ReportRefused(p) \/ WriteReport(p) \/ Crash(p)
  \/ SchemaChanges \/ Edit

Spec == Init /\ [][Next]_vars
-----------------------------------------------------------------------------
(***************************************************************************)
(* Properties.                                                             *)
(***************************************************************************)
\* Whatever people and other commands do up to the last compare of a file, a pack
\* replaces and removes only what an export wrote: a note in `latest` or in an
\* earlier round, a report, an artifact that was edited stay as they are.  The
\* exceptions are a manifest, which is the command's own (writeArtifactSet,
\* source-pack-manifest.ts:99), and an edit of the very file between its last
\* compare and its rename or unlink (mutation-cas.ts:229-248).
TheirExportsSurvive ==
  [][edits' = edits /\ reports' = reports /\ ~late =>
       \A d \in Dir, n \in Name \ {Manifest} :
         disk'[d][n] # disk[d][n] => disk[d][n].by \in {"nobody", "export"}]_vars

\* Packs of several modes and tasks after one another, some of them refused, leave
\* one pack in `latest`: the files that its manifest lists, and no other.
LatestIsOnePack ==
  edits = 0 /\ crashes = 0 /\ reports = 0 /\ lock = None =>
    LET latest == disk[Latest]
        there == {n \in Name : Exists(latest[n])}
    IN  /\ there # {} => there = {Manifest} \cup DOMAIN Owned(Latest)
        /\ \A n \in there \ {Manifest} : latest[n] = Owned(Latest)[n]

\* A limit that is accepted is enough for every project and every option: no
\* command fails for it.  The bundles stay within the budget, and a file is
\* reported as left out for the budget only when neither bundle had room for it.
PlanFits ==
  \A p \in Proc : At(p, "planned") =>
    LET plan == memory[p]
        budget == BudgetOf(plan)
    IN  /\ Len(plan.artifacts) + 1 <= plan.max
        /\ Characters(plan.bundles.first) <= budget
        /\ Characters(plan.bundles.second) <= budget
        /\ \A r \in plan.bundles.omitted, b \in {"first", "second"} :
             Characters(plan.bundles[b]) + r.characters > budget
===============================================================================
