----------------------------- MODULE Installation -----------------------------
(***************************************************************************)
(* `init` and `sync`: where the installation is, what it is configured to, *)
(* and the startup instructions in AGENTS.md, with several commands given  *)
(* at the same time, commands killed at any point, an upgrade or a Context *)
(* transaction that is left unfinished, and people who edit the files.     *)
(*                                                                         *)
(* writeMaintenanceText is two steps where it replaces a file that is      *)
(* there: the last compare with the file captured, and the rename, which   *)
(* replaces what is there by then.  A file that is not there it links,     *)
(* which refuses one that has come meanwhile; that is one step.            *)
(***************************************************************************)
EXTENDS ManagedBlock

CONSTANTS
  Proc,
  Root,           \* names of the harness folder
  DefaultRoot,    \* .agent
  InitialConfigs, \* the config.yaml that may be there to begin with
  InitialTexts,   \* what AGENTS.md may say to begin with; <<>>: it is not there
  EditedTexts,    \* what people make of it
  MaxCommands,    \* bound on commands given
  MaxCrashes,     \* bound on commands killed
  MaxEdits,       \* bound on edits by people
  None

ASSUME RootAssumption == DefaultRoot \in Root
ASSUME ProcAssumption == None \notin Proc
ASSUME TextsAssumption == InitialTexts \cup EditedTexts \subseteq Seq(Token)

VARIABLES
  sources,     \* the folder named by package.json, by ty-context.config.json,
               \* and by their legacy keys, in the order of their precedence
  package,     \* the identity of package.json
  config,      \* config[r]: the config.yaml of folder r
  context,     \* project_context/context.toml and project_context/global.md
  agents,      \* AGENTS.md
  late,        \* history: people edited it between a last compare and the rename
  unfinished,  \* what an interrupted command left: "upgrade", "mutation", "no"
  lock,        \* who holds the maintenance lock, or None
  memory,      \* memory[p]: where command p stands and what it captured
  last,        \* last[p]: history: how the last command of p ended
  clock,       \* the last identity given to a file
  commands, crashes, edits

files == <<sources, package, config, context, agents, late, clock>>
counters == <<commands, crashes, edits>>
vars == <<files, unfinished, lock, memory, last, counters>>

ContextFile == {"manifest", "global"}
NoConfig == [schema |-> "absent", startup |-> "managed"]
Config == [schema : {"absent", "old", "current", "newer", "unreadable"},
           startup : {"managed", "not managed", "unsupported"}]

\* readHarnessRootConfig: the first source that names a folder.
HarnessRoot ==
  LET named == {i \in DOMAIN sources : sources[i] # None}
  IN  IF named = {} THEN DefaultRoot
      ELSE sources[CHOOSE i \in named : \A j \in named : i <= j]

Schema == config[HarnessRoot].schema

\* assertSupportedSchema.
GuardPasses == unfinished # "upgrade" /\ Schema \in {"absent", "current"}

At(p, pc) == memory[p].pc = pc
\* The record m with the fields of f.
Updated(m, f) ==
  [x \in DOMAIN m \cup DOMAIN f |-> IF x \in DOMAIN f THEN f[x] ELSE m[x]]
Goes(p, f) == memory' = [memory EXCEPT ![p] = Updated(@, f)] /\ UNCHANGED last
Goto(p, pc) == Goes(p, [pc |-> pc])
Ends(p, result) ==
  /\ memory' = [memory EXCEPT ![p] = [pc |-> "idle"]]
  /\ last' = [last EXCEPT ![p] = result]

Reads == UNCHANGED <<files, unfinished, lock, counters>>
\* The command stops and gives the lock back.
Stops(p, result) ==
  /\ lock' = IF lock = p THEN None ELSE lock
  /\ Ends(p, result)
  /\ UNCHANGED <<files, unfinished, counters>>
-----------------------------------------------------------------------------
Init ==
  /\ sources \in {<<None, explicit, None, None>> : explicit \in Root \cup {None}}
  /\ package = 0
  /\ \/ config = [r \in Root |-> NoConfig]
     \/ \E c \in InitialConfigs :
          config = [r \in Root |-> IF r = HarnessRoot THEN c ELSE NoConfig]
  /\ context \in {[f \in ContextFile |-> kind] : kind \in {"absent", "theirs"}}
  /\ \E t \in InitialTexts : agents = [text |-> t, stamp |-> 0]
  /\ late = FALSE
  /\ unfinished = "no" /\ lock = None
  /\ memory = [p \in Proc |-> [pc |-> "idle"]]
  /\ last = [p \in Proc |-> "none"]
  /\ clock = 0
  /\ commands = 0 /\ crashes = 0 /\ edits = 0

\* `init`, `init --harness-folder r`, `sync`.
Give(p) ==
  /\ At(p, "idle") /\ commands < MaxCommands
  /\ commands' = commands + 1
  /\ \E command \in {"init", "sync"}, folder \in Root \cup {None} :
       /\ command = "sync" => folder = None
       /\ memory' = [memory EXCEPT ![p] =
            [pc |-> "guard", command |-> command, folder |-> folder]]
  /\ UNCHANGED <<files, unfinished, lock, last, crashes, edits>>

\* Each guard before the lock.
Guard(p) ==
  /\ At(p, "guard")
  /\ IF GuardPasses
     THEN /\ Reads
          /\ Goto(p, IF memory[p].folder # None THEN "lock package" ELSE "lock")
     ELSE Stops(p, "refused")

\* mutant: the guard is not repeated under the lock.
GuardedBefore(p) == TRUE
GuardedAgain(p) == GuardPasses

\* withMaintenanceLock; the guard is repeated.  A transaction left unfinished
\* stops everything but the record of the folder.
TakeLock(p) ==
  /\ memory[p].pc \in {"lock package", "lock"} /\ lock = None
  /\ LET goes == CASE At(p, "lock package") -> "root"
                   [] memory[p].command = "init" -> "config"
                   [] OTHER -> "startup"
     IN  IF GuardedAgain(p) /\ (goes = "root" \/ unfinished # "mutation")
         THEN /\ lock' = p /\ Goto(p, goes)
              /\ UNCHANGED <<files, unfinished, counters>>
         ELSE Stops(p, "refused")

\* The command finds another one at work.
LockHeld(p) ==
  /\ memory[p].pc \in {"lock package", "lock"} /\ lock # None
  /\ Stops(p, "maintenance_in_progress")
-----------------------------------------------------------------------------
(***************************************************************************)
(* writePackageHarnessRoot.                                                *)
(***************************************************************************)
\* mutant: another folder may be named at any time.
NeverAnInstallation(folder) == FALSE
\* An installation is not relocated, nor switched to another one.
RelocatesInstallation(folder) ==
  /\ HarnessRoot # folder
  /\ Schema # "absent" \/ config[folder].schema # "absent"

\* The folder is on record: the lock is free, and the command begins as one
\* without a folder.
FolderRecorded(p) ==
  /\ lock' = None
  /\ Goes(p, [pc |-> "guard", folder |-> None])
  /\ UNCHANGED <<config, context, agents, late, unfinished, counters>>

CapturePackage(p) ==
  /\ At(p, "root")
  /\ CASE RelocatesInstallation(memory[p].folder) -> Stops(p, "refused")
       [] ~RelocatesInstallation(memory[p].folder) /\ sources[1] = memory[p].folder ->
            FolderRecorded(p) /\ UNCHANGED <<sources, package, clock>>
       [] OTHER -> Reads /\ Goes(p, [pc |-> "package", package |-> package])

ComparePackage(p) ==
  /\ At(p, "package")
  /\ IF package # memory[p].package THEN Stops(p, "conflict")
     ELSE Reads /\ Goto(p, "replace package")

ReplacePackage(p) ==
  /\ At(p, "replace package")
  /\ sources' = [sources EXCEPT ![1] = memory[p].folder]
  /\ package' = clock + 1 /\ clock' = clock + 1
  /\ FolderRecorded(p)
-----------------------------------------------------------------------------
(***************************************************************************)
(* runInit.                                                                *)
(***************************************************************************)
\* writeConfigIfMissing looks up the folder and captures its config.yaml.
CaptureConfig(p) ==
  /\ At(p, "config")
  /\ Reads
  /\ IF Schema # "absent" THEN Goto(p, "manifest")
     ELSE Goes(p, [pc |-> "write config", root |-> HarnessRoot])

WriteConfig(p) ==
  LET r == memory[p].root IN
  /\ At(p, "write config")
  /\ IF config[r].schema # "absent" THEN Stops(p, "conflict")
     ELSE /\ config' = [config EXCEPT ![r] =
               [schema |-> "current", startup |-> "managed"]]
          /\ Goto(p, "manifest")
          /\ UNCHANGED <<sources, package, context, agents, late, clock, unfinished,
                         lock, counters>>

\* createProjectContext: the manifest, then global.md; a file that exists is kept.
WriteContext(p) ==
  /\ memory[p].pc \in ContextFile
  /\ context' = [context EXCEPT ![memory[p].pc] =
                   IF @ = "absent" THEN "template" ELSE @]
  /\ Goto(p, IF At(p, "manifest") THEN "global" ELSE "startup")
  /\ UNCHANGED <<sources, package, config, agents, late, clock, unfinished, lock,
                 counters>>
-----------------------------------------------------------------------------
(***************************************************************************)
(* syncStartupInstructions.                                                *)
(***************************************************************************)
\* The guard once more, and the configuration.
ReadConfig(p) ==
  /\ At(p, "startup")
  /\ CASE ~GuardPasses \/ unfinished = "mutation" -> Stops(p, "refused")
       [] OTHER ->
            CASE config[HarnessRoot].startup = "unsupported" -> Stops(p, "blocked")
              [] config[HarnessRoot].startup = "not managed" -> Stops(p, "ok")
              [] OTHER -> Reads /\ Goto(p, "prepare")

\* prepareStartupInstructions captures AGENTS.md and merges the block into it.
Prepare(p) ==
  /\ At(p, "prepare")
  /\ IF Search(agents.text) = "invalid" THEN Stops(p, "blocked")
     ELSE Reads /\ Goes(p, [pc |-> "write", agents |-> agents,
                            next |-> Merge(agents.text)])

NotThere(file) == file.text = <<>>

AgentsAsCaptured(p) ==
  \/ agents = memory[p].agents
  \/ NotThere(agents) /\ NotThere(memory[p].agents)

\* mutant: AGENTS.md is replaced whatever has become of it.
AgentsNotCompared(p) ==
  At(p, "write") /\ Goto(p, "replace agents") /\ late' = FALSE
  /\ UNCHANGED <<sources, package, config, context, agents, clock, unfinished,
                 lock, counters>>

CompareAgents(p) ==
  /\ At(p, "write")
  /\ CASE memory[p].next = memory[p].agents.text -> Stops(p, "ok")
       [] memory[p].next # memory[p].agents.text /\ ~AgentsAsCaptured(p) ->
            Stops(p, "conflict")
       [] OTHER ->
            /\ late' = FALSE
            /\ Goto(p, "replace agents")
            /\ UNCHANGED <<sources, package, config, context, agents, clock,
                           unfinished, lock, counters>>

\* The rename, or the link if there was no file.
ReplaceAgents(p) ==
  /\ At(p, "replace agents")
  /\ IF NotThere(memory[p].agents) /\ ~NotThere(agents) THEN Stops(p, "conflict")
     ELSE /\ agents' = [text |-> memory[p].next, stamp |-> clock + 1]
          /\ clock' = clock + 1
          /\ lock' = None
          /\ Ends(p, "ok")
          /\ UNCHANGED <<sources, package, config, context, late, unfinished, counters>>
-----------------------------------------------------------------------------
Crash(p) ==
  /\ ~At(p, "idle") /\ crashes < MaxCrashes
  /\ crashes' = crashes + 1
  /\ lock' = IF lock = p THEN None ELSE lock
  /\ Ends(p, "crashed")
  /\ UNCHANGED <<files, unfinished, commands, edits>>

\* Another command, under the lock: an upgrade of an old schema, a transaction.
OtherBegins ==
  /\ lock = None /\ unfinished = "no" /\ commands < MaxCommands
  /\ unfinished' \in {"mutation"} \cup
       IF Schema \in {"old", "current"} THEN {"upgrade"} ELSE {}
  /\ commands' = commands + 1
  /\ UNCHANGED <<files, lock, memory, last, crashes, edits>>

OtherEnds ==
  /\ lock = None /\ unfinished # "no"
  /\ unfinished' = "no"
  /\ config' = IF unfinished = "upgrade"
               THEN [config EXCEPT ![HarnessRoot].schema = "current"] ELSE config
  /\ UNCHANGED <<sources, package, context, agents, late, clock, lock, memory,
                 last, counters>>

\* People edit AGENTS.md, name a folder, delete the configuration.
Edit ==
  /\ edits < MaxEdits
  /\ edits' = edits + 1
  /\ clock' = clock + 1
  /\ \/ /\ \E t \in EditedTexts : agents' = [text |-> t, stamp |-> clock + 1]
        /\ late' = \E p \in Proc : At(p, "replace agents")
        /\ UNCHANGED <<sources, package, config>>
     \/ /\ \E r \in Root \cup {None} : sources' = [sources EXCEPT ![1] = r]
        /\ package' = clock + 1
        /\ UNCHANGED <<agents, late, config>>
     \/ /\ config' = [config EXCEPT ![HarnessRoot] = NoConfig]
        /\ UNCHANGED <<agents, late, sources, package>>
  /\ UNCHANGED <<context, unfinished, lock, memory, last, commands, crashes>>

Next ==
  \/ \E p \in Proc :
       \/ Give(p) \/ Guard(p) \/ TakeLock(p) \/ LockHeld(p)
       \/ CapturePackage(p) \/ ComparePackage(p) \/ ReplacePackage(p)
       \/ CaptureConfig(p) \/ WriteConfig(p) \/ WriteContext(p)
       \/ ReadConfig(p) \/ Prepare(p) \/ CompareAgents(p) \/ ReplaceAgents(p)
       \/ Crash(p)
  \/ OtherBegins \/ OtherEnds
  \/ Edit

Spec == Init /\ [][Next]_vars
-----------------------------------------------------------------------------
(***************************************************************************)
(* Properties.                                                             *)
(***************************************************************************)
\* Whatever people do to AGENTS.md before the last compare, a command leaves
\* every line of theirs where it is, and leaves a text alone whose markers it does
\* not understand; an edit between that compare and the rename it may replace
\* (mutation-cas.ts:229-248).  What it writes it would not write again: one
\* block, with the instructions of this package (mergeManagedBlock,
\* sync-engine.ts:94).
TheirTextKept ==
  [][edits' = edits /\ agents' # agents =>
       /\ Search(agents'.text) = "found" /\ Merge(agents'.text) = agents'.text
       /\ ~late => /\ Search(agents.text) # "invalid"
                   /\ Theirs(agents'.text) = Theirs(agents.text)]_vars

\* However inits with and without a folder interleave, and where they die, there
\* is one installation and it is the one that commands find
\* (writePackageHarnessRoot, package-json-config.ts:41-54).
OneInstallation ==
  edits = 0 => \A r \in Root : config[r].schema # "absent" => r = HarnessRoot

\* No command writes while an upgrade is unfinished or the schema is not this
\* version's, and none but the record of the folder while a Context transaction
\* is (assertSupportedSchema under the lock, schema-guard.ts:8).
GuardedWrites ==
  [][edits' = edits /\ edits = 0 /\ unfinished' = unfinished
       /\ <<package, config, context, agents>>' # <<package, config, context, agents>> =>
       /\ GuardPasses
       /\ unfinished = "mutation" =>
            UNCHANGED <<config, context, agents>>]_vars
=============================================================================
