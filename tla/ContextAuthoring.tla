--------------------------- MODULE ContextAuthoring ---------------------------
(***************************************************************************)
(* `context create`, `context register --apply` and `context move --apply` *)
(* given at the same time, while people edit the documents.  A command     *)
(* plans without any lock: every file it reads may have changed when it    *)
(* reads the next one.  register and move then publish their plan under    *)
(* the maintenance lock; create links its scaffold without it.             *)
(*                                                                         *)
(* How a plan is published file by file, and recovered, is the subject of  *)
(* MutationTransaction.  Here a publication is one step together with the  *)
(* comparison before it, a recovery command is one step, and the journal   *)
(* is open in between.  What somebody writes between a file's last         *)
(* comparison and its rename (mutation-cas.ts:229-231) is lost in the      *)
(* code: MutationTransaction has that window, InWindow, and excepts it in  *)
(* TheirFilesSurvive; the properties here are about edits outside it.      *)
(***************************************************************************)
EXTENDS ContextCatalog

CONSTANTS
  Proc,              \* commands that may run at one time
  Requests,          \* what people ask for
  InitialManifests,  \* the manifests to begin with
  InitialDocs,       \* the documents to begin with
  InitialDirectories,
  EditedPaths,       \* the paths that people edit, name and declare
  HumanBodies,       \* the texts people write
  HumanLinks,        \* the links they put into a document
  MaxCommands,       \* bound on commands given
  MaxRecoveries,     \* bound on times the files are taken to the other side
  MaxCrashes,        \* bound on commands killed
  MaxEdits,          \* bound on edits by people
  None

\* What the commands make of their arguments before they look at anything
\* (normalizeContextRegisterInput; normalizeContextMoveInput refuses a move that
\* changes only the case).
ASSUME RequestsAssumption ==
  \A r \in Requests :
    \/ r \in [op : {"create"}, path : Path]
    \/ r \in [op : {"register"}, path : Path, role : Role,
              read_policy : {"default", "on-demand"},
              default_children : Seq(Path)]
    \/ r \in [op : {"move"}, path : Path, to : Path]
       /\ CaseKey[r.path] # CaseKey[r.to]

\* The Catalog to begin with is in order.
ASSUME InitialAssumption ==
  /\ InitialManifests \subseteq Manifest
  /\ \A d \in InitialDocs :
       /\ d \in [Path -> Doc]
       /\ \A f \in Path : IF Exists(d[f]) THEN d[f].stamp = 0 ELSE d[f] = Absent
       /\ \A m \in InitialManifests : CatalogErrors(m, ContextFiles(d), {}) = {}

ASSUME PeopleAssumption ==
  /\ HumanBodies \subseteq Body \ {"none"}
  /\ HumanLinks \subseteq Path /\ EditedPaths \subseteq Path

ASSUME NoneAssumption == None \notin Proc

VARIABLES
  docs,         \* docs[f]: the document at f, or Absent
  linked,       \* the documents whose file still has a temporary's link
  directories,  \* the directories that exist
  toml,         \* project_context/context.toml: what it says, and its identity
  mentions,     \* paths that some other text file of the repository names
  journal,      \* the unfinished transaction, or None
  lock,         \* the command that holds the maintenance lock, or None
  memory,       \* memory[p]: where command p stands and what it has read
  last,         \* last[p]: history: how the last command of p ended
  clock,        \* the last identity given to a file
  missed,       \* history: documents that changed after a move read them and
                \* before it captured them
  changed,      \* changed[p]: history: when something or somebody else last
                \* changed a file, as the plan of p goes: not, or before or after
                \* it was staged
  commands, recoveries, crashes, edits

files == <<docs, linked, directories, toml, mentions, clock>>
counters == <<commands, recoveries, crashes, edits>>
vars == <<files, journal, lock, memory, last, missed, changed, counters>>

Idle == [pc |-> "idle"]
At(p, pc) == memory[p].pc = pc
Request(p) == memory[p].request

\* The record or function m with the entries of f.
Updated(m, f) ==
  [x \in DOMAIN m \cup DOMAIN f |-> IF x \in DOMAIN f THEN f[x] ELSE m[x]]

\* p goes on to pc, keeping what it knows and adding `read` to it.
Goes(p, pc, read) ==
  /\ memory' = [memory EXCEPT ![p] = Updated(Updated(@, read), [pc |-> pc])]
  /\ UNCHANGED last

Ends(p, result) ==
  /\ memory' = [memory EXCEPT ![p] = Idle]
  /\ last' = [last EXCEPT ![p] = result]

\* A planning step reads; it changes no file.
Reads == UNCHANGED <<files, journal, lock, missed, changed, counters>>

\* The plan of p starts from what is there now.
StartsPlan(p) ==
  changed' = [changed EXCEPT ![p] = IF journal = None THEN "not" ELSE @]

Staged(p) == memory[p].pc \in {"capture referring", "execute", "validate"}

\* Files change under the plans of all commands but `by`.
Disturbs(by) ==
  changed' = [p \in Proc |->
                IF p = by THEN changed[p]
                ELSE IF Staged(p) \/ (journal # None /\ journal.by = p)
                THEN "after staging" ELSE "before staging"]
SomethingElseChanges == Disturbs(None)

\* Some move has read f and has not captured it.
BetweenReadAndCapture(f) ==
  \E p \in Proc :
    /\ memory[p].pc \in {"capture source", "capture manifest", "stage",
                         "capture referring"}
    /\ Request(p).op = "move"
    /\ f \in (DOMAIN memory[p].read) \ {Request(p).path}

Misses(changes) == missed' = missed \cup {f \in changes : BetweenReadAndCapture(f)}

\* What contextCatalogIdentity digests: the rest of it follows from these.
Identity(manifest, documents) ==
  [manifest |-> manifest,
   bytes    |-> [f \in ContextFiles(documents) |-> Bytes(documents[f])]]

Errors(manifest, documents) ==
  CatalogErrors(manifest, ContextFiles(documents), linked)

Registered(manifest, documents) ==
  RegisteredContexts(manifest, UsableFiles(ContextFiles(documents), linked))

SameKey(p, q) == CaseKey[p] = CaseKey[q]

\* resolveReference, of a link to a Context file: it is missing or valid.
Missing(documents, t) == ~Exists(documents[t])

\* Links to documents that are not there.
Issues(documents) ==
  {i \in ContextFiles(documents) \X Path :
     i[2] \in documents[i[1]].links /\ Missing(documents, i[2])}

\* scanStagedRepositoryForContextPath: no text of the repository names the path.
\* A scan that is not complete counts as one that has found it.
NowhereMentioned(path) == path \notin mentions

LinksTo(documents, p) ==
  {f \in ContextFiles(documents) : p \in documents[f].links}
-----------------------------------------------------------------------------
Init ==
  /\ docs \in InitialDocs
  /\ \E m \in InitialManifests : toml = [manifest |-> m, stamp |-> 0]
  /\ directories = InitialDirectories
  /\ linked = {} /\ mentions = {}
  /\ journal = None /\ lock = None
  /\ memory = [p \in Proc |-> Idle]
  /\ last = [p \in Proc |-> "ok"]
  /\ clock = 0
  /\ missed = {} /\ changed = [p \in Proc |-> "not"]
  /\ commands = 0 /\ recoveries = 0 /\ crashes = 0 /\ edits = 0

Give(p) ==
  /\ At(p, "idle") /\ commands < MaxCommands
  /\ commands' = commands + 1
  /\ \E r \in Requests :
       memory' = [memory EXCEPT ![p] = [pc |-> "load", request |-> r]]
  /\ UNCHANGED <<files, journal, lock, last, missed, changed, recoveries, crashes, edits>>

Catalog == [manifest |-> toml.manifest, files |-> ContextFiles(docs)]
LiveErrors == Errors(toml.manifest, docs)
-----------------------------------------------------------------------------
(***************************************************************************)
(* Planning `context register`.                                            *)
(***************************************************************************)
\* assertRegistrationTarget.
MayRegister(path) ==
  /\ ~\E c \in Registered(toml.manifest, docs) : SameKey(c.path, path)
  /\ path \in UnregisteredFiles(toml.manifest, ContextFiles(docs))

LoadForRegister(p) ==
  LET r == Request(p) IN
  /\ At(p, "load") /\ r.op = "register"
  /\ UNCHANGED <<files, journal, lock, missed, counters>>
  /\ StartsPlan(p)
  /\ IF journal = None /\ LiveErrors = {} /\ MayRegister(r.path)
     THEN Goes(p, "capture manifest",
               [catalog |-> Catalog, identity |-> Identity(toml.manifest, docs)])
     ELSE Ends(p, "refused")

\* "Context Catalog changed while planning".
ManifestAsLoaded(p) == toml.manifest = memory[p].catalog.manifest

CaptureManifest(p) ==
  /\ At(p, "capture manifest")
  /\ Reads
  /\ IF ManifestAsLoaded(p)
     THEN Goes(p, "stage", [toml |-> toml])
     ELSE Ends(p, "Context Catalog changed while planning")

\* appendContextManifestBlock.
AppendContext(manifest, r) ==
  [manifest EXCEPT !.contexts = Append(@,
     [path |-> r.path, role |-> r.role, read_policy |-> r.read_policy,
      default_children |-> r.default_children])]

\* readContextContent and validateContextRegistrationContent, of documents without
\* front matter: one that states another role or read_policy than the request is
\* refused too (validators.ts:110-143), and not modelled.
ContentAccepted(path) ==
  Exists(docs[path]) /\ path \notin linked /\ ContentValid(docs[path])

\* assertStagedRegistration.
StagedRegistration(after, r) ==
  LET matches == {c \in Registered(after, docs) :
                    c.source = "context" /\ c.path = r.path}
  IN  \E c \in matches : /\ matches = {c}
                         /\ c.role = r.role /\ c.read_policy = r.read_policy

\* The content is read, the block appended, the staged Catalog loaded.
StageRegister(p) ==
  LET r == Request(p)
      after == AppendContext(memory[p].toml.manifest, r)
  IN  /\ At(p, "stage") /\ r.op = "register"
      /\ Reads
      /\ IF /\ ContentAccepted(r.path)
            /\ Errors(after, docs) = {}
            /\ StagedRegistration(after, r)
         THEN Goes(p, "execute",
                [before |-> <<>>, after |-> <<>>, makes |-> {},
                 manifest_after |-> after, issues |-> {},
                 identity_after |-> Identity(after, docs)])
         ELSE Ends(p, "refused")
-----------------------------------------------------------------------------
(***************************************************************************)
(* Planning `context move`.                                                *)
(***************************************************************************)
\* assertContextMoveEndpoints.
MayMove(from, to) ==
  /\ \E c \in Registered(toml.manifest, docs) :
       /\ c.path = from
       /\ \A d \in Registered(toml.manifest, docs) : d.path = from => d = c
  /\ ~\E f \in ContextFiles(docs) : SameKey(f, to)
  /\ ~\E c \in Registered(toml.manifest, docs) : SameKey(c.path, to)

LoadForMove(p) ==
  LET r == Request(p) IN
  /\ At(p, "load") /\ r.op = "move"
  /\ UNCHANGED <<files, journal, lock, missed, counters>>
  /\ StartsPlan(p)
  /\ IF journal = None /\ LiveErrors = {} /\ MayMove(r.path, r.to)
     THEN Goes(p, "read",
               [catalog |-> Catalog, identity |-> Identity(toml.manifest, docs)])
     ELSE Ends(p, "refused")

\* missingContextMoveDirectories and readContextMoveMarkdown.
ReadMarkdown(p) ==
  LET known == memory[p].catalog.files IN
  /\ At(p, "read")
  /\ Reads
  /\ IF known \subseteq ContextFiles(docs) \ linked
     THEN Goes(p, "capture source",
               [read  |-> [f \in known |-> docs[f]],
                makes |-> {Parent[Request(p).to]} \ directories])
     ELSE Ends(p, "unable to read Context Markdown")

\* "Context source changed while planning move".
SourceAsRead(p) ==
  Content(docs[Request(p).path]) = Content(memory[p].read[Request(p).path])

CaptureSource(p) ==
  LET from == Request(p).path IN
  /\ At(p, "capture source")
  /\ Reads
  /\ IF Exists(docs[from]) /\ from \notin linked /\ SourceAsRead(p)
     THEN Goes(p, "capture manifest", [source |-> docs[from]])
     ELSE Ends(p, "Context source changed while planning move")

Redirect(p, from, to) == IF p = from THEN to ELSE p
\* mutant: a list entry that is moved is dropped.
DropMoved(s, from, to) == SelectSeq(s, LAMBDA f : f # from)
RedirectAll(s, from, to) == [i \in DOMAIN s |-> Redirect(s[i], from, to)]

RedirectAreas(areas, from, to) ==
  [i \in DOMAIN areas |-> [areas[i] EXCEPT !.context = Redirect(@, from, to)]]
RedirectEntry(e, from, to) ==
  [e EXCEPT !.path = Redirect(@, from, to),
            !.default_children = RedirectAll(@, from, to)]
RedirectEntries(contexts, from, to) ==
  [i \in DOMAIN contexts |-> RedirectEntry(contexts[i], from, to)]

\* mutant: default_files is not searched.
ReplaceOwnerAndChildren(manifest, from, to) ==
  [manifest EXCEPT !.areas = RedirectAreas(@, from, to),
                   !.contexts = RedirectEntries(@, from, to)]
\* replaceContextManifestPath: the owner and every mention of the path.
ReplacePath(manifest, from, to) ==
  [manifest EXCEPT !.areas = RedirectAreas(@, from, to),
                   !.contexts = RedirectEntries(@, from, to),
                   !.default_files = RedirectAll(@, from, to)]

\* patchMarkdownLinksForContextMove, up to the style of the links.
PatchLinks(doc, from, to) ==
  [body |-> doc.body, links |-> {Redirect(t, from, to) : t \in doc.links},
   stamp |-> 0]

\* The files that the plan gives other bytes: the target, the documents that
\* link to the source, the source.
PlannedAfter(p) ==
  LET r == Request(p)
      read == memory[p].read
      referring == {f \in DOMAIN read \ {r.path} : r.path \in read[f].links}
  IN  [f \in {r.path, r.to} \cup referring |->
         IF f = r.path THEN Absent
         ELSE PatchLinks(IF f = r.to THEN read[r.path] ELSE read[f],
                         r.path, r.to)]

\* The owner at the new path is the one that was at the old path.
SameOwner(manifest_before, manifest_after, documents, r) ==
  LET at(manifest, f) ==
        {[source |-> c.source, role |-> c.role, read_policy |-> c.read_policy] :
           c \in {k \in RegisteredContexts(manifest, Path) : k.path = f}}
      staged == {c \in Registered(manifest_after, documents) : c.path = r.to}
  IN  /\ at(manifest_after, r.to) = at(manifest_before, r.path)
      /\ \E c \in staged : staged = {c}
      /\ ~\E c \in Registered(manifest_after, documents) : c.path = r.path

\* mutant: the source stays in the staged Catalog.
OverlayWithSource(planned, documents) ==
  Updated(documents,
          [f \in {g \in DOMAIN planned : Exists(planned[g])} |-> planned[f]])
\* The overlay that the staged Catalog is loaded through.
Overlay(planned, documents) == Updated(documents, planned)

StagedMove(p) == Overlay(PlannedAfter(p), docs)
ManifestAfter(p) ==
  ReplacePath(memory[p].toml.manifest, Request(p).path, Request(p).to)

\* The staged Catalog is loaded, and compared with what was there.
StagedMoveAccepted(p) ==
  LET r == Request(p)
      staged == StagedMove(p)
      known == [f \in Path |-> IF f \in memory[p].catalog.files THEN docs[f]
                               ELSE Absent]
      previous == {<<Redirect(i[1], r.path, r.to), Redirect(i[2], r.path, r.to)>> :
                     i \in Issues(known)}
  IN  /\ memory[p].catalog.files \subseteq ContextFiles(docs)
      /\ Errors(ManifestAfter(p), staged) = {}
      /\ SameOwner(memory[p].toml.manifest, ManifestAfter(p), staged, r)
      /\ ContentValid(staged[r.to])
      /\ LinksTo(staged, r.path) = {}
      /\ Issues(staged) \subseteq previous

\* The plan, and the scan of the repository for the old path.
StageMove(p) ==
  /\ At(p, "stage") /\ Request(p).op = "move"
  /\ Reads
  /\ IF StagedMoveAccepted(p)
     THEN Goes(p, "capture referring",
            [after |-> PlannedAfter(p), manifest_after |-> ManifestAfter(p),
             issues |-> Issues(StagedMove(p)),
             can_apply |-> NowhereMentioned(Request(p).path),
             identity_after |-> Identity(ManifestAfter(p), StagedMove(p))])
     ELSE Ends(p, "refused")

\* buildContextMoveTransactionPlan captures the referring documents as they are
\* by now; a plan that cannot apply goes no further.
CaptureReferring(p) ==
  LET r == Request(p)
      referring == DOMAIN memory[p].after \ {r.path, r.to}
      before == [f \in DOMAIN memory[p].after |->
                   CASE f = r.to   -> Absent
                     [] f = r.path -> memory[p].source
                     [] OTHER      -> docs[f]]
  IN  /\ At(p, "capture referring")
      /\ Reads
      /\ IF memory[p].can_apply /\ referring \subseteq ContextFiles(docs) \ linked
         THEN Goes(p, "execute", [before |-> before])
         ELSE Ends(p, "refused")
-----------------------------------------------------------------------------
(***************************************************************************)
(* The publication of a plan, under the lock.                              *)
(***************************************************************************)
\* mutants: the manifest, or the files, are not compared.
ManifestNotCompared(p) ==
  \A f \in DOMAIN memory[p].before : docs[f] = memory[p].before[f]
FilesNotCompared(p) == toml = memory[p].toml
\* assertMutationChangesCurrent.
StillAsPlanned(p) ==
  /\ toml = memory[p].toml
  /\ \A f \in DOMAIN memory[p].before : docs[f] = memory[p].before[f]

\* mutant: a file that is absent is given an identity.
AlwaysStamped(doc) == [doc EXCEPT !.stamp = clock + 1]
Stamped(doc) == IF Exists(doc) THEN [doc EXCEPT !.stamp = clock + 1] ELSE Absent

\* The documents of `side` and its manifest are written.
Write(plan, side) ==
  /\ docs' = Updated(docs, [f \in DOMAIN plan[side] |-> Stamped(plan[side][f])])
  /\ toml' = [manifest |-> IF side = "after" THEN plan.manifest_after
                           ELSE plan.toml.manifest,
              stamp |-> clock + 1]
  /\ clock' = clock + 1

\* The last comparison and the publication of every file, one step: see the
\* header for the window this leaves out.
Execute(p) ==
  LET plan == memory[p] IN
  /\ At(p, "execute") /\ lock = None
  /\ UNCHANGED <<linked, mentions, counters>>
  /\ IF journal = None /\ plan.makes \cap directories = {} /\ StillAsPlanned(p)
     THEN /\ Write(plan, "after")
          /\ directories' = directories \cup plan.makes
          /\ journal' = [plan |-> plan, by |-> p, side |-> "after",
                         stamp |-> clock + 1]
          /\ lock' = p
          /\ Goes(p, "validate", <<>>)
          /\ Disturbs(p) /\ Misses(DOMAIN plan.after)
     ELSE /\ Ends(p, "cas_conflict")
          /\ UNCHANGED <<docs, toml, clock, directories, journal, lock, missed,
                         changed>>

\* Every file is the one that was written.
AsWritten ==
  /\ toml.stamp = journal.stamp
  /\ \A f \in DOMAIN journal.plan.after :
       docs[f] = IF Exists(journal.plan[journal.side][f])
                 THEN [journal.plan[journal.side][f] EXCEPT !.stamp = journal.stamp]
                 ELSE Absent

\* validateLiveContextMutation.
LiveAsPlanned(plan) ==
  LET r == plan.request IN
  /\ LiveErrors = {}
  /\ Identity(toml.manifest, docs) = plan.identity_after
  /\ CASE r.op = "register" ->
            ContentAccepted(r.path)
       [] r.op = "move" ->
            /\ ContentAccepted(r.to)
            /\ LinksTo(docs, r.path) = {}
            /\ Issues(docs) = plan.issues
            /\ NowhereMentioned(r.path)

Validate(p) ==
  /\ At(p, "validate")
  /\ lock' = None
  /\ IF AsWritten /\ LiveAsPlanned(journal.plan)
     THEN journal' = None /\ Ends(p, "ok")
     ELSE UNCHANGED journal /\ Ends(p, "stopped")
  /\ UNCHANGED <<files, missed, changed, counters>>

\* `context transaction complete` and `rollback`, each in one step: the files
\* are taken to the side that is asked for, then everything is validated.
Recover(side) ==
  LET plan == journal.plan IN
  /\ journal # None /\ lock = None
  /\ AsWritten /\ side # journal.side
  /\ recoveries < MaxRecoveries /\ recoveries' = recoveries + 1
  /\ Write(plan, side)
  /\ directories' = directories \cup plan.makes
  /\ journal' = [journal EXCEPT !.side = side, !.stamp = clock + 1]
  /\ Disturbs(journal.by) /\ Misses(DOMAIN plan.after)
  /\ UNCHANGED <<linked, mentions, lock, memory, last, commands, crashes, edits>>

DirectoriesEmpty(plan) ==
  \A d \in plan.makes : \A f \in ContextFiles(docs) : Parent[f] # d

Settle ==
  LET plan == journal.plan IN
  /\ journal # None /\ lock = None
  /\ AsWritten
  /\ \/ /\ journal.side = "after" /\ LiveAsPlanned(plan)
        /\ UNCHANGED directories
     \/ /\ journal.side = "before"
        /\ Identity(toml.manifest, docs) = plan.identity
        /\ DirectoriesEmpty(plan)
        /\ directories' = directories \ plan.makes
  /\ journal' = None
  /\ UNCHANGED <<docs, toml, clock, linked, mentions, lock, memory, last,
                 missed, changed, counters>>
-----------------------------------------------------------------------------
(***************************************************************************)
(* `context create`.                                                       *)
(***************************************************************************)
\* assertUnregisteredTarget.
MayCreate(path) ==
  /\ ~\E f \in IF toml.manifest.parses THEN RegisteredPaths(toml.manifest)
               ELSE {Global, Architecture} : SameKey(f, path)
  /\ ~\E f \in ContextFiles(docs) : SameKey(f, path)

LoadForCreate(p) ==
  LET r == Request(p) IN
  /\ At(p, "load") /\ r.op = "create"
  /\ Reads
  /\ IF MayCreate(r.path) /\ LiveErrors = {}
     THEN Goes(p, "directory", [manifest |-> toml.manifest])
     ELSE Ends(p, "refused")

\* ensureSafeRepositoryDirectory makes every parent that is missing.
WithDirectory(path) == directories \cup {Parent[path]}

\* The directory is there; then the destination is looked at.
EnsureDirectory(p) ==
  LET r == Request(p) IN
  /\ At(p, "directory")
  /\ directories' = WithDirectory(r.path)
  /\ IF Exists(docs[r.path]) THEN Ends(p, "refused") ELSE Goes(p, "recheck", <<>>)
  /\ UNCHANGED <<docs, linked, toml, mentions, clock, journal, lock, missed,
                 changed, counters>>

\* The temporary is written; the destination is looked at again.
RecheckDestination(p) ==
  /\ At(p, "recheck")
  /\ Reads
  /\ IF Exists(docs[Request(p).path]) THEN Ends(p, "refused")
     ELSE Goes(p, "link", <<>>)

\* link() refuses a destination that exists; its directory must be there.
LinkSucceeds(path) == ~Exists(docs[path])

LinkScaffold(p) ==
  LET path == Request(p).path IN
  /\ At(p, "link")
  /\ UNCHANGED <<directories, toml, mentions, journal, lock, missed, counters>>
  /\ IF LinkSucceeds(path) /\ Parent[path] \in directories
     THEN /\ docs' = [docs EXCEPT ![path] =
                [body |-> "text", links |-> {}, stamp |-> clock + 1]]
          /\ clock' = clock + 1
          /\ linked' = linked \cup {path}
          /\ SomethingElseChanges
          /\ Goes(p, "unlink", <<>>)
     ELSE /\ Ends(p, "refused")
          /\ UNCHANGED <<docs, clock, linked, changed>>

UnlinkScaffoldTemporary(p) ==
  LET path == Request(p).path IN
  /\ At(p, "unlink")
  /\ linked' = linked \ {path}
  /\ SomethingElseChanges
  /\ Ends(p, "ok")
  /\ UNCHANGED <<docs, directories, toml, mentions, clock, journal, lock,
                 missed, counters>>
-----------------------------------------------------------------------------
Crash(p) ==
  /\ ~At(p, "idle") /\ crashes < MaxCrashes
  /\ crashes' = crashes + 1
  /\ Ends(p, "crashed")
  /\ lock' = IF lock = p THEN None ELSE lock
  /\ UNCHANGED <<files, journal, missed, changed, commands,
                 recoveries, edits>>

(***************************************************************************)
(* People.                                                                 *)
(***************************************************************************)
Edit ==
  /\ edits < MaxEdits
  /\ edits' = edits + 1
  /\ SomethingElseChanges
  /\ UNCHANGED <<journal, lock, memory, last, commands, recoveries, crashes>>

EditDocument(f) ==
  /\ Edit
  /\ Exists(docs[f])
  /\ \E body \in HumanBodies \cup {docs[f].body} :
       \E links \in {docs[f].links, HumanLinks} :
         docs' = [docs EXCEPT ![f] =
                    [body |-> body, links |-> links, stamp |-> clock + 1]]
  /\ clock' = clock + 1
  /\ Misses({f})
  /\ UNCHANGED <<linked, directories, toml, mentions>>

DeleteDocument(f) ==
  /\ Edit
  /\ Exists(docs[f])
  /\ docs' = [docs EXCEPT ![f] = Absent]
  /\ linked' = linked \ {f}
  /\ Misses({f})
  /\ UNCHANGED <<directories, toml, mentions, clock>>

Commented(manifest) == [manifest EXCEPT !.note = @ + 1]
EntryByHand(f) == [path |-> f, role |-> "domain", read_policy |-> "on-demand",
                   default_children |-> <<>>]

\* A comment, or an entry of their own.
EditManifest ==
  /\ Edit
  /\ \/ toml' = [manifest |-> Commented(toml.manifest), stamp |-> clock + 1]
     \/ \E f \in EditedPaths :
          toml' = [manifest |-> AppendContext(toml.manifest, EntryByHand(f)),
                   stamp |-> clock + 1]
  /\ clock' = clock + 1
  /\ UNCHANGED <<docs, linked, directories, mentions, missed>>

MentionPath(f) ==
  /\ Edit
  /\ mentions' = mentions \cup {f}
  /\ UNCHANGED <<docs, linked, directories, toml, clock, missed>>

People ==
  \/ \E f \in EditedPaths : EditDocument(f) \/ DeleteDocument(f) \/ MentionPath(f)
  \/ EditManifest

Register(p) == LoadForRegister(p) \/ StageRegister(p)
Move(p) == LoadForMove(p) \/ ReadMarkdown(p) \/ CaptureSource(p) \/ StageMove(p)
           \/ CaptureReferring(p)
Create(p) == LoadForCreate(p) \/ EnsureDirectory(p) \/ RecheckDestination(p)
             \/ LinkScaffold(p) \/ UnlinkScaffoldTemporary(p)
Publish(p) == CaptureManifest(p) \/ Execute(p) \/ Validate(p)

Next ==
  \/ \E p \in Proc : Give(p) \/ Register(p) \/ Move(p) \/ Create(p)
                     \/ Publish(p) \/ Crash(p)
  \/ \E side \in {"before", "after"} : Recover(side)
  \/ Settle
  \/ People

Spec == Init /\ [][Next]_vars
-----------------------------------------------------------------------------
(***************************************************************************)
(* Properties.                                                             *)
(***************************************************************************)
\* The manifest, the documents and the plans have the shape the code gives
\* them, and every document that exists has an identity of its own or that of
\* the publication that wrote it.
TypeOK ==
  /\ docs \in [Path -> Doc]
  /\ \A f \in Path : IF Exists(docs[f]) THEN docs[f].stamp <= clock
                     ELSE docs[f] = Absent
  /\ toml.manifest \in Manifest /\ toml.stamp \in 0..clock
  /\ linked \subseteq ContextFiles(docs)
  /\ lock \in Proc \cup {None}
  /\ \A p \in Proc : lock = p <=> At(p, "validate")
  /\ journal # None =>
       /\ journal.plan.before \in [DOMAIN journal.plan.after -> Doc]
       /\ journal.plan.after \in [DOMAIN journal.plan.before -> Doc]
       /\ journal.stamp \in 1..clock

\* Paths that differ in case only, one of which a create and the other another
\* create or a move was given: create looks for such a file when it loads the
\* Catalog, and later only at its own path.
PathsOf(r) == IF r.op = "move" THEN {r.path, r.to} ELSE {r.path}
Race(c, d) ==
  /\ c # d /\ SameKey(c, d)
  /\ \E r, s \in Requests :
       /\ r.op = "create" /\ s.op \in {"create", "move"}
       /\ \/ c = r.path /\ d \in PathsOf(s)
          \/ d = r.path /\ c \in PathsOf(s)
Raced == {c \in Path : \E d \in Path : Race(c, d)}

\* Whatever the order in which create, register and move are given and where
\* they die, the Catalog that they leave has no error that people did not make
\* (the staged load of context-register.ts:135, context-move.ts:166), but for two
\* names of one key of which a create, which holds no lock, gave one.
CommandsKeepCatalogValid ==
  edits = 0 /\ linked = {}
    => LiveErrors \subseteq Error("context_path_case_collision", Raced)

\* A move that the endpoints allow is not refused by the staged Catalog: the
\* patched manifest and the patched links are consistent with each other
\* (assertContextMoveEndpoints, replaceContextManifestPath, planContextMoveMarkdown).
\* global.md is read by default under that name only, and cannot be moved.
AllowedMovesStage ==
  \A p \in Proc :
    /\ At(p, "stage") /\ Request(p).op = "move" /\ Request(p).path # Global
    /\ toml = memory[p].toml
    /\ \A f \in Path :
         docs[f] = IF f \in DOMAIN memory[p].read THEN memory[p].read[f] ELSE Absent
    /\ linked = {} /\ ContentValid(docs[Request(p).path])
    => StagedMoveAccepted(p)

\* A plan that nobody interfered with is accepted by the validation after its
\* publication, and, when it is taken back, by the validation of the rollback:
\* what was staged is what is live (validateLiveContextMutation,
\* validateRolledBackContextMutation).
UndisturbedPlansSettle ==
  journal # None /\ AsWritten =>
    /\ journal.side = "after" /\ changed[journal.by] # "after staging"
         => LiveAsPlanned(journal.plan)
    /\ journal.side = "before" /\ changed[journal.by] = "not"
         => Identity(toml.manifest, docs) = journal.plan.identity

\* The upgrade of the manifest selects what schema 4 read without being told,
\* no more and no less (migrateDefaultBodySelection).
MigrationKeepsSelection ==
  toml.manifest.parses /\ toml.manifest.default_files = <<>> =>
    DefaultSelection(MigratedManifest(toml.manifest))
      = SelectionBeforeUpgrade(toml.manifest)

ByCommand == edits' = edits

\* A command changes the manifest only by adding its entry to, or replacing its
\* path in, what is there at that moment; what was added meanwhile is never
\* lost (assertMutationChangesCurrent, mutation-commit.ts:62-64).  Commands change
\* the manifest one at a time, under the lock; an edit by people is kept unless it
\* is made between the manifest's last comparison and its rename, the window that
\* MutationTransaction's TheirFilesSurvive excepts and this module does not have.
NoManifestUpdateLost ==
  [][ByCommand /\ toml'.manifest # toml.manifest =>
       \/ \E r \in Requests :
            \/ r.op = "register" /\ toml'.manifest = AppendContext(toml.manifest, r)
            \/ r.op = "move"
               /\ toml'.manifest = ReplacePath(toml.manifest, r.path, r.to)
       \/ /\ journal # None
          /\ <<toml.manifest, toml'.manifest>> \in
               {journal.plan.toml.manifest, journal.plan.manifest_after}
               \X {journal.plan.toml.manifest, journal.plan.manifest_after}]_vars

\* What people wrote is still there, under its path or the one it was moved to,
\* after every step of every command, with the links they put into it.
TextKept(doc, kept) ==
  \E r \in Requests \cup {[op |-> "move", path |-> None, to |-> None]} :
    /\ r.op = "move"
    /\ kept.body = doc.body
    /\ kept.links \ {r.path, r.to} = doc.links \ {r.path, r.to}

Survives(f) ==
  Exists(docs[f]) =>
    \/ TextKept(docs[f], docs'[f])
    \/ \E r \in Requests : /\ r.op = "move" /\ f \in {r.path, r.to}
                           /\ \E t \in {r.path, r.to} : TextKept(docs[f], docs'[t])

\* mutation-commit.ts:62-64, context-move.ts:127, context-create-write.ts:48.
\* The documents in `missed` are excepted: see TextsSurvive.  So is, by the shape
\* of Execute, what is written between a file's last comparison and its rename
\* (mutation-cas.ts:229-231): see InWindow and TheirFilesSurvive of
\* MutationTransaction.
CapturedTextsSurvive == [][ByCommand => \A f \in Path \ missed : Survives(f)]_vars

\* README.md:134: "conflicting writes stop relevant maintenance".
TextsSurvive == [][ByCommand => \A f \in Path : Survives(f)]_vars

\* Only a registration as a default, or a path that is moved, changes what is
\* read by default, and a move takes the selection along
\* (selectDefaultContextPaths after replaceContextManifestPath).
SelectionFollows ==
  [][ByCommand /\ journal = None /\ toml'.manifest # toml.manifest =>
       LET r == journal'.plan.request
           before == DefaultSelection(toml.manifest)
       IN  DefaultSelection(toml'.manifest) =
             IF r.op = "move" THEN {Redirect(f, r.path, r.to) : f \in before}
             ELSE before \cup
                  (IF r.read_policy # "default" THEN {}
                   ELSE Traverse(toml'.manifest, {r.path}))]_vars
=============================================================================
