---------------------------- MODULE ContextCatalog ----------------------------
(***************************************************************************)
(* The Context Catalog: what lib/context-catalog reads out of the manifest *)
(* project_context/context.toml and the Markdown files under               *)
(* project_context/.  A path is a member of Path; its spelling matters     *)
(* only through CaseKey (the path in lower case) and Parent (its           *)
(* directory).  A document is what the commands read of it: the text       *)
(* somebody wrote, the Context files it links to, and the identity (inode, *)
(* ctime) of the file.                                                     *)
(***************************************************************************)
EXTENDS Integers, SequencesExt

CONSTANTS
  Path,          \* the Markdown paths below project_context/
  Global,        \* project_context/global.md
  Architecture,  \* project_context/architecture.md
  CaseKey,       \* CaseKey[p]: p in lower case
  Parent         \* Parent[p]: the directory of p

ASSUME PathAssumption == {Global, Architecture} \subseteq Path

Role == {"area", "domain", "contract"}
ReadPolicy == {"default", "on-demand", "never-default"}

(***************************************************************************)
(* Documents.  Two texts of one size are told apart by their bytes alone.  *)
(***************************************************************************)
Body == {"none", "text", "same size", "longer", "invalid declaration"}
Doc == [body : Body, links : SUBSET Path, stamp : Nat]
Absent == [body |-> "none", links |-> {}, stamp |-> 0]
Exists(doc) == doc.body # "none"

Content(doc) == <<doc.body, doc.links>>
Bytes(doc) == <<IF doc.body = "same size" THEN "text" ELSE doc.body, doc.links>>

\* validateContextContentForRole: the declared dependencies can be parsed.
ContentValid(doc) == doc.body # "invalid declaration"

ContextFiles(docs) == {p \in Path : Exists(docs[p])}

(***************************************************************************)
(* The manifest.  `note` stands for the bytes that its meaning ignores.    *)
(***************************************************************************)
Manifest ==
  [parses        : BOOLEAN,
   areas         : Seq([id : {"main", "other"}, context : Path,
                        default : BOOLEAN]),
   contexts      : Seq([path : Path, role : Role \cup {"unknown"},
                        read_policy : ReadPolicy \cup {"none", "unknown"},
                        default_children : Seq(Path)]),
   default_files : Seq(Path),
   note          : Nat]

Ids(manifest) == [i \in DOMAIN manifest.areas |-> manifest.areas[i].id]

\* The Context paths in the order in which validateCatalogManifest meets them.
DeclaredPaths(manifest) ==
  [i \in DOMAIN manifest.areas |-> manifest.areas[i].context] \o
  [i \in DOMAIN manifest.contexts |-> manifest.contexts[i].path]

DirectDefaults(manifest) == <<Global>> \o manifest.default_files

RegisteredPaths(manifest) ==
  {Global, Architecture} \cup ToSet(DeclaredPaths(manifest))

\* The entries that addRegisteredContext keeps: a known role and a usable file.
RegisteredContexts(manifest, files) ==
  IF ~manifest.parses THEN {} ELSE
  {[source |-> "area", at |-> i, path |-> manifest.areas[i].context,
    role |-> "area", read_policy |-> "none"] :
      i \in {j \in DOMAIN manifest.areas : manifest.areas[j].context \in files}}
  \cup
  {[source |-> "context", at |-> i, path |-> manifest.contexts[i].path,
    role |-> manifest.contexts[i].role,
    read_policy |-> manifest.contexts[i].read_policy] :
      i \in {j \in DOMAIN manifest.contexts :
               /\ manifest.contexts[j].role # "unknown"
               /\ manifest.contexts[j].path \in files}}

(***************************************************************************)
(* Diagnostics of severity error.                                          *)
(***************************************************************************)
Repeated(s) == {s[i] : i \in {j \in DOMAIN s : \E k \in 1..(j - 1) : s[k] = s[j]}}

Collisions(paths) ==
  {p \in paths : \E q \in paths \ {p} : CaseKey[q] = CaseKey[p]}

Error(code, where) == {<<code, p>> : p \in where}

ManifestErrors(manifest, files) ==
  LET declared == ToSet(DeclaredPaths(manifest))
      contexts == ToSet(manifest.contexts)
      default_areas == {i \in DOMAIN manifest.areas : manifest.areas[i].default}
  IN  UNION {
        Error("manifest_default_area_count",
              {i \in default_areas : \E j \in default_areas : j < i}),
        Error("manifest_default_file_duplicate",
              Repeated(DirectDefaults(manifest))),
        Error("manifest_area_id_duplicate", Repeated(Ids(manifest))),
        Error("manifest_context_path_duplicate",
              Repeated(DeclaredPaths(manifest))),
        Error("manifest_context_path_case_collision", Collisions(declared)),
        Error("manifest_path_missing",
              (ToSet(DirectDefaults(manifest))
               \cup {c.path : c \in {k \in contexts : k.role # "unknown"}}
               \cup {a.context : a \in ToSet(manifest.areas)}) \ files),
        Error("manifest_context_role_unsupported",
              {c.path : c \in {k \in contexts : k.role = "unknown"}}),
        Error("manifest_read_policy_unsupported",
              {c.path : c \in {k \in contexts : k.read_policy = "unknown"}}),
        Error("manifest_default_child_unregistered",
              (UNION {ToSet(c.default_children) : c \in contexts}) \ declared)}

\* validateCatalogManifestPath: a declared file with a second link, a member of
\* `linked`, is refused like a missing one.
UsableFiles(files, linked) == files \ linked

\* Every error of a load of the Catalog.
CatalogErrors(manifest, files, linked) ==
  Error("context_path_case_collision", Collisions(files)) \cup
  IF manifest.parses THEN ManifestErrors(manifest, UsableFiles(files, linked))
  ELSE Error("context_manifest_parse", {Global})

UnregisteredFiles(manifest, files) ==
  files \ (IF manifest.parses THEN RegisteredPaths(manifest)
           ELSE {Global, Architecture})

(***************************************************************************)
(* The default selection (selectDefaultContextPaths).                      *)
(***************************************************************************)
\* `new Map(entries)`: of two entries with one path the last one counts.
ChildrenOf(manifest, p) ==
  LET entries == {i \in DOMAIN manifest.contexts : manifest.contexts[i].path = p}
  IN  IF entries = {} THEN {}
      ELSE ToSet(manifest.contexts[Max(entries)].default_children)

\* What is ever queued: the least set that holds the roots and, with a path, its
\* children.
Traverse(manifest, roots) ==
  LET known == roots \cup UNION {ChildrenOf(manifest, p) : p \in Path}
      Closed(S) == roots \subseteq S /\ \A p \in S : ChildrenOf(manifest, p) \subseteq S
  IN  {p \in known : \A S \in SUBSET known : Closed(S) => p \in S}

DirectSelection(manifest) ==
  ToSet(DirectDefaults(manifest)) \cup
  {a.context : a \in {b \in ToSet(manifest.areas) : b.default}}

\* mutant: what is selected directly is traversed as well.
AllSelected(manifest) ==
  DirectSelection(manifest) \cup
  {c.path : c \in {k \in ToSet(manifest.contexts) : k.read_policy = "default"}}
TraversalRoots(manifest) ==
  {c.path : c \in {k \in ToSet(manifest.contexts) : k.read_policy = "default"}}

DefaultSelection(manifest) ==
  IF ~manifest.parses THEN {}
  ELSE DirectSelection(manifest) \cup Traverse(manifest, TraversalRoots(manifest))

(***************************************************************************)
(* The upgrade of the selection (migrateDefaultBodySelection): a schema-4  *)
(* workspace read architecture.md without saying so.                       *)
(***************************************************************************)
SelectionBeforeUpgrade(manifest) == DefaultSelection(manifest) \cup {Architecture}

MigratedManifest(manifest) ==
  [manifest EXCEPT !.default_files = <<Architecture>>]
=============================================================================
