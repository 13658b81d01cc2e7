------------------------ MODULE ContextAuthoringProofs ------------------------
(***************************************************************************)
(* What the plans of register and move are worth, for any Catalog, any     *)
(* requests, and any number of commands, crashes, recoveries and edits.    *)
(***************************************************************************)
EXTENDS ContextAuthoring, TLAPS

(***************************************************************************)
(* What a command knows.  Each step of a plan adds fields to its record;   *)
(* what it added before stays.                                             *)
(***************************************************************************)
Creating == {"directory", "recheck", "link", "unlink"}
Complete == {"execute", "validate"}
AfterStage == Complete \cup {"capture referring"}
AfterManifest == AfterStage \cup {"stage"}
AfterSource == AfterManifest \cup {"capture manifest"}
AfterRead == AfterSource \cup {"capture source"}
AfterLoad == AfterRead \cup {"read"}
OfMoves == {"read", "capture source", "capture referring"}
Pcs == {"idle", "load"} \cup Creating \cup AfterLoad

ValidManifest(manifest, paths) ==
  manifest \in Manifest /\ manifest.parses /\ ManifestErrors(manifest, paths) = {}

\* What the endpoints of a move are: one registered source, a free target.
Endpoints(manifest, paths, r) ==
  /\ \E c \in RegisteredContexts(manifest, paths) :
       /\ c.path = r.path
       /\ \A d \in RegisteredContexts(manifest, paths) : d.path = r.path => d = c
  /\ \A f \in paths : ~SameKey(f, r.to)

LoadOK(m) ==
  /\ {"request", "catalog", "identity"} \subseteq DOMAIN m
  /\ m.request.op \in {"register", "move"}
  /\ m.catalog.files \subseteq Path
  /\ ValidManifest(m.catalog.manifest, m.catalog.files)
  /\ Collisions(m.catalog.files) = {}
  /\ m.request.op = "register" =>
       m.request.path \in m.catalog.files \ RegisteredPaths(m.catalog.manifest)
  /\ m.request.op = "move" =>
       Endpoints(m.catalog.manifest, m.catalog.files, m.request)

ReadOK(m) ==
  /\ {"read", "makes"} \subseteq DOMAIN m
  /\ m.read \in [m.catalog.files -> Doc]
  /\ \A f \in m.catalog.files : Exists(m.read[f])

SourceOK(m, now) ==
  /\ "source" \in DOMAIN m
  /\ m.source \in Doc /\ Exists(m.source) /\ m.source.stamp <= now
  /\ Content(m.source) = Content(m.read[m.request.path])

TomlOK(m, now) ==
  /\ "toml" \in DOMAIN m
  /\ m.toml.manifest = m.catalog.manifest
  /\ m.toml.stamp \in 0..now

\* The documents of a plan, and the manifest, as the model writes them.
ReferringOf(m) ==
  {f \in DOMAIN m.read \ {m.request.path} : m.request.path \in m.read[f].links}
AfterOf(m) ==
  [f \in {m.request.path, m.request.to} \cup ReferringOf(m) |->
     IF f = m.request.path THEN Absent
     ELSE PatchLinks(IF f = m.request.to THEN m.read[m.request.path] ELSE m.read[f],
                     m.request.path, m.request.to)]
ManifestOf(m) ==
  IF m.request.op = "register" THEN AppendContext(m.toml.manifest, m.request)
  ELSE ReplacePath(m.toml.manifest, m.request.path, m.request.to)

StagedOK(m) ==
  /\ {"after", "makes", "manifest_after", "issues", "identity_after"} \subseteq DOMAIN m
  /\ m.manifest_after = ManifestOf(m)
  /\ m.request.op = "register" => m.after = <<>>
  /\ m.request.op = "move" => m.after = AfterOf(m) /\ m.request.path # Global

CompleteOK(m, now) ==
  /\ "before" \in DOMAIN m
  /\ m.request.op = "register" => m.before = <<>>
  /\ m.request.op = "move" =>
       /\ m.before \in [DOMAIN m.after -> Doc]
       /\ m.before[m.request.to] = Absent
       /\ m.before[m.request.path] = m.source
       /\ \A f \in DOMAIN m.after \ {m.request.to} :
            Exists(m.before[f]) /\ m.before[f].stamp <= now

PlanOK(m, now) ==
  /\ m.pc \in Pcs /\ "pc" \in DOMAIN m
  /\ m.pc # "idle" => "request" \in DOMAIN m /\ m.request \in Requests
  /\ m.pc \in Creating => m.request.op = "create"
  /\ m.pc \in OfMoves => m.request.op = "move"
  /\ m.pc \in AfterLoad => LoadOK(m)
  /\ m.pc \in AfterRead /\ m.request.op = "move" => ReadOK(m)
  /\ m.pc \in AfterSource /\ m.request.op = "move" => SourceOK(m, now)
  /\ m.pc \in AfterManifest => TomlOK(m, now)
  /\ m.pc \in AfterStage => StagedOK(m)
  /\ m.pc \in Complete => CompleteOK(m, now)

(***************************************************************************)
(* The files.                                                              *)
(***************************************************************************)
DocOK(doc, now) == IF Exists(doc) THEN doc.stamp <= now ELSE doc = Absent

FilesOK ==
  /\ clock \in Nat
  /\ docs \in [Path -> Doc]
  /\ \A f \in Path : DocOK(docs[f], clock)
  /\ toml.manifest \in Manifest /\ toml.stamp \in 0..clock
  /\ linked \subseteq ContextFiles(docs)

\* A file that a plan captured, or a transaction wrote, had one link, and a later
\* one with that identity would be the same file.
Unlinked(m) ==
  /\ m.pc \in AfterSource \ {"validate"} /\ m.request.op = "move" =>
       (docs[m.request.path] = m.source => m.request.path \notin linked)
  /\ m.pc = "execute" =>
       \A f \in DOMAIN m.before :
         Exists(m.before[f]) /\ docs[f] = m.before[f] => f \notin linked

JournalOK ==
  /\ {"plan", "by", "side", "stamp"} \subseteq DOMAIN journal
  /\ journal.plan.pc = "execute"
  /\ PlanOK(journal.plan, clock)
  /\ journal.by \in Proc
  /\ journal.side \in {"before", "after"}
  /\ journal.stamp \in 1..clock
  /\ \A f \in DOMAIN journal.plan.after :
       Exists(docs[f]) /\ docs[f].stamp = journal.stamp => f \notin linked

PlansOK ==
  /\ DOMAIN memory = Proc
  /\ \A p \in Proc : PlanOK(memory[p], clock) /\ Unlinked(memory[p])

LockOK == lock \in Proc \cup {None} /\ \A p \in Proc : lock = p <=> At(p, "validate")

ShapeInv == FilesOK /\ PlansOK /\ LockOK /\ (journal # None => JournalOK)
-----------------------------------------------------------------------------
(***************************************************************************)
(* Requests and documents.                                                 *)
(***************************************************************************)
\* What a request of each kind says.
LEMMA RequestFields ==
  ASSUME NEW r \in Requests
  PROVE  /\ r.op \in {"create", "register", "move"}
         /\ r.path \in Path
         /\ r.op = "move" => r.to \in Path /\ ~SameKey(r.path, r.to) /\ r.path # r.to
         /\ r.op = "register" =>
              /\ r.role \in Role /\ r.read_policy \in {"default", "on-demand"}
              /\ r.default_children \in Seq(Path)
<1>1. CASE r \in [op : {"create"}, path : Path]  BY <1>1
<1>2. CASE r \in [op : {"register"}, path : Path, role : Role,
                  read_policy : {"default", "on-demand"}, default_children : Seq(Path)]
  BY <1>2
<1>3. CASE /\ r \in [op : {"move"}, path : Path, to : Path]
           /\ CaseKey[r.path] # CaseKey[r.to]
  BY <1>3 DEF SameKey
<1> QED  BY <1>1, <1>2, <1>3, RequestsAssumption

LEMMA AbsentIsNoDocument == Absent \in Doc /\ ~Exists(Absent)
  BY DEF Absent, Doc, Body, Exists

\* A patch keeps the text, and redirects the links.
LEMMA PatchedDocument ==
  ASSUME NEW doc \in Doc, NEW from \in Path, NEW to \in Path
  PROVE  /\ PatchLinks(doc, from, to) \in Doc
         /\ Exists(PatchLinks(doc, from, to)) <=> Exists(doc)
         /\ PatchLinks(doc, from, to).body = doc.body
         /\ PatchLinks(doc, from, to).links = {Redirect(t, from, to) : t \in doc.links}
         /\ PatchLinks(doc, from, to).stamp = 0
<1>1. doc.body \in Body /\ doc.links \in SUBSET Path  BY DEF Doc
<1>2. {Redirect(t, from, to) : t \in doc.links} \subseteq Path  BY <1>1 DEF Redirect
<1> QED  BY <1>1, <1>2 DEF PatchLinks, Doc, Exists

LEMMA StampedDocument ==
  ASSUME NEW doc \in Doc, clock \in Nat
  PROVE  /\ Stamped(doc) \in Doc
         /\ Exists(Stamped(doc)) <=> Exists(doc)
         /\ Exists(doc) =>
              /\ Stamped(doc).stamp = clock + 1
              /\ Stamped(doc).body = doc.body /\ Stamped(doc).links = doc.links
              /\ Stamped(doc) = [doc EXCEPT !.stamp = clock + 1]
         /\ ~Exists(doc) => Stamped(doc) = Absent
<1>1. CASE Exists(doc)
  <2>1. [doc EXCEPT !.stamp = clock + 1] \in Doc  BY DEF Doc
  <2>2. /\ [doc EXCEPT !.stamp = clock + 1].stamp = clock + 1
        /\ [doc EXCEPT !.stamp = clock + 1].body = doc.body
        /\ [doc EXCEPT !.stamp = clock + 1].links = doc.links  BY DEF Doc
  <2> QED  BY <1>1, <2>1, <2>2 DEF Stamped, Exists
<1>2. CASE ~Exists(doc)  BY <1>2, AbsentIsNoDocument DEF Stamped
<1> QED  BY <1>1, <1>2

(***************************************************************************)
(* The record of a command.                                                *)
(***************************************************************************)
\* What a command knows after it has read something.
Knows(m, pc, read) == Updated(Updated(m, read), [pc |-> pc])

\* Only the record of the command that goes on changes.
LEMMA GoesOn ==
  ASSUME DOMAIN memory = Proc, NEW p \in Proc, NEW pc, NEW read, Goes(p, pc, read)
  PROVE  /\ memory'[p] = Knows(memory[p], pc, read)
         /\ DOMAIN memory' = Proc /\ \A q \in Proc \ {p} : memory'[q] = memory[q]
  BY DEF Goes, Knows

LEMMA EndsAt ==
  ASSUME DOMAIN memory = Proc, NEW p \in Proc, NEW result, Ends(p, result)
  PROVE  /\ memory'[p] = Idle
         /\ DOMAIN memory' = Proc /\ \A q \in Proc \ {p} : memory'[q] = memory[q]
  BY DEF Ends

LEMMA IdlePlan == \A now : PlanOK(Idle, now) /\ Unlinked(Idle)
<1>1. Idle.pc = "idle" /\ "pc" \in DOMAIN Idle  BY DEF Idle
<1> QED  BY <1>1 DEF PlanOK, Unlinked, Pcs, Creating, AfterLoad, AfterRead, AfterSource,
                     AfterManifest, AfterStage, Complete, OfMoves

\* Time passes, and a plan stays what it is.
LEMMA LaterPlan ==
  ASSUME NEW m, NEW now \in Nat, NEW later \in Nat, now <= later, PlanOK(m, now)
  PROVE  PlanOK(m, later)
<1>1. SourceOK(m, now) => SourceOK(m, later)
  BY SMTT(30) DEF SourceOK, Doc
<1>2. TomlOK(m, now) => TomlOK(m, later)  BY DEF TomlOK
<1>3. ASSUME m.pc \in Complete, m.request.op = "move", CompleteOK(m, now)
      PROVE  CompleteOK(m, later)
  <2>1. /\ "before" \in DOMAIN m
        /\ m.before \in [DOMAIN m.after -> Doc]
        /\ m.before[m.request.to] = Absent /\ m.before[m.request.path] = m.source
        /\ \A f \in DOMAIN m.after \ {m.request.to} :
             Exists(m.before[f]) /\ m.before[f].stamp <= now
    BY <1>3 DEF CompleteOK
  <2>2. \A f \in DOMAIN m.after \ {m.request.to} : m.before[f].stamp \in Nat
    BY <2>1 DEF Doc
  <2>3. \A f \in DOMAIN m.after \ {m.request.to} :
          Exists(m.before[f]) /\ m.before[f].stamp <= later
    BY <2>1, <2>2
  <2> QED  BY <1>3, <2>1, <2>3 DEF CompleteOK
<1>4. ASSUME m.request.op # "move", CompleteOK(m, now) PROVE CompleteOK(m, later)
  BY <1>4 DEF CompleteOK
<1> QED  BY <1>1, <1>2, <1>3, <1>4 DEF PlanOK
-----------------------------------------------------------------------------
(***************************************************************************)
(* When a manifest, and a Catalog, has no error.                           *)
(***************************************************************************)
LEMMA Elements ==
  ASSUME NEW S, NEW s \in Seq(S)
  PROVE  /\ DOMAIN s = 1..Len(s) /\ Len(s) \in Nat
         /\ \A i \in DOMAIN s : s[i] \in S
         /\ ToSet(s) \subseteq S
  BY DEF ToSet

LEMMA ManifestParts ==
  ASSUME NEW manifest \in Manifest
  PROVE  /\ manifest.areas \in Seq([id : {"main", "other"}, context : Path,
                                    default : BOOLEAN])
         /\ manifest.contexts \in
              Seq([path : Path, role : Role \cup {"unknown"},
                   read_policy : ReadPolicy \cup {"none", "unknown"},
                   default_children : Seq(Path)])
         /\ manifest.default_files \in Seq(Path)
         /\ manifest.parses \in BOOLEAN /\ manifest.note \in Nat
         /\ \A i \in DOMAIN manifest.areas : manifest.areas[i].context \in Path
         /\ \A i \in DOMAIN manifest.contexts : manifest.contexts[i].path \in Path
<1>1. /\ manifest.areas \in Seq([id : {"main", "other"}, context : Path,
                                 default : BOOLEAN])
      /\ manifest.contexts \in
           Seq([path : Path, role : Role \cup {"unknown"},
                read_policy : ReadPolicy \cup {"none", "unknown"},
                default_children : Seq(Path)])
      /\ manifest.default_files \in Seq(Path)
      /\ manifest.parses \in BOOLEAN /\ manifest.note \in Nat
  BY DEF Manifest
<1>2. \A i \in DOMAIN manifest.areas :
        manifest.areas[i] \in [id : {"main", "other"}, context : Path, default : BOOLEAN]
  BY <1>1, Elements
<1>3. \A i \in DOMAIN manifest.contexts :
        manifest.contexts[i] \in
          [path : Path, role : Role \cup {"unknown"},
           read_policy : ReadPolicy \cup {"none", "unknown"},
           default_children : Seq(Path)]
  BY <1>1, Elements
<1> QED  BY <1>1, <1>2, <1>3

AreaPaths(manifest) == {manifest.areas[i].context : i \in DOMAIN manifest.areas}
ContextPaths(manifest) == {manifest.contexts[i].path : i \in DOMAIN manifest.contexts}

LEMMA Concatenation ==
  ASSUME NEW S, NEW a \in Seq(S), NEW b \in Seq(S)
  PROVE  /\ a \o b \in Seq(S) /\ Len(a \o b) = Len(a) + Len(b)
         /\ \A i \in 1..Len(a) : (a \o b)[i] = a[i]
         /\ \A i \in 1..Len(b) : (a \o b)[Len(a) + i] = b[i]
         /\ \A k \in DOMAIN (a \o b) :
              \/ k \in 1..Len(a) /\ (a \o b)[k] = a[k]
              \/ \E i \in 1..Len(b) : k = Len(a) + i /\ (a \o b)[k] = b[i]
<1>1. /\ a \o b \in Seq(S) /\ Len(a \o b) = Len(a) + Len(b)
      /\ \A i \in 1..Len(a) : (a \o b)[i] = a[i]
      /\ Len(a) \in Nat /\ Len(b) \in Nat
  OBVIOUS
<1>2. \A i \in 1..Len(b) : (a \o b)[Len(a) + i] = b[i]  OBVIOUS
<1>3. ASSUME NEW k \in DOMAIN (a \o b), ~(k \in 1..Len(a))
      PROVE  \E i \in 1..Len(b) : k = Len(a) + i /\ (a \o b)[k] = b[i]
  <2>1. k \in 1..(Len(a) + Len(b))  BY <1>1, <1>3
  <2>2. k - Len(a) \in 1..Len(b) /\ k = Len(a) + (k - Len(a))  BY <2>1, <1>3, <1>1
  <2> QED  BY <2>2, <1>2
<1> QED  BY <1>1, <1>2, <1>3

LEMMA DeclaredSequences ==
  ASSUME NEW manifest \in Manifest
  PROVE  LET a == [i \in DOMAIN manifest.areas |-> manifest.areas[i].context]
             c == [i \in DOMAIN manifest.contexts |-> manifest.contexts[i].path]
         IN  /\ a \in Seq(Path) /\ c \in Seq(Path)
             /\ Len(a) = Len(manifest.areas) /\ Len(c) = Len(manifest.contexts)
             /\ DeclaredPaths(manifest) = a \o c
<1> DEFINE a == [i \in DOMAIN manifest.areas |-> manifest.areas[i].context]
           c == [i \in DOMAIN manifest.contexts |-> manifest.contexts[i].path]
<1>1. DOMAIN manifest.areas = 1..Len(manifest.areas) /\ Len(manifest.areas) \in Nat
  BY ManifestParts
<1>2. DOMAIN manifest.contexts = 1..Len(manifest.contexts) /\ Len(manifest.contexts) \in Nat
  BY ManifestParts
<1>3. a \in [1..Len(manifest.areas) -> Path]  BY <1>1, ManifestParts
<1>4. c \in [1..Len(manifest.contexts) -> Path]  BY <1>2, ManifestParts
<1>5. a \in Seq(Path) /\ Len(a) = Len(manifest.areas)  BY <1>1, <1>3
<1>6. c \in Seq(Path) /\ Len(c) = Len(manifest.contexts)  BY <1>2, <1>4
<1>7. DeclaredPaths(manifest) = a \o c  BY DEF DeclaredPaths
<1> QED  BY <1>5, <1>6, <1>7

LEMMA DeclaredSet ==
  ASSUME NEW manifest \in Manifest
  PROVE  /\ DeclaredPaths(manifest) \in Seq(Path)
         /\ ToSet(DeclaredPaths(manifest)) = AreaPaths(manifest) \cup ContextPaths(manifest)
         /\ RegisteredPaths(manifest) =
              {Global, Architecture} \cup AreaPaths(manifest) \cup ContextPaths(manifest)
<1> DEFINE a == [i \in DOMAIN manifest.areas |-> manifest.areas[i].context]
           c == [i \in DOMAIN manifest.contexts |-> manifest.contexts[i].path]
<1>1. /\ a \in Seq(Path) /\ c \in Seq(Path) /\ DeclaredPaths(manifest) = a \o c
  BY DeclaredSequences
<1>2. AreaPaths(manifest) = {a[i] : i \in DOMAIN a}  BY DEF AreaPaths
<1>3. ContextPaths(manifest) = {c[i] : i \in DOMAIN c}  BY DEF ContextPaths
<1> HIDE DEF a, c
<1>4. ToSet(a \o c) = {a[i] : i \in DOMAIN a} \cup {c[i] : i \in DOMAIN c}
  <2>1. /\ a \o c \in Seq(Path) /\ Len(a \o c) = Len(a) + Len(c)
        /\ \A i \in 1..Len(a) : (a \o c)[i] = a[i]
        /\ \A i \in 1..Len(c) : (a \o c)[Len(a) + i] = c[i]
        /\ \A k \in DOMAIN (a \o c) :
             \/ k \in 1..Len(a) /\ (a \o c)[k] = a[k]
             \/ \E i \in 1..Len(c) : k = Len(a) + i /\ (a \o c)[k] = c[i]
    BY <1>1, Concatenation
  <2>2. DOMAIN (a \o c) = 1..(Len(a) + Len(c))  BY <2>1
  <2>3. DOMAIN a = 1..Len(a) /\ DOMAIN c = 1..Len(c) /\ Len(a) \in Nat /\ Len(c) \in Nat
    BY <1>1
  <2>4. \A i \in 1..Len(a) : i \in DOMAIN (a \o c)  BY <2>2, <2>3
  <2>5. \A i \in 1..Len(c) : Len(a) + i \in DOMAIN (a \o c)  BY <2>2, <2>3
  <2>6. ToSet(a \o c) = {(a \o c)[k] : k \in DOMAIN (a \o c)}  BY DEF ToSet
  <2>7. ASSUME NEW x \in ToSet(a \o c)
        PROVE  x \in {a[i] : i \in DOMAIN a} \cup {c[i] : i \in DOMAIN c}
    <3>1. PICK k \in DOMAIN (a \o c) : x = (a \o c)[k]  BY <2>6, <2>7
    <3> QED  BY <3>1, <2>1, <2>3
  <2>8. ASSUME NEW i \in DOMAIN a PROVE a[i] \in ToSet(a \o c)
    BY <2>1, <2>3, <2>4, <2>6, <2>8
  <2>9. ASSUME NEW i \in DOMAIN c PROVE c[i] \in ToSet(a \o c)
    BY <2>1, <2>3, <2>5, <2>6, <2>9
  <2> QED  BY <2>7, <2>8, <2>9
<1>5. a \o c \in Seq(Path)  BY <1>1
<1> QED  BY <1>1, <1>2, <1>3, <1>4, <1>5 DEF RegisteredPaths

LEMMA ErrorsNone == ASSUME NEW code, NEW where PROVE Error(code, where) = {} <=> where = {}
  BY DEF Error

KnownContextPaths(manifest) ==
  {c.path : c \in {k \in ToSet(manifest.contexts) : k.role # "unknown"}}

\* A manifest without an error, part by part.
SoundManifest(manifest, paths) ==
  /\ \A i, j \in DOMAIN manifest.areas :
       manifest.areas[i].default /\ manifest.areas[j].default => ~(j < i)
  /\ Repeated(DirectDefaults(manifest)) = {}
  /\ Repeated(Ids(manifest)) = {}
  /\ Repeated(DeclaredPaths(manifest)) = {}
  /\ Collisions(ToSet(DeclaredPaths(manifest))) = {}
  /\ ToSet(DirectDefaults(manifest)) \subseteq paths
  /\ KnownContextPaths(manifest) \subseteq paths
  /\ {a.context : a \in ToSet(manifest.areas)} \subseteq paths
  /\ \A c \in ToSet(manifest.contexts) : c.role # "unknown" /\ c.read_policy # "unknown"
  /\ \A c \in ToSet(manifest.contexts) :
       ToSet(c.default_children) \subseteq ToSet(DeclaredPaths(manifest))

LEMMA ErrorFree ==
  ASSUME NEW manifest, NEW paths
  PROVE  ManifestErrors(manifest, paths) = {} <=> SoundManifest(manifest, paths)
<1> DEFINE declared == ToSet(DeclaredPaths(manifest))
           contexts == ToSet(manifest.contexts)
           default_areas == {i \in DOMAIN manifest.areas : manifest.areas[i].default}
           w1 == {i \in default_areas : \E j \in default_areas : j < i}
           w2 == Repeated(DirectDefaults(manifest))
           w3 == Repeated(Ids(manifest))
           w4 == Repeated(DeclaredPaths(manifest))
           w5 == Collisions(declared)
           w6 == (ToSet(DirectDefaults(manifest))
                  \cup {c.path : c \in {k \in contexts : k.role # "unknown"}}
                  \cup {a.context : a \in ToSet(manifest.areas)}) \ paths
           w7 == {c.path : c \in {k \in contexts : k.role = "unknown"}}
           w8 == {c.path : c \in {k \in contexts : k.read_policy = "unknown"}}
           w9 == (UNION {ToSet(c.default_children) : c \in contexts}) \ declared
<1>1. ManifestErrors(manifest, paths) =
        UNION {Error("manifest_default_area_count", w1),
               Error("manifest_default_file_duplicate", w2),
               Error("manifest_area_id_duplicate", w3),
               Error("manifest_context_path_duplicate", w4),
               Error("manifest_context_path_case_collision", w5),
               Error("manifest_path_missing", w6),
               Error("manifest_context_role_unsupported", w7),
               Error("manifest_read_policy_unsupported", w8),
               Error("manifest_default_child_unregistered", w9)}
  BY DEF ManifestErrors
<1>2. w1 = {} <=> \A i, j \in DOMAIN manifest.areas :
                    manifest.areas[i].default /\ manifest.areas[j].default => ~(j < i)
  OBVIOUS
<1>3. w6 = {} <=> /\ ToSet(DirectDefaults(manifest)) \subseteq paths
                  /\ KnownContextPaths(manifest) \subseteq paths
                  /\ {a.context : a \in ToSet(manifest.areas)} \subseteq paths
  BY DEF KnownContextPaths
<1>4. w7 = {} <=> \A c \in contexts : c.role # "unknown"  OBVIOUS
<1>5. w8 = {} <=> \A c \in contexts : c.read_policy # "unknown"  OBVIOUS
<1>6. w9 = {} <=> \A c \in contexts : ToSet(c.default_children) \subseteq declared
  <2> HIDE DEF contexts, declared
  <2>1. ASSUME w9 = {}, NEW c \in contexts, NEW x \in ToSet(c.default_children)
        PROVE  x \in declared
    <3>1. x \in UNION {ToSet(k.default_children) : k \in contexts}  BY <2>1
    <3> QED  BY <3>1, <2>1
  <2>2. ASSUME \A c \in contexts : ToSet(c.default_children) \subseteq declared,
               NEW x \in w9
        PROVE  FALSE
    <3>1. PICK c \in contexts : x \in ToSet(c.default_children)  BY <2>2
    <3> QED  BY <3>1, <2>2
  <2> QED  BY <2>1, <2>2
<1>7. SoundManifest(manifest, paths) <=>
        /\ w1 = {} /\ w2 = {} /\ w3 = {} /\ w4 = {} /\ w5 = {} /\ w6 = {} /\ w7 = {}
        /\ w8 = {} /\ w9 = {}
  BY <1>2, <1>3, <1>4, <1>5, <1>6 DEF SoundManifest
<1> HIDE DEF w1, w2, w3, w4, w5, w6, w7, w8, w9
<1>8. ManifestErrors(manifest, paths) = {} <=>
        /\ w1 = {} /\ w2 = {} /\ w3 = {} /\ w4 = {} /\ w5 = {} /\ w6 = {} /\ w7 = {}
        /\ w8 = {} /\ w9 = {}
  BY <1>1, ErrorsNone
<1> QED  BY <1>7, <1>8

\* A file more is no error more.
LEMMA MoreFiles ==
  ASSUME NEW manifest, NEW paths, NEW more, paths \subseteq more,
         ManifestErrors(manifest, paths) = {}
  PROVE  ManifestErrors(manifest, more) = {}
  BY ErrorFree DEF SoundManifest

LEMMA CatalogErrorFree ==
  ASSUME NEW manifest, NEW paths, NEW twice
  PROVE  CatalogErrors(manifest, paths, twice) = {} <=>
           /\ Collisions(paths) = {} /\ manifest.parses
           /\ ManifestErrors(manifest, paths \ twice) = {}
<1>1. Error("context_manifest_parse", {Global}) # {}  BY ErrorsNone
<1>2. Error("context_path_case_collision", Collisions(paths)) = {} <=> Collisions(paths) = {}
  BY ErrorsNone
<1> QED  BY <1>1, <1>2 DEF CatalogErrors, UsableFiles

\* What is registered under a Catalog without error does not depend on the files.
LEMMA RegisteredAnyway ==
  ASSUME NEW manifest \in Manifest, NEW paths, NEW more,
         paths \subseteq more, manifest.parses, ManifestErrors(manifest, paths) = {}
  PROVE  RegisteredContexts(manifest, more) = RegisteredContexts(manifest, paths)
<1>1. SoundManifest(manifest, paths)  BY ErrorFree
<1>2. \A i \in DOMAIN manifest.areas : manifest.areas[i].context \in paths
  BY <1>1 DEF SoundManifest, ToSet
<1>3. \A i \in DOMAIN manifest.contexts :
        manifest.contexts[i].role # "unknown" /\ manifest.contexts[i].path \in paths
  BY <1>1 DEF SoundManifest, ToSet, KnownContextPaths
<1>4. /\ {j \in DOMAIN manifest.areas : manifest.areas[j].context \in paths}
           = {j \in DOMAIN manifest.areas : manifest.areas[j].context \in more}
      /\ {j \in DOMAIN manifest.contexts :
            manifest.contexts[j].role # "unknown" /\ manifest.contexts[j].path \in paths}
           = {j \in DOMAIN manifest.contexts :
                manifest.contexts[j].role # "unknown" /\ manifest.contexts[j].path \in more}
  BY <1>2, <1>3
<1> QED  BY <1>4 DEF RegisteredContexts

LEMMA RegisteredAmongFiles ==
  ASSUME NEW manifest, NEW paths, NEW c \in RegisteredContexts(manifest, paths)
  PROVE  c.path \in paths
  BY DEF RegisteredContexts
-----------------------------------------------------------------------------
(***************************************************************************)
(* The manifests that the commands write.                                  *)
(***************************************************************************)
Area == [id : {"main", "other"}, context : Path, default : BOOLEAN]
Entry == [path : Path, role : Role \cup {"unknown"},
          read_policy : ReadPolicy \cup {"none", "unknown"},
          default_children : Seq(Path)]
EntryOf(r) == [path |-> r.path, role |-> r.role, read_policy |-> r.read_policy,
               default_children |-> r.default_children]

LEMMA ManifestFields ==
  ASSUME NEW manifest \in Manifest
  PROVE  /\ manifest.areas \in Seq(Area) /\ manifest.contexts \in Seq(Entry)
         /\ manifest.default_files \in Seq(Path)
         /\ manifest.parses \in BOOLEAN /\ manifest.note \in Nat
  BY ManifestParts DEF Area, Entry

LEMMA AppendedManifest ==
  ASSUME NEW manifest \in Manifest, NEW e \in Entry
  PROVE  LET after == [manifest EXCEPT !.contexts = Append(@, e)]
         IN  /\ after \in Manifest
             /\ after.areas = manifest.areas /\ after.default_files = manifest.default_files
             /\ after.parses = manifest.parses
             /\ after.contexts = Append(manifest.contexts, e)
<1> DEFINE after == [manifest EXCEPT !.contexts = Append(@, e)]
<1>1. Append(manifest.contexts, e) \in Seq(Entry)  BY ManifestFields
<1>2. after \in Manifest  BY <1>1 DEF Manifest, Entry
<1>3. /\ after.areas = manifest.areas /\ after.default_files = manifest.default_files
      /\ after.parses = manifest.parses
      /\ after.contexts = Append(manifest.contexts, e)
  BY DEF Manifest
<1> QED  BY <1>2, <1>3

LEMMA RegisteredEntry ==
  ASSUME NEW r \in Requests, r.op = "register"
  PROVE  EntryOf(r) \in Entry
  BY RequestFields DEF EntryOf, Entry, ReadPolicy

LEMMA AppendIsAppended ==
  ASSUME NEW manifest, NEW r
  PROVE  AppendContext(manifest, r) = [manifest EXCEPT !.contexts = Append(@, EntryOf(r))]
  BY DEF AppendContext, EntryOf

LEMMA RedirectedSequence ==
  ASSUME NEW s \in Seq(Path), NEW from \in Path, NEW to \in Path
  PROVE  /\ RedirectAll(s, from, to) \in Seq(Path)
         /\ DOMAIN RedirectAll(s, from, to) = DOMAIN s
         /\ Len(RedirectAll(s, from, to)) = Len(s)
         /\ \A i \in DOMAIN s : RedirectAll(s, from, to)[i] = Redirect(s[i], from, to)
<1>1. DOMAIN s = 1..Len(s) /\ Len(s) \in Nat /\ \A i \in DOMAIN s : s[i] \in Path  BY Elements
<1>2. RedirectAll(s, from, to) \in [1..Len(s) -> Path]
  BY <1>1 DEF RedirectAll, Redirect
<1>3. RedirectAll(s, from, to) \in Seq(Path)  BY <1>1, <1>2
<1>4. Len(RedirectAll(s, from, to)) = Len(s)  BY <1>1, <1>2, <1>3
<1> QED  BY <1>1, <1>2, <1>3, <1>4 DEF RedirectAll

LEMMA RedirectedEntryFields ==
  ASSUME NEW e \in Entry, NEW from \in Path, NEW to \in Path
  PROVE  /\ RedirectEntry(e, from, to) \in Entry
         /\ RedirectEntry(e, from, to).path = Redirect(e.path, from, to)
         /\ RedirectEntry(e, from, to).role = e.role
         /\ RedirectEntry(e, from, to).read_policy = e.read_policy
         /\ RedirectEntry(e, from, to).default_children
              = RedirectAll(e.default_children, from, to)
<1>1. e.default_children \in Seq(Path) /\ e.path \in Path  BY DEF Entry
<1>2. RedirectAll(e.default_children, from, to) \in Seq(Path)  BY <1>1, RedirectedSequence
<1>3. Redirect(e.path, from, to) \in Path  BY <1>1 DEF Redirect
<1>4. RedirectEntry(e, from, to) \in Entry  BY <1>2, <1>3 DEF RedirectEntry, Entry
<1>5. /\ RedirectEntry(e, from, to).path = Redirect(e.path, from, to)
      /\ RedirectEntry(e, from, to).role = e.role
      /\ RedirectEntry(e, from, to).read_policy = e.read_policy
      /\ RedirectEntry(e, from, to).default_children
           = RedirectAll(e.default_children, from, to)
  BY DEF RedirectEntry, Entry
<1> QED  BY <1>4, <1>5

LEMMA ReplacedManifest ==
  ASSUME NEW manifest \in Manifest, NEW from \in Path, NEW to \in Path
  PROVE  LET after == ReplacePath(manifest, from, to)
         IN  /\ after \in Manifest /\ after.parses = manifest.parses
             /\ DOMAIN after.areas = DOMAIN manifest.areas
             /\ DOMAIN after.contexts = DOMAIN manifest.contexts
             /\ \A i \in DOMAIN manifest.areas :
                  /\ after.areas[i].context = Redirect(manifest.areas[i].context, from, to)
                  /\ after.areas[i].id = manifest.areas[i].id
                  /\ after.areas[i].default = manifest.areas[i].default
             /\ \A i \in DOMAIN manifest.contexts :
                  after.contexts[i] = RedirectEntry(manifest.contexts[i], from, to)
             /\ after.default_files = RedirectAll(manifest.default_files, from, to)
<1> DEFINE after == ReplacePath(manifest, from, to)
           areas == RedirectAreas(manifest.areas, from, to)
           contexts == RedirectEntries(manifest.contexts, from, to)
           defaults == RedirectAll(manifest.default_files, from, to)
<1>1. after = [manifest EXCEPT !.areas = areas, !.contexts = contexts,
                               !.default_files = defaults]
  BY DEF ReplacePath
<1>2. /\ manifest.areas \in Seq(Area) /\ manifest.contexts \in Seq(Entry)
      /\ manifest.default_files \in Seq(Path)
  BY ManifestFields
<1>3. defaults \in Seq(Path)  BY <1>2, RedirectedSequence
<1>4. /\ areas \in Seq(Area) /\ DOMAIN areas = DOMAIN manifest.areas
      /\ \A i \in DOMAIN manifest.areas :
           /\ areas[i].context = Redirect(manifest.areas[i].context, from, to)
           /\ areas[i].id = manifest.areas[i].id
           /\ areas[i].default = manifest.areas[i].default
  <2>1. DOMAIN manifest.areas = 1..Len(manifest.areas) /\ Len(manifest.areas) \in Nat
        /\ \A i \in DOMAIN manifest.areas : manifest.areas[i] \in Area
    BY <1>2, Elements
  <2>2. \A a \in Area : LET b == [a EXCEPT !.context = Redirect(a.context, from, to)]
                        IN  /\ b \in Area /\ b.context = Redirect(a.context, from, to)
                            /\ b.id = a.id /\ b.default = a.default
    BY DEF Area, Redirect
  <2>3. \A i \in DOMAIN manifest.areas :
          areas[i] = [manifest.areas[i] EXCEPT
                        !.context = Redirect(manifest.areas[i].context, from, to)]
    BY DEF RedirectAreas
  <2>4. DOMAIN areas = DOMAIN manifest.areas  BY DEF RedirectAreas
  <2>5. \A i \in DOMAIN manifest.areas :
           /\ areas[i] \in Area
           /\ areas[i].context = Redirect(manifest.areas[i].context, from, to)
           /\ areas[i].id = manifest.areas[i].id
           /\ areas[i].default = manifest.areas[i].default
    BY <2>1, <2>2, <2>3, ZenonT(60)
  <2>6. areas \in [1..Len(manifest.areas) -> Area]
    <3>1. areas = [i \in DOMAIN manifest.areas |-> areas[i]]  BY DEF RedirectAreas
    <3> QED  BY <3>1, <2>1, <2>5
  <2>7. areas \in Seq(Area)  BY <2>1, <2>6
  <2> QED  BY <2>4, <2>5, <2>7
<1>5. /\ contexts \in Seq(Entry) /\ DOMAIN contexts = DOMAIN manifest.contexts
      /\ \A i \in DOMAIN manifest.contexts :
           contexts[i] = RedirectEntry(manifest.contexts[i], from, to)
  <2>1. DOMAIN manifest.contexts = 1..Len(manifest.contexts) /\ Len(manifest.contexts) \in Nat
        /\ \A i \in DOMAIN manifest.contexts : manifest.contexts[i] \in Entry
    BY <1>2, Elements
  <2>2. /\ DOMAIN contexts = DOMAIN manifest.contexts
        /\ \A i \in DOMAIN manifest.contexts :
             contexts[i] = RedirectEntry(manifest.contexts[i], from, to)
    BY DEF RedirectEntries
  <2>3. contexts = [i \in DOMAIN manifest.contexts |-> contexts[i]]
    BY DEF RedirectEntries
  <2>4. \A i \in DOMAIN manifest.contexts : contexts[i] \in Entry
    BY <2>1, <2>2, RedirectedEntryFields
  <2>5. contexts \in [1..Len(manifest.contexts) -> Entry]  BY <2>1, <2>3, <2>4
  <2>6. contexts \in Seq(Entry)  BY <2>1, <2>5
  <2> QED  BY <2>2, <2>6
<1> HIDE DEF areas, contexts, defaults
<1>6. after \in Manifest
  BY <1>1, <1>3, <1>4, <1>5 DEF Manifest, Area, Entry
<1>7. /\ after.areas = areas /\ after.contexts = contexts /\ after.default_files = defaults
      /\ after.parses = manifest.parses
  BY <1>1 DEF Manifest
<1> HIDE DEF after
<1>8. after.default_files = RedirectAll(manifest.default_files, from, to)
  BY <1>7 DEF defaults
<1>9. DOMAIN after.areas = DOMAIN manifest.areas
      /\ DOMAIN after.contexts = DOMAIN manifest.contexts
  BY <1>4, <1>5, <1>7
<1>10. \A i \in DOMAIN manifest.areas :
         /\ after.areas[i].context = Redirect(manifest.areas[i].context, from, to)
         /\ after.areas[i].id = manifest.areas[i].id
         /\ after.areas[i].default = manifest.areas[i].default
  BY <1>4, <1>7
<1>11. \A i \in DOMAIN manifest.contexts :
         after.contexts[i] = RedirectEntry(manifest.contexts[i], from, to)
  BY <1>5, <1>7
<1> QED  BY <1>6, <1>7, <1>8, <1>9, <1>10, <1>11 DEF after

LEMMA PlannedManifest ==
  ASSUME NEW m, m.request \in Requests, LoadOK(m), m.toml.manifest = m.catalog.manifest
  PROVE  m.toml.manifest \in Manifest /\ ManifestOf(m) \in Manifest
<1>1. m.toml.manifest \in Manifest  BY DEF LoadOK, ValidManifest
<1>2. CASE m.request.op = "register"
  <2>1. EntryOf(m.request) \in Entry  BY <1>2, RegisteredEntry
  <2>2. [m.toml.manifest EXCEPT !.contexts = Append(@, EntryOf(m.request))] \in Manifest
    BY <1>1, <2>1, AppendedManifest
  <2> QED  BY <1>1, <1>2, <2>2, AppendIsAppended DEF ManifestOf
<1>3. CASE m.request.op = "move"
  <2>1. m.request.path \in Path /\ m.request.to \in Path  BY <1>3, RequestFields
  <2> QED  BY <1>1, <1>3, <2>1, ReplacedManifest DEF ManifestOf
<1> QED  BY <1>2, <1>3 DEF LoadOK
-----------------------------------------------------------------------------
(***************************************************************************)
(* What a move makes of a manifest.                                        *)
(***************************************************************************)
\* The declared paths, and what they lead to, of a manifest without an error.
LEMMA SoundPaths ==
  ASSUME NEW manifest \in Manifest, NEW paths, SoundManifest(manifest, paths)
  PROVE  /\ AreaPaths(manifest) \cup ContextPaths(manifest) \subseteq paths
         /\ \A i \in DOMAIN manifest.contexts :
              /\ manifest.contexts[i] \in Entry
              /\ manifest.contexts[i].path \in ContextPaths(manifest)
              /\ manifest.contexts[i].role # "unknown"
              /\ manifest.contexts[i].read_policy # "unknown"
              /\ ToSet(manifest.contexts[i].default_children)
                   \subseteq AreaPaths(manifest) \cup ContextPaths(manifest)
         /\ \A i \in DOMAIN manifest.areas : manifest.areas[i].context \in paths
<1>1. manifest.areas \in Seq(Area) /\ manifest.contexts \in Seq(Entry)  BY ManifestFields
<1>2. \A i \in DOMAIN manifest.areas : manifest.areas[i].context \in paths
  BY DEF SoundManifest, ToSet
<1>3. AreaPaths(manifest) \subseteq paths  BY <1>2 DEF AreaPaths
<1>4. \A i \in DOMAIN manifest.contexts :
        /\ manifest.contexts[i].role # "unknown"
        /\ manifest.contexts[i].read_policy # "unknown"
        /\ manifest.contexts[i].path \in KnownContextPaths(manifest)
        /\ ToSet(manifest.contexts[i].default_children) \subseteq ToSet(DeclaredPaths(manifest))
  <2>1. \A i \in DOMAIN manifest.contexts : manifest.contexts[i] \in ToSet(manifest.contexts)
    BY DEF ToSet
  <2>2. \A c \in ToSet(manifest.contexts) :
          /\ c.role # "unknown" /\ c.read_policy # "unknown"
          /\ ToSet(c.default_children) \subseteq ToSet(DeclaredPaths(manifest))
    BY DEF SoundManifest
  <2>3. \A c \in ToSet(manifest.contexts) : c.path \in KnownContextPaths(manifest)
    BY <2>2 DEF KnownContextPaths
  <2> QED  BY <2>1, <2>2, <2>3
<1>5. ContextPaths(manifest) \subseteq paths  BY <1>4 DEF ContextPaths, SoundManifest
<1>6. ToSet(DeclaredPaths(manifest)) = AreaPaths(manifest) \cup ContextPaths(manifest)
  BY DeclaredSet
<1>7. \A i \in DOMAIN manifest.contexts :
        manifest.contexts[i] \in Entry /\ manifest.contexts[i].path \in ContextPaths(manifest)
  BY <1>1, Elements DEF ContextPaths
<1> QED  BY <1>2, <1>3, <1>4, <1>5, <1>6, <1>7

\* Without repetitions, a path is that of one entry.
LEMMA OneEntry ==
  ASSUME NEW manifest \in Manifest, Repeated(DeclaredPaths(manifest)) = {},
         NEW i \in DOMAIN manifest.contexts, NEW j \in DOMAIN manifest.contexts,
         manifest.contexts[i].path = manifest.contexts[j].path
  PROVE  i = j
<1> DEFINE a == [k \in DOMAIN manifest.areas |-> manifest.areas[k].context]
           c == [k \in DOMAIN manifest.contexts |-> manifest.contexts[k].path]
           s == DeclaredPaths(manifest)
<1>1. /\ a \in Seq(Path) /\ c \in Seq(Path) /\ s = a \o c
      /\ Len(c) = Len(manifest.contexts)
  BY DeclaredSequences
<1>2. DOMAIN manifest.contexts = 1..Len(manifest.contexts)  BY ManifestParts
<1>3. c[i] = c[j]  OBVIOUS
<1> HIDE DEF a, c
<1> HIDE DEF s
<1>4. /\ s \in Seq(Path) /\ Len(s) = Len(a) + Len(c) /\ Len(a) \in Nat /\ Len(c) \in Nat
      /\ \A k \in 1..Len(c) : s[Len(a) + k] = c[k]
  <2>1. Len(a) \in Nat /\ Len(c) \in Nat  BY <1>1
  <2>a. a \in Seq(Path) /\ c \in Seq(Path)  BY <1>1
  <2>2. /\ a \o c \in Seq(Path) /\ Len(a \o c) = Len(a) + Len(c)
        /\ \A k \in 1..Len(c) : (a \o c)[Len(a) + k] = c[k]
    BY <2>a, Concatenation
  <2> QED  BY <1>1, <2>1, <2>2
<1>5. DOMAIN s = 1..(Len(a) + Len(c))  BY <1>4
<1>6. i \in 1..Len(c) /\ j \in 1..Len(c)  BY <1>1, <1>2
<1>7. /\ Len(a) + i \in DOMAIN s /\ Len(a) + j \in DOMAIN s
      /\ s[Len(a) + i] = s[Len(a) + j]
  BY <1>3, <1>4, <1>5, <1>6
<1>8. \A k, l \in DOMAIN s : s[k] = s[l] => ~(k < l)
  <2>1. SUFFICES ASSUME NEW k \in DOMAIN s, NEW l \in DOMAIN s, s[k] = s[l], k < l
                 PROVE  FALSE
    OBVIOUS
  <2>2. k \in 1..(l - 1)  BY <1>4, <1>5, <2>1
  <2>3. s[l] \in Repeated(s)  BY <2>1, <2>2 DEF Repeated
  <2> QED  BY <2>3 DEF s
<1> QED  BY <1>4, <1>6, <1>7, <1>8

\* The defaults: global.md, then the default files.
LEMMA DirectSequence ==
  ASSUME NEW manifest \in Manifest
  PROVE  LET s == DirectDefaults(manifest)
             f == manifest.default_files
         IN  /\ s \in Seq(Path) /\ Len(s) = 1 + Len(f) /\ s[1] = Global
             /\ \A i \in DOMAIN f : s[1 + i] = f[i]
             /\ \A k \in DOMAIN s : k = 1 \/ (k - 1 \in DOMAIN f /\ s[k] = f[k - 1])
             /\ ToSet(s) = {Global} \cup ToSet(f)
<1> DEFINE s == DirectDefaults(manifest)
           f == manifest.default_files
           g == <<Global>>
<1>1. f \in Seq(Path) /\ s = g \o f  BY ManifestFields DEF DirectDefaults
<1>2. g \in Seq(Path) /\ Len(g) = 1 /\ g[1] = Global  BY PathAssumption
<1> HIDE DEF s, f, g
<1>3. /\ s \in Seq(Path) /\ Len(s) = 1 + Len(f) /\ s[1] = g[1]
      /\ \A i \in 1..Len(f) : s[1 + i] = f[i]
  <2>1. f \in Seq(Path) /\ g \in Seq(Path)  BY <1>1, <1>2
  <2>2. /\ g \o f \in Seq(Path) /\ Len(g \o f) = Len(g) + Len(f)
        /\ \A i \in 1..Len(g) : (g \o f)[i] = g[i]
        /\ \A i \in 1..Len(f) : (g \o f)[Len(g) + i] = f[i]
    BY <2>1, Concatenation
  <2>3. s = g \o f /\ Len(g) = 1 /\ 1 \in 1..1  BY <1>1, <1>2
  <2> HIDE DEF s, g
  <2> QED  BY <2>2, <2>3
<1>4. DOMAIN s = 1..(1 + Len(f)) /\ DOMAIN f = 1..Len(f) /\ Len(f) \in Nat
  BY <1>1, <1>3
<1>5. ASSUME NEW k \in DOMAIN s, k # 1 PROVE k - 1 \in DOMAIN f /\ s[k] = f[k - 1]
  <2>1. k - 1 \in 1..Len(f) /\ k = 1 + (k - 1)  BY <1>4, <1>5
  <2> QED  BY <1>3, <1>4, <2>1
<1>6. ToSet(s) = {Global} \cup ToSet(f)
  <2>1. ASSUME NEW x \in ToSet(s) PROVE x \in {Global} \cup ToSet(f)
    BY <1>2, <1>3, <1>5, <2>1, SMTT(30) DEF ToSet
  <2>2. 1 \in DOMAIN s /\ \A i \in DOMAIN f : 1 + i \in DOMAIN s  BY <1>4
  <2>3. Global \in ToSet(s)  BY <1>2, <1>3, <2>2 DEF ToSet
  <2>4. ASSUME NEW i \in DOMAIN f PROVE f[i] \in ToSet(s)
    BY <1>3, <1>4, <2>2, <2>4 DEF ToSet
  <2> QED  BY <2>1, <2>3, <2>4 DEF ToSet
<1>7. /\ s \in Seq(Path) /\ Len(s) = 1 + Len(f) /\ s[1] = Global
      /\ \A i \in DOMAIN f : s[1 + i] = f[i]
      /\ \A k \in DOMAIN s : k = 1 \/ (k - 1 \in DOMAIN f /\ s[k] = f[k - 1])
  BY <1>2, <1>3, <1>4, <1>5
<1> QED  BY <1>6, <1>7 DEF s, f

\* t is s with one path for the other.
Redirected(s, t, from, to) ==
  /\ s \in Seq(Path) /\ t \in Seq(Path) /\ Len(t) = Len(s)
  /\ \A i \in DOMAIN s : t[i] = Redirect(s[i], from, to)

LEMMA RedirectedSets ==
  ASSUME NEW s, NEW t, NEW from, NEW to, Redirected(s, t, from, to)
  PROVE  /\ DOMAIN t = DOMAIN s
         /\ ToSet(t) = {Redirect(x, from, to) : x \in ToSet(s)}
         /\ to \notin ToSet(s) /\ Repeated(s) = {} => Repeated(t) = {}
<1>1. DOMAIN t = DOMAIN s /\ DOMAIN s = 1..Len(s) /\ Len(s) \in Nat  BY DEF Redirected
<1>2. ToSet(t) = {Redirect(x, from, to) : x \in ToSet(s)}
  BY <1>1 DEF Redirected, ToSet
<1>3. ASSUME to \notin ToSet(s), Repeated(s) = {}, NEW x \in Repeated(t) PROVE FALSE
  <2>1. PICK i \in DOMAIN t : \E k \in 1..(i - 1) : t[k] = t[i]  BY <1>3 DEF Repeated
  <2>2. PICK k \in 1..(i - 1) : t[k] = t[i]  BY <2>1
  <2>3. i \in DOMAIN s /\ k \in DOMAIN s  BY <1>1, <2>1, <2>2
  <2>4. Redirect(s[k], from, to) = Redirect(s[i], from, to)
    BY <2>2, <2>3 DEF Redirected
  <2>5. s[k] # to /\ s[i] # to  BY <1>3, <2>3 DEF ToSet
  <2>6. s[k] = s[i]  BY <2>4, <2>5 DEF Redirect
  <2>7. s[i] \in Repeated(s)  BY <2>2, <2>3, <2>6 DEF Repeated
  <2> QED  BY <1>3, <2>7
<1> QED  BY <1>1, <1>2, <1>3

\* What replaceContextManifestPath makes of the sequences of the manifest.
LEMMA ReplacedSequences ==
  ASSUME NEW manifest \in Manifest, NEW from \in Path, NEW to \in Path
  PROVE  LET after == ReplacePath(manifest, from, to)
         IN  /\ Redirected(DeclaredPaths(manifest), DeclaredPaths(after), from, to)
             /\ Redirected(manifest.default_files, after.default_files, from, to)
             /\ from # Global =>
                  Redirected(DirectDefaults(manifest), DirectDefaults(after), from, to)
             /\ \A i \in DOMAIN manifest.contexts :
                  Redirected(manifest.contexts[i].default_children,
                             after.contexts[i].default_children, from, to)
<1> DEFINE after == ReplacePath(manifest, from, to)
           R(x) == Redirect(x, from, to)
<1>1. /\ after \in Manifest
      /\ DOMAIN after.areas = DOMAIN manifest.areas
      /\ DOMAIN after.contexts = DOMAIN manifest.contexts
      /\ \A i \in DOMAIN manifest.areas : after.areas[i].context = R(manifest.areas[i].context)
      /\ \A i \in DOMAIN manifest.contexts :
           after.contexts[i] = RedirectEntry(manifest.contexts[i], from, to)
      /\ after.default_files = RedirectAll(manifest.default_files, from, to)
  BY ReplacedManifest
<1>2. /\ manifest.contexts \in Seq(Entry) /\ manifest.default_files \in Seq(Path)
  BY ManifestFields
<1> HIDE DEF after
<1>3. Redirected(manifest.default_files, after.default_files, from, to)
  BY <1>1, <1>2, RedirectedSequence, SMTT(30) DEF Redirected
<1>4. \A i \in DOMAIN manifest.contexts :
        /\ manifest.contexts[i] \in Entry
        /\ after.contexts[i].path = R(manifest.contexts[i].path)
  BY <1>1, <1>2, Elements, RedirectedEntryFields
<1>5. \A i \in DOMAIN manifest.contexts :
        Redirected(manifest.contexts[i].default_children,
                   after.contexts[i].default_children, from, to)
  <2>1. ASSUME NEW i \in DOMAIN manifest.contexts
        PROVE  Redirected(manifest.contexts[i].default_children,
                          after.contexts[i].default_children, from, to)
    <3>1. manifest.contexts[i].default_children \in Seq(Path)  BY <1>4, <2>1 DEF Entry
    <3>2. after.contexts[i].default_children
            = RedirectAll(manifest.contexts[i].default_children, from, to)
      BY <1>1, <1>4, <2>1, RedirectedEntryFields
    <3>3. /\ after.contexts[i].default_children \in Seq(Path)
          /\ Len(after.contexts[i].default_children)
               = Len(manifest.contexts[i].default_children)
      BY <3>1, <3>2, RedirectedSequence
    <3>4. \A j \in DOMAIN manifest.contexts[i].default_children :
            after.contexts[i].default_children[j]
              = R(manifest.contexts[i].default_children[j])
      BY <3>1, <3>2, RedirectedSequence
    <3> QED  BY <3>1, <3>3, <3>4 DEF Redirected
  <2> QED  BY <2>1
<1>6. ASSUME from # Global
      PROVE  Redirected(DirectDefaults(manifest), DirectDefaults(after), from, to)
  <2> DEFINE s == DirectDefaults(manifest)
             t == DirectDefaults(after)
             f == manifest.default_files
             g == after.default_files
  <2>1. /\ s \in Seq(Path) /\ Len(s) = 1 + Len(f) /\ s[1] = Global
        /\ \A k \in DOMAIN s : k = 1 \/ (k - 1 \in DOMAIN f /\ s[k] = f[k - 1])
    BY DirectSequence
  <2>2. /\ t \in Seq(Path) /\ Len(t) = 1 + Len(g) /\ t[1] = Global
        /\ \A i \in DOMAIN g : t[1 + i] = g[i]
    BY <1>1, DirectSequence
  <2>3. Redirected(f, g, from, to)  BY <1>3
  <2> HIDE DEF s, t, f, g
  <2>4. Len(g) = Len(f) /\ DOMAIN g = DOMAIN f /\ \A i \in DOMAIN f : g[i] = R(f[i])
    BY <2>3, RedirectedSets DEF Redirected
  <2>5. ASSUME NEW k \in DOMAIN s PROVE t[k] = R(s[k])
    <3>1. CASE k = 1  BY <1>6, <2>1, <2>2, <3>1 DEF Redirect
    <3>2. CASE k # 1
      <4>1. k - 1 \in DOMAIN f /\ s[k] = f[k - 1]  BY <2>1, <2>5, <3>2
      <4>2. t[1 + (k - 1)] = g[k - 1]  BY <2>2, <2>4, <4>1
      <4>3. k \in Nat  BY <2>1, <2>5
      <4>4. 1 + (k - 1) = k  BY <4>3
      <4> QED  BY <2>4, <4>1, <4>2, <4>4
    <3> QED  BY <3>1, <3>2
  <2>6. Redirected(s, t, from, to)  BY <2>1, <2>2, <2>4, <2>5 DEF Redirected
  <2> QED  BY <2>6 DEF s, t
<1>7. Redirected(DeclaredPaths(manifest), DeclaredPaths(after), from, to)
  <2> DEFINE a == [i \in DOMAIN manifest.areas |-> manifest.areas[i].context]
             c == [i \in DOMAIN manifest.contexts |-> manifest.contexts[i].path]
             b == [i \in DOMAIN after.areas |-> after.areas[i].context]
             d == [i \in DOMAIN after.contexts |-> after.contexts[i].path]
  <2>1. a \in Seq(Path) /\ c \in Seq(Path) /\ DeclaredPaths(manifest) = a \o c
    BY DeclaredSequences
  <2>2. b \in Seq(Path) /\ d \in Seq(Path) /\ DeclaredPaths(after) = b \o d
    BY <1>1, DeclaredSequences
  <2>3. DOMAIN b = DOMAIN a /\ \A i \in DOMAIN a : b[i] = R(a[i])  BY <1>1
  <2>4. DOMAIN d = DOMAIN c /\ \A i \in DOMAIN c : d[i] = R(c[i])  BY <1>1, <1>4
  <2> HIDE DEF a, b, c, d
  <2>5. /\ DOMAIN a = 1..Len(a) /\ DOMAIN b = 1..Len(b) /\ DOMAIN c = 1..Len(c)
        /\ DOMAIN d = 1..Len(d)
        /\ Len(a) \in Nat /\ Len(b) \in Nat /\ Len(c) \in Nat /\ Len(d) \in Nat
    BY <2>1, <2>2
  <2>6. Len(b) = Len(a) /\ Len(d) = Len(c)
    <3>1. \A i, j \in Nat : 1..i = 1..j => i = j
      <4>1. SUFFICES ASSUME NEW i \in Nat, NEW j \in Nat, 1..i = 1..j PROVE i = j
        OBVIOUS
      <4>2. i = 0 \/ i \in 1..i  OBVIOUS
      <4>3. j = 0 \/ j \in 1..j  OBVIOUS
      <4> QED  BY <4>1, <4>2, <4>3
    <3> QED  BY <2>3, <2>4, <2>5, <3>1
  <2>7. /\ a \o c \in Seq(Path) /\ Len(a \o c) = Len(a) + Len(c)
        /\ \A k \in DOMAIN (a \o c) :
             \/ k \in 1..Len(a) /\ (a \o c)[k] = a[k]
             \/ \E i \in 1..Len(c) : k = Len(a) + i /\ (a \o c)[k] = c[i]
    BY <2>1, Concatenation
  <2>8. /\ b \o d \in Seq(Path) /\ Len(b \o d) = Len(b) + Len(d)
        /\ \A i \in 1..Len(b) : (b \o d)[i] = b[i]
        /\ \A i \in 1..Len(d) : (b \o d)[Len(b) + i] = d[i]
    BY <2>2, Concatenation
  <2>9. ASSUME NEW k \in DOMAIN (a \o c) PROVE (b \o d)[k] = R((a \o c)[k])
    <3>1. CASE k \in 1..Len(a) /\ (a \o c)[k] = a[k]
      <4>1. (b \o d)[k] = b[k]  BY <2>6, <2>8, <3>1
      <4> QED  BY <2>3, <2>5, <3>1, <4>1
    <3>2. CASE \E i \in 1..Len(c) : k = Len(a) + i /\ (a \o c)[k] = c[i]
      <4>1. PICK i \in 1..Len(c) : k = Len(a) + i /\ (a \o c)[k] = c[i]  BY <3>2
      <4>2. (b \o d)[k] = d[i]  BY <2>6, <2>8, <4>1
      <4> QED  BY <2>4, <2>5, <4>1, <4>2
    <3> QED  BY <2>7, <2>9, <3>1, <3>2
  <2> QED  BY <2>1, <2>2, <2>6, <2>7, <2>8, <2>9 DEF Redirected
<1> QED  BY <1>3, <1>5, <1>6, <1>7 DEF after

\* The endpoints of a move: its source is no global.md, its target is new.
Relocates(paths, from, to) ==
  /\ from \in Path \ {Global} /\ to \in Path \ {from}
  /\ \A f \in paths : ~SameKey(f, to)

\* A manifest without an error has none after the move, with the files moved too.
LEMMA ReplacedIsSound ==
  ASSUME NEW manifest \in Manifest, NEW paths, SoundManifest(manifest, paths),
         NEW from, NEW to, Relocates(paths, from, to)
  PROVE  SoundManifest(ReplacePath(manifest, from, to), (paths \ {from}) \cup {to})
<1> DEFINE after == ReplacePath(manifest, from, to)
           R(x) == Redirect(x, from, to)
           moved == (paths \ {from}) \cup {to}
<1>0. from \in Path /\ to \in Path /\ from # Global /\ from # to /\ to \notin paths
  BY DEF Relocates, SameKey
<1>1. /\ after \in Manifest
      /\ DOMAIN after.areas = DOMAIN manifest.areas
      /\ DOMAIN after.contexts = DOMAIN manifest.contexts
      /\ \A i \in DOMAIN manifest.areas :
           /\ after.areas[i].context = R(manifest.areas[i].context)
           /\ after.areas[i].id = manifest.areas[i].id
           /\ after.areas[i].default = manifest.areas[i].default
      /\ \A i \in DOMAIN manifest.contexts :
           after.contexts[i] = RedirectEntry(manifest.contexts[i], from, to)
  BY <1>0, ReplacedManifest
<1>2. /\ Redirected(DeclaredPaths(manifest), DeclaredPaths(after), from, to)
      /\ Redirected(DirectDefaults(manifest), DirectDefaults(after), from, to)
      /\ \A i \in DOMAIN manifest.contexts :
           Redirected(manifest.contexts[i].default_children,
                      after.contexts[i].default_children, from, to)
  BY <1>0, ReplacedSequences
<1>3. /\ AreaPaths(manifest) \cup ContextPaths(manifest) \subseteq paths
      /\ \A i \in DOMAIN manifest.contexts :
           /\ manifest.contexts[i] \in Entry
           /\ manifest.contexts[i].path \in ContextPaths(manifest)
           /\ manifest.contexts[i].role # "unknown"
           /\ manifest.contexts[i].read_policy # "unknown"
           /\ ToSet(manifest.contexts[i].default_children)
                \subseteq AreaPaths(manifest) \cup ContextPaths(manifest)
      /\ \A i \in DOMAIN manifest.areas : manifest.areas[i].context \in paths
  BY SoundPaths
<1>4. ToSet(DeclaredPaths(manifest)) = AreaPaths(manifest) \cup ContextPaths(manifest)
  BY DeclaredSet
<1>5. \A i \in DOMAIN manifest.contexts :
        /\ after.contexts[i].path = R(manifest.contexts[i].path)
        /\ after.contexts[i].role = manifest.contexts[i].role
        /\ after.contexts[i].read_policy = manifest.contexts[i].read_policy
  BY <1>0, <1>1, <1>3, RedirectedEntryFields
<1>6. ToSet(DeclaredPaths(after)) = {R(x) : x \in ToSet(DeclaredPaths(manifest))}
      /\ Repeated(DeclaredPaths(after)) = {}
  BY <1>0, <1>2, <1>3, <1>4, RedirectedSets DEF SoundManifest
<1>7. ToSet(DirectDefaults(after)) = {R(x) : x \in ToSet(DirectDefaults(manifest))}
      /\ Repeated(DirectDefaults(after)) = {}
  BY <1>0, <1>2, RedirectedSets DEF SoundManifest
<1>8. \A i \in DOMAIN manifest.contexts :
        ToSet(after.contexts[i].default_children)
          = {R(x) : x \in ToSet(manifest.contexts[i].default_children)}
  BY <1>2, RedirectedSets
<1>9. \A x \in paths : R(x) \in moved  BY DEF Redirect
<1>a. manifest.areas \in Seq(Area) /\ after.areas \in Seq(Area)  BY <1>1, ManifestFields
<1> HIDE DEF after, moved
<1>10. \A i, j \in DOMAIN after.areas :
         after.areas[i].default /\ after.areas[j].default => ~(j < i)
  BY <1>1 DEF SoundManifest
<1>11. Repeated(Ids(after)) = {}
  <2>1. Ids(after) = Ids(manifest)  BY <1>1 DEF Ids
  <2> QED  BY <2>1 DEF SoundManifest
<1>12. Collisions(ToSet(DeclaredPaths(after))) = {}
  <2>1. SUFFICES ASSUME NEW x \in ToSet(DeclaredPaths(after)),
                        NEW y \in ToSet(DeclaredPaths(after)), x # y, CaseKey[y] = CaseKey[x]
                 PROVE  FALSE
    BY DEF Collisions
  <2>2. PICK a \in ToSet(DeclaredPaths(manifest)) : x = R(a)  BY <1>6, <2>1
  <2>3. PICK b \in ToSet(DeclaredPaths(manifest)) : y = R(b)  BY <1>6, <2>1
  <2>4. a # b /\ a \in paths /\ b \in paths  BY <1>3, <1>4, <2>1, <2>2, <2>3
  <2>5. CaseKey[a] # CaseKey[b]  BY <2>4 DEF SoundManifest, Collisions
  <2>6. CASE a # from /\ b # from  BY <2>1, <2>2, <2>3, <2>5, <2>6 DEF Redirect
  <2>7. CASE a = from
    <3>1. x = to /\ y = b  BY <2>2, <2>3, <2>4, <2>7 DEF Redirect
    <3> QED  BY <2>1, <2>4, <3>1 DEF Relocates, SameKey
  <2>8. CASE b = from
    <3>1. y = to /\ x = a  BY <2>2, <2>3, <2>4, <2>8 DEF Redirect
    <3> QED  BY <2>1, <2>4, <3>1 DEF Relocates, SameKey
  <2> QED  BY <2>6, <2>7, <2>8
<1>13. ToSet(DirectDefaults(after)) \subseteq moved  BY <1>7, <1>9 DEF SoundManifest
<1>14. \A i \in DOMAIN after.contexts : after.contexts[i].path \in moved
  BY <1>1, <1>3, <1>5, <1>9
<1>15. KnownContextPaths(after) \subseteq moved  BY <1>14 DEF KnownContextPaths, ToSet
<1>16. {a.context : a \in ToSet(after.areas)} \subseteq moved
  <2>1. \A i \in DOMAIN after.areas : after.areas[i].context \in moved  BY <1>1, <1>3, <1>9
  <2> QED  BY <2>1 DEF ToSet
<1>17. \A c \in ToSet(after.contexts) : c.role # "unknown" /\ c.read_policy # "unknown"
  BY <1>1, <1>3, <1>5 DEF ToSet
<1>18. \A c \in ToSet(after.contexts) :
         ToSet(c.default_children) \subseteq ToSet(DeclaredPaths(after))
  <2>1. SUFFICES ASSUME NEW i \in DOMAIN after.contexts
                 PROVE  ToSet(after.contexts[i].default_children)
                          \subseteq ToSet(DeclaredPaths(after))
    BY DEF ToSet
  <2>2. ToSet(manifest.contexts[i].default_children) \subseteq ToSet(DeclaredPaths(manifest))
    BY <1>1, <1>3, <1>4
  <2> QED  BY <1>1, <1>6, <1>8, <2>2
<1> QED
  BY <1>6, <1>7, <1>10, <1>11, <1>12, <1>13, <1>15, <1>16, <1>17, <1>18
     DEF SoundManifest, after, moved
(***************************************************************************)
(* The steps of a plan.                                                    *)
(***************************************************************************)
\* Command p has gone on to a point where its record is in order.
GoesWell(p) ==
  /\ DOMAIN memory' = Proc /\ \A q \in Proc \ {p} : memory'[q] = memory[q]
  /\ PlanOK(memory'[p], clock) /\ Unlinked(memory'[p])
  /\ memory'[p].pc # "validate"

LEMMA EndsWell ==
  ASSUME DOMAIN memory = Proc, NEW p \in Proc, NEW result, Ends(p, result)
  PROVE  GoesWell(p)
<1>1. Idle.pc # "validate"  BY DEF Idle
<1> QED  BY <1>1, EndsAt, IdlePlan DEF GoesWell

\* What is declared and loaded without error.
LEMMA LoadedCatalog ==
  ASSUME FilesOK, LiveErrors = {}
  PROVE  /\ ContextFiles(docs) \subseteq Path /\ Collisions(ContextFiles(docs)) = {}
         /\ ValidManifest(toml.manifest, ContextFiles(docs) \ linked)
         /\ ValidManifest(toml.manifest, ContextFiles(docs))
         /\ Registered(toml.manifest, docs)
              = RegisteredContexts(toml.manifest, ContextFiles(docs))
<1> DEFINE usable == ContextFiles(docs) \ linked
<1>1. CatalogErrors(toml.manifest, ContextFiles(docs), linked) = {}  BY DEF LiveErrors, Errors
<1>2. /\ Collisions(ContextFiles(docs)) = {} /\ toml.manifest.parses
      /\ ManifestErrors(toml.manifest, usable) = {}
  BY <1>1, CatalogErrorFree
<1>3. usable \subseteq ContextFiles(docs)  OBVIOUS
<1>4. ManifestErrors(toml.manifest, ContextFiles(docs)) = {}  BY <1>2, <1>3, MoreFiles
<1>5. toml.manifest \in Manifest  BY DEF FilesOK
<1>6. RegisteredContexts(toml.manifest, ContextFiles(docs))
        = RegisteredContexts(toml.manifest, usable)
  BY <1>2, <1>3, <1>5, RegisteredAnyway
<1> QED  BY <1>2, <1>4, <1>5, <1>6 DEF ValidManifest, Registered, UsableFiles, ContextFiles

LEMMA GivesWell ==
  ASSUME PlansOK, NEW p \in Proc, Give(p)
  PROVE  GoesWell(p)
<1>1. PICK r \in Requests : memory' = [memory EXCEPT ![p] = [pc |-> "load", request |-> r]]
  BY DEF Give
<1> DEFINE m == [pc |-> "load", request |-> r]
<1>2. m.pc = "load" /\ "pc" \in DOMAIN m /\ "request" \in DOMAIN m /\ m.request = r
  OBVIOUS
<1> HIDE DEF m
<1>3. PlanOK(m, clock) /\ Unlinked(m)
  BY <1>2 DEF PlanOK, Unlinked, Pcs, Creating, AfterLoad, AfterRead, AfterSource,
              AfterManifest, AfterStage, Complete, OfMoves
<1>4. memory' = [memory EXCEPT ![p] = m]  BY <1>1 DEF m
<1> QED  BY <1>2, <1>3, <1>4 DEF GoesWell, PlansOK

LEMMA LoadsToRegister ==
  ASSUME FilesOK, PlansOK, NEW p \in Proc, LoadForRegister(p)
  PROVE  GoesWell(p)
<1> DEFINE m == memory[p]
           read == [catalog |-> Catalog, identity |-> Identity(toml.manifest, docs)]
           m2 == Knows(m, "capture manifest", read)
<1>1. DOMAIN memory = Proc /\ PlanOK(m, clock) /\ m.pc = "load" /\ m.request.op = "register"
  BY DEF PlansOK, LoadForRegister, At, Request
<1>2. CASE LiveErrors = {} /\ MayRegister(m.request.path) /\ Goes(p, "capture manifest", read)
  <2>1. m.request \in Requests /\ "request" \in DOMAIN m  BY <1>1 DEF PlanOK
  <2>2. /\ memory'[p] = m2
        /\ DOMAIN memory' = Proc /\ \A q \in Proc \ {p} : memory'[q] = memory[q]
    BY <1>1, <1>2, GoesOn
  <2>3. DOMAIN read = {"catalog", "identity"} /\ read["catalog"] = Catalog  OBVIOUS
  <2>k. /\ DOMAIN m2 = DOMAIN m \cup DOMAIN read \cup {"pc"}
        /\ m2.pc = "capture manifest"
        /\ \A k \in DOMAIN read \ {"pc"} : m2[k] = read[k]
        /\ \A k \in DOMAIN m \ (DOMAIN read \cup {"pc"}) : m2[k] = m[k]
    BY DEF Knows, Updated
  <2> HIDE DEF read
  <2> HIDE DEF m, m2
  <2>4. /\ DOMAIN m2 = DOMAIN m \cup {"catalog", "identity", "pc"}
        /\ m2.pc = "capture manifest" /\ m2.catalog = Catalog /\ m2.request = m.request
    BY <2>1, <2>3, <2>k
  <2>5. /\ Catalog.manifest = toml.manifest /\ Catalog.files = ContextFiles(docs)
    BY DEF Catalog
  <2>6. m.request.path \in ContextFiles(docs) \ RegisteredPaths(toml.manifest)
    <3>1. toml.manifest.parses  BY <1>2, LoadedCatalog DEF ValidManifest
    <3> QED  BY <1>2, <3>1 DEF MayRegister, UnregisteredFiles
  <2>7. LoadOK(m2)
    BY <1>1, <1>2, <2>1, <2>4, <2>5, <2>6, LoadedCatalog DEF LoadOK
  <2>8. PlanOK(m2, clock) /\ Unlinked(m2)
    BY <1>1, <2>1, <2>4, <2>7
       DEF PlanOK, Unlinked, Pcs, Creating, AfterLoad, AfterRead, AfterSource,
           AfterManifest, AfterStage, Complete, OfMoves
  <2> QED  BY <2>2, <2>4, <2>8 DEF GoesWell
<1>3. CASE Ends(p, "refused")  BY <1>1, <1>3, EndsWell
<1> QED  BY <1>2, <1>3 DEF LoadForRegister, Request

LEMMA LoadsToMove ==
  ASSUME FilesOK, PlansOK, NEW p \in Proc, LoadForMove(p)
  PROVE  GoesWell(p)
<1> DEFINE m == memory[p]
           read == [catalog |-> Catalog, identity |-> Identity(toml.manifest, docs)]
           m2 == Knows(m, "read", read)
<1>1. DOMAIN memory = Proc /\ PlanOK(m, clock) /\ m.pc = "load" /\ m.request.op = "move"
  BY DEF PlansOK, LoadForMove, At, Request
<1>2. CASE /\ LiveErrors = {} /\ MayMove(m.request.path, m.request.to)
           /\ Goes(p, "read", read)
  <2>1. m.request \in Requests /\ "request" \in DOMAIN m  BY <1>1 DEF PlanOK
  <2>2. /\ memory'[p] = m2
        /\ DOMAIN memory' = Proc /\ \A q \in Proc \ {p} : memory'[q] = memory[q]
    BY <1>1, <1>2, GoesOn
  <2>3. DOMAIN read = {"catalog", "identity"} /\ read["catalog"] = Catalog  OBVIOUS
  <2>k. /\ DOMAIN m2 = DOMAIN m \cup DOMAIN read \cup {"pc"}
        /\ m2.pc = "read"
        /\ \A k \in DOMAIN read \ {"pc"} : m2[k] = read[k]
        /\ \A k \in DOMAIN m \ (DOMAIN read \cup {"pc"}) : m2[k] = m[k]
    BY DEF Knows, Updated
  <2> HIDE DEF read
  <2> HIDE DEF m, m2
  <2>4. /\ DOMAIN m2 = DOMAIN m \cup {"catalog", "identity", "pc"}
        /\ m2.pc = "read" /\ m2.catalog = Catalog /\ m2.request = m.request
    BY <2>1, <2>3, <2>k
  <2>5. /\ Catalog.manifest = toml.manifest /\ Catalog.files = ContextFiles(docs)
    BY DEF Catalog
  <2>6. Endpoints(toml.manifest, ContextFiles(docs), m.request)
    BY <1>2, LoadedCatalog DEF MayMove, Endpoints
  <2>7. LoadOK(m2)
    BY <1>1, <1>2, <2>1, <2>4, <2>5, <2>6, LoadedCatalog DEF LoadOK
  <2>8. PlanOK(m2, clock) /\ Unlinked(m2)
    BY <1>1, <2>1, <2>4, <2>7
       DEF PlanOK, Unlinked, Pcs, Creating, AfterLoad, AfterRead, AfterSource,
           AfterManifest, AfterStage, Complete, OfMoves
  <2> QED  BY <2>2, <2>4, <2>8 DEF GoesWell
<1>3. CASE Ends(p, "refused")  BY <1>1, <1>3, EndsWell
<1> QED  BY <1>2, <1>3 DEF LoadForMove, Request

LEMMA ReadsMarkdown ==
  ASSUME FilesOK, PlansOK, NEW p \in Proc, ReadMarkdown(p)
  PROVE  GoesWell(p)
<1> DEFINE m == memory[p]
           known == m.catalog.files
           read == [read |-> [f \in known |-> docs[f]],
                    makes |-> {Parent[m.request.to]} \ directories]
           m2 == Knows(m, "capture source", read)
<1>1. DOMAIN memory = Proc /\ PlanOK(m, clock) /\ m.pc = "read"
  BY DEF PlansOK, ReadMarkdown, At
<1>2. CASE known \subseteq ContextFiles(docs) \ linked /\ Goes(p, "capture source", read)
  <2>1. /\ m.request \in Requests /\ "request" \in DOMAIN m /\ LoadOK(m)
        /\ m.request.op = "move"
    BY <1>1 DEF PlanOK, AfterLoad, OfMoves
  <2>2. /\ memory'[p] = m2
        /\ DOMAIN memory' = Proc /\ \A q \in Proc \ {p} : memory'[q] = memory[q]
    BY <1>1, <1>2, GoesOn
  <2>3. DOMAIN read = {"read", "makes"} /\ read["read"] = [f \in known |-> docs[f]]  OBVIOUS
  <2>k. /\ DOMAIN m2 = DOMAIN m \cup DOMAIN read \cup {"pc"}
        /\ m2.pc = "capture source"
        /\ \A k \in DOMAIN read \ {"pc"} : m2[k] = read[k]
        /\ \A k \in DOMAIN m \ (DOMAIN read \cup {"pc"}) : m2[k] = m[k]
    BY DEF Knows, Updated
  <2> HIDE DEF read
  <2>0. {"request", "catalog", "identity"} \subseteq DOMAIN m  BY <2>1 DEF LoadOK
  <2> HIDE DEF m, m2
  <2>4. /\ DOMAIN m2 = DOMAIN m \cup {"read", "makes", "pc"}
        /\ m2.pc = "capture source" /\ m2.read = [f \in known |-> docs[f]]
        /\ m2.request = m.request /\ m2.catalog = m.catalog
    BY <2>0, <2>3, <2>k
  <2>5. /\ [f \in known |-> docs[f]] \in [known -> Doc]
        /\ \A f \in known : Exists(docs[f])
    BY <1>2 DEF ContextFiles, FilesOK
  <2>6. LoadOK(m2)  BY <2>1, <2>4 DEF LoadOK
  <2>7. ReadOK(m2)  BY <2>4, <2>5 DEF ReadOK
  <2>8. PlanOK(m2, clock) /\ Unlinked(m2)
    BY <1>1, <2>1, <2>4, <2>6, <2>7
       DEF PlanOK, Unlinked, Pcs, Creating, AfterLoad, AfterRead, AfterSource,
           AfterManifest, AfterStage, Complete, OfMoves
  <2> QED  BY <2>2, <2>4, <2>8 DEF GoesWell
<1>3. CASE Ends(p, "unable to read Context Markdown")  BY <1>1, <1>3, EndsWell
<1> QED  BY <1>2, <1>3 DEF ReadMarkdown, Request

LEMMA CapturesSource ==
  ASSUME FilesOK, PlansOK, NEW p \in Proc, CaptureSource(p)
  PROVE  GoesWell(p)
<1> DEFINE m == memory[p]
           from == m.request.path
           read == [source |-> docs[from]]
           m2 == Knows(m, "capture manifest", read)
<1>1. DOMAIN memory = Proc /\ PlanOK(m, clock) /\ m.pc = "capture source"
  BY DEF PlansOK, CaptureSource, At
<1>2. CASE /\ Exists(docs[from]) /\ from \notin linked /\ SourceAsRead(p)
           /\ Goes(p, "capture manifest", read)
  <2>1. /\ m.request \in Requests /\ "request" \in DOMAIN m /\ LoadOK(m)
        /\ m.request.op = "move" /\ ReadOK(m)
    BY <1>1 DEF PlanOK, AfterLoad, AfterRead, OfMoves
  <2>2. /\ memory'[p] = m2
        /\ DOMAIN memory' = Proc /\ \A q \in Proc \ {p} : memory'[q] = memory[q]
    BY <1>1, <1>2, GoesOn
  <2>3. DOMAIN read = {"source"} /\ read["source"] = docs[from]  OBVIOUS
  <2>k. /\ DOMAIN m2 = DOMAIN m \cup DOMAIN read \cup {"pc"}
        /\ m2.pc = "capture manifest"
        /\ \A k \in DOMAIN read \ {"pc"} : m2[k] = read[k]
        /\ \A k \in DOMAIN m \ (DOMAIN read \cup {"pc"}) : m2[k] = m[k]
    BY DEF Knows, Updated
  <2> HIDE DEF read
  <2>0. {"request", "catalog", "identity", "read", "makes"} \subseteq DOMAIN m
    BY <2>1 DEF LoadOK, ReadOK
  <2>5. Content(docs[from]) = Content(m.read[from])  BY <1>2 DEF SourceAsRead, Request
  <2> HIDE DEF m, m2
  <2>4. /\ DOMAIN m2 = DOMAIN m \cup {"source", "pc"}
        /\ m2.pc = "capture manifest" /\ m2.source = docs[from]
        /\ m2.request = m.request /\ m2.catalog = m.catalog /\ m2.read = m.read
    BY <2>0, <2>3, <2>k
  <2>5a. docs[from] \in Doc /\ docs[from].stamp <= clock
    BY <1>2, <2>1, RequestFields DEF FilesOK, DocOK
  <2>6. LoadOK(m2)  BY <2>1, <2>4 DEF LoadOK
  <2>7. ReadOK(m2)  BY <2>0, <2>1, <2>4 DEF ReadOK
  <2>9. SourceOK(m2, clock)  BY <1>2, <2>4, <2>5, <2>5a DEF SourceOK
  <2>10. Unlinked(m2)  BY <1>2, <2>4 DEF Unlinked
  <2>8. PlanOK(m2, clock)
    BY <1>1, <2>1, <2>4, <2>6, <2>7, <2>9
       DEF PlanOK, Pcs, Creating, AfterLoad, AfterRead, AfterSource,
           AfterManifest, AfterStage, Complete, OfMoves
  <2> QED  BY <2>2, <2>4, <2>8, <2>10 DEF GoesWell
<1>3. CASE Ends(p, "Context source changed while planning move")  BY <1>1, <1>3, EndsWell
<1> QED  BY <1>2, <1>3 DEF CaptureSource, Request
-----------------------------------------------------------------------------
\* The documents of a move's plan: the source goes, the others exist.
LEMMA AfterDocuments ==
  ASSUME NEW m, m.request \in Requests, m.request.op = "move", LoadOK(m), ReadOK(m)
  PROVE  /\ m.request.path \in m.catalog.files /\ m.request.to \notin m.catalog.files
         /\ ReferringOf(m) \subseteq m.catalog.files \ {m.request.path}
         /\ DOMAIN AfterOf(m) = {m.request.path, m.request.to} \cup ReferringOf(m)
         /\ DOMAIN AfterOf(m) \subseteq Path
         /\ AfterOf(m) \in [DOMAIN AfterOf(m) -> Doc]
         /\ AfterOf(m)[m.request.path] = Absent
         /\ AfterOf(m)[m.request.to]
              = PatchLinks(m.read[m.request.path], m.request.path, m.request.to)
         /\ \A f \in ReferringOf(m) :
              AfterOf(m)[f] = PatchLinks(m.read[f], m.request.path, m.request.to)
         /\ \A f \in DOMAIN AfterOf(m) \ {m.request.path} : Exists(AfterOf(m)[f])
<1> DEFINE r == m.request
<1>1. r.path \in Path /\ r.to \in Path /\ ~SameKey(r.path, r.to) /\ r.path # r.to
  BY RequestFields
<1>2. /\ m.catalog.files \subseteq Path
      /\ Endpoints(m.catalog.manifest, m.catalog.files, r)
  BY DEF LoadOK
<1>3. r.path \in m.catalog.files
  BY <1>2, RegisteredAmongFiles DEF Endpoints
<1>4. r.to \notin m.catalog.files
  BY <1>2 DEF Endpoints, SameKey
<1>5. /\ m.read \in [m.catalog.files -> Doc]
      /\ \A f \in m.catalog.files : Exists(m.read[f])
  BY DEF ReadOK
<1>6. ReferringOf(m) \subseteq m.catalog.files \ {r.path}
  BY <1>5 DEF ReferringOf
<1>7. DOMAIN AfterOf(m) = {r.path, r.to} \cup ReferringOf(m)
  BY DEF AfterOf
<1>8. \A f \in {r.path} \cup ReferringOf(m) :
        /\ m.read[f] \in Doc /\ Exists(m.read[f])
        /\ PatchLinks(m.read[f], r.path, r.to) \in Doc
        /\ Exists(PatchLinks(m.read[f], r.path, r.to))
  BY <1>1, <1>3, <1>5, <1>6, PatchedDocument, SMTT(30)
<1>9. /\ AfterOf(m)[r.path] = Absent
      /\ AfterOf(m)[r.to] = PatchLinks(m.read[r.path], r.path, r.to)
      /\ \A f \in ReferringOf(m) : AfterOf(m)[f] = PatchLinks(m.read[f], r.path, r.to)
  BY <1>1, <1>4, <1>6 DEF AfterOf
<1>10. \A f \in DOMAIN AfterOf(m) :
         AfterOf(m)[f] \in Doc /\ (f # r.path => Exists(AfterOf(m)[f]))
  BY <1>7, <1>8, <1>9, AbsentIsNoDocument
<1>11. AfterOf(m) \in [DOMAIN AfterOf(m) -> Doc]  BY <1>10 DEF AfterOf
<1> QED  BY <1>1, <1>2, <1>3, <1>4, <1>6, <1>7, <1>9, <1>10, <1>11

LEMMA CapturesManifest ==
  ASSUME FilesOK, PlansOK, NEW p \in Proc, CaptureManifest(p)
  PROVE  GoesWell(p)
<1> DEFINE m == memory[p]
           read == [toml |-> toml]
           m2 == Knows(m, "stage", read)
<1>1. DOMAIN memory = Proc /\ PlanOK(m, clock) /\ Unlinked(m) /\ m.pc = "capture manifest"
  BY DEF PlansOK, CaptureManifest, At
<1>2. CASE toml.manifest = m.catalog.manifest /\ Goes(p, "stage", read)
  <2>1. /\ m.request \in Requests /\ "request" \in DOMAIN m /\ LoadOK(m)
        /\ m.request.op = "move" => ReadOK(m) /\ SourceOK(m, clock)
    BY <1>1 DEF PlanOK, AfterLoad, AfterRead, AfterSource
  <2>2. /\ memory'[p] = m2
        /\ DOMAIN memory' = Proc /\ \A q \in Proc \ {p} : memory'[q] = memory[q]
    BY <1>1, <1>2, GoesOn
  <2>3. DOMAIN read = {"toml"} /\ read["toml"] = toml  OBVIOUS
  <2>4. /\ DOMAIN m2 = DOMAIN m \cup DOMAIN read \cup {"pc"}
        /\ m2.pc = "stage"
        /\ \A k \in DOMAIN read \ {"pc"} : m2[k] = read[k]
        /\ \A k \in DOMAIN m \ (DOMAIN read \cup {"pc"}) : m2[k] = m[k]
    BY DEF Knows, Updated
  <2> HIDE DEF read
  <2>5. toml.stamp \in 0..clock  BY DEF FilesOK
  <2> HIDE DEF m, m2
  <2>6. {"request", "catalog", "identity"} \subseteq DOMAIN m  BY <2>1 DEF LoadOK
  <2>7. /\ m2.toml = toml /\ "toml" \in DOMAIN m2
        /\ m2.request = m.request /\ m2.catalog = m.catalog /\ m2.identity = m.identity
        /\ {"request", "catalog", "identity"} \subseteq DOMAIN m2
    BY <2>3, <2>4, <2>6
  <2>8. LoadOK(m2)  BY <2>1, <2>7 DEF LoadOK
  <2>9. ASSUME m.request.op = "move"
        PROVE  ReadOK(m2) /\ SourceOK(m2, clock) /\ Unlinked(m2)
    <3>1. {"read", "makes", "source"} \subseteq DOMAIN m  BY <2>1, <2>9 DEF ReadOK, SourceOK
    <3>2. /\ m2.read = m.read /\ m2.source = m.source
          /\ {"read", "makes", "source"} \subseteq DOMAIN m2
      BY <3>1, <2>3, <2>4
    <3>3. ReadOK(m2)  BY <2>1, <2>7, <2>9, <3>2 DEF ReadOK
    <3>4. SourceOK(m2, clock)  BY <2>1, <2>7, <2>9, <3>2 DEF SourceOK
    <3>5. docs[m.request.path] = m.source => m.request.path \notin linked
      BY <1>1, <2>9 DEF Unlinked, AfterSource, AfterManifest, AfterStage, Complete
    <3>6. Unlinked(m2)  BY <2>4, <2>7, <3>2, <3>5 DEF Unlinked
    <3> QED  BY <3>3, <3>4, <3>6
  <2>10. m.request.op # "move" => Unlinked(m2)  BY <2>4, <2>7 DEF Unlinked
  <2>11. TomlOK(m2, clock)  BY <1>2, <2>5, <2>7 DEF TomlOK
  <2>12. PlanOK(m2, clock)
    BY <2>1, <2>4, <2>7, <2>8, <2>9, <2>11
       DEF PlanOK, Pcs, Creating, AfterLoad, AfterRead, AfterSource,
           AfterManifest, AfterStage, Complete, OfMoves
  <2> QED  BY <2>2, <2>4, <2>9, <2>10, <2>12 DEF GoesWell
<1>3. CASE Ends(p, "Context Catalog changed while planning")  BY <1>1, <1>3, EndsWell
<1> QED  BY <1>2, <1>3 DEF CaptureManifest, ManifestAsLoaded

LEMMA StagesRegister ==
  ASSUME FilesOK, PlansOK, NEW p \in Proc, StageRegister(p)
  PROVE  GoesWell(p)
<1> DEFINE m == memory[p]
           after == AppendContext(m.toml.manifest, m.request)
           read == [before |-> <<>>, after |-> <<>>, makes |-> {},
                    manifest_after |-> after, issues |-> {},
                    identity_after |-> Identity(after, docs)]
           m2 == Knows(m, "execute", read)
<1>1. /\ DOMAIN memory = Proc /\ PlanOK(m, clock) /\ m.pc = "stage"
      /\ m.request.op = "register"
  BY DEF PlansOK, StageRegister, At, Request
<1>2. CASE Goes(p, "execute", read)
  <2>1. /\ m.request \in Requests /\ "request" \in DOMAIN m /\ LoadOK(m) /\ TomlOK(m, clock)
    BY <1>1 DEF PlanOK, AfterLoad, AfterRead, AfterSource, AfterManifest
  <2>2. /\ memory'[p] = m2
        /\ DOMAIN memory' = Proc /\ \A q \in Proc \ {p} : memory'[q] = memory[q]
    BY <1>1, <1>2, GoesOn
  <2>3. /\ DOMAIN read = {"before", "after", "makes", "manifest_after", "issues",
                          "identity_after"}
        /\ read["before"] = <<>> /\ read["after"] = <<>> /\ read["manifest_after"] = after
    OBVIOUS
  <2>4. /\ DOMAIN m2 = DOMAIN m \cup DOMAIN read \cup {"pc"}
        /\ m2.pc = "execute"
        /\ \A k \in DOMAIN read \ {"pc"} : m2[k] = read[k]
        /\ \A k \in DOMAIN m \ (DOMAIN read \cup {"pc"}) : m2[k] = m[k]
    BY DEF Knows, Updated
  <2>5. m.request.op = "register"  BY <1>1
  <2> HIDE DEF read, m2
  <2>6. {"request", "catalog", "identity", "toml"} \subseteq DOMAIN m
    BY <2>1 DEF LoadOK, TomlOK
  <2>7. /\ m2.before = <<>> /\ m2.after = <<>> /\ m2.manifest_after = after
        /\ m2.request = m.request /\ m2.catalog = m.catalog /\ m2.identity = m.identity
        /\ m2.toml = m.toml
        /\ {"request", "catalog", "identity", "toml", "before", "after", "makes",
            "manifest_after", "issues", "identity_after"} \subseteq DOMAIN m2
    BY <2>3, <2>4, <2>6
  <2>8. LoadOK(m2)  BY <2>1, <2>7 DEF LoadOK
  <2>9. TomlOK(m2, clock)  BY <2>1, <2>7 DEF TomlOK
  <2>10. StagedOK(m2)  BY <2>5, <2>7 DEF StagedOK, ManifestOf
  <2>11. CompleteOK(m2, clock)  BY <2>5, <2>7 DEF CompleteOK
  <2>12. DOMAIN m2.before = {}  BY <2>7
  <2>13. Unlinked(m2)  BY <2>5, <2>7, <2>12 DEF Unlinked
  <2> HIDE DEF m, after
  <2>14. PlanOK(m2, clock)
    BY <2>1, <2>4, <2>5, <2>7, <2>8, <2>9, <2>10, <2>11
       DEF PlanOK, Pcs, Creating, AfterLoad, AfterRead, AfterSource,
           AfterManifest, AfterStage, Complete, OfMoves
  <2> QED  BY <2>2, <2>4, <2>13, <2>14 DEF GoesWell
<1>3. CASE Ends(p, "refused")  BY <1>1, <1>3, EndsWell
<1> QED  BY <1>2, <1>3 DEF StageRegister, Request

LEMMA PlannedIsAfter ==
  ASSUME NEW p
  PROVE  /\ PlannedAfter(p) = AfterOf(memory[p])
         /\ memory[p].request.op = "move" => ManifestAfter(p) = ManifestOf(memory[p])
  BY DEF PlannedAfter, AfterOf, ReferringOf, ManifestAfter, ManifestOf, Request

LEMMA StagesMove ==
  ASSUME FilesOK, PlansOK, NEW p \in Proc, StageMove(p)
  PROVE  GoesWell(p)
<1> DEFINE m == memory[p]
           read == [after |-> PlannedAfter(p), manifest_after |-> ManifestAfter(p),
                    issues |-> Issues(StagedMove(p)),
                    can_apply |-> NowhereMentioned(Request(p).path),
                    identity_after |-> Identity(ManifestAfter(p), StagedMove(p))]
           m2 == Knows(m, "capture referring", read)
<1>1. /\ DOMAIN memory = Proc /\ PlanOK(m, clock) /\ Unlinked(m) /\ m.pc = "stage"
      /\ m.request.op = "move"
  BY DEF PlansOK, StageMove, At, Request
<1>2. CASE StagedMoveAccepted(p) /\ Goes(p, "capture referring", read)
  <2>1. /\ m.request \in Requests /\ "request" \in DOMAIN m /\ LoadOK(m) /\ TomlOK(m, clock)
        /\ ReadOK(m) /\ SourceOK(m, clock)
    BY <1>1 DEF PlanOK, AfterLoad, AfterRead, AfterSource, AfterManifest
  <2>2. /\ memory'[p] = m2
        /\ DOMAIN memory' = Proc /\ \A q \in Proc \ {p} : memory'[q] = memory[q]
    BY <1>1, <1>2, GoesOn
  <2>3. /\ DOMAIN read = {"after", "manifest_after", "issues", "can_apply",
                          "identity_after"}
        /\ read["after"] = PlannedAfter(p) /\ read["manifest_after"] = ManifestAfter(p)
    OBVIOUS
  <2>4. /\ DOMAIN m2 = DOMAIN m \cup DOMAIN read \cup {"pc"}
        /\ m2.pc = "capture referring"
        /\ \A k \in DOMAIN read \ {"pc"} : m2[k] = read[k]
        /\ \A k \in DOMAIN m \ (DOMAIN read \cup {"pc"}) : m2[k] = m[k]
    BY DEF Knows, Updated
  <2>5. m.request.op = "move"  BY <1>1
  <2>5a. PlannedAfter(p) = AfterOf(m) /\ ManifestAfter(p) = ManifestOf(m)
    BY <2>5, PlannedIsAfter
  <2>5b. docs[m.request.path] = m.source => m.request.path \notin linked
    BY <1>1 DEF Unlinked, AfterSource, AfterManifest, AfterStage, Complete
  <2> HIDE DEF read, m2
  <2> HIDE DEF m
  <2>5c. m.request.path # Global
    <3> DEFINE after == ManifestOf(m)
               staged == Updated(docs, AfterOf(m))
    <3>1. Errors(after, staged) = {}
      BY <1>2, <2>5a DEF StagedMoveAccepted, StagedMove, Overlay
    <3>2. after \in Manifest  BY <2>1, PlannedManifest DEF TomlOK
    <3>3. AfterOf(m)[m.request.path] = Absent /\ m.request.path \in DOMAIN AfterOf(m)
      BY <2>1, <2>5, AfterDocuments
    <3>4. ~Exists(staged[m.request.path])  BY <3>3, AbsentIsNoDocument DEF Updated
    <3> HIDE DEF after, staged
    <3>5. SoundManifest(after, ContextFiles(staged) \ linked)
      BY <3>1, CatalogErrorFree, ErrorFree DEF Errors
    <3>6. Global \in ContextFiles(staged)  BY <3>2, <3>5, DirectSequence DEF SoundManifest
    <3> QED  BY <3>4, <3>6 DEF ContextFiles
  <2>6. {"request", "catalog", "identity", "toml", "read", "makes", "source"}
          \subseteq DOMAIN m
    BY <2>1 DEF LoadOK, TomlOK, ReadOK, SourceOK
  <2>7. /\ m2.after = AfterOf(m) /\ m2.manifest_after = ManifestOf(m)
        /\ m2.request = m.request /\ m2.catalog = m.catalog /\ m2.identity = m.identity
        /\ m2.toml = m.toml /\ m2.read = m.read /\ m2.source = m.source
        /\ {"request", "catalog", "identity", "toml", "read", "makes", "source",
            "after", "manifest_after", "issues", "identity_after"} \subseteq DOMAIN m2
    BY <2>3, <2>4, <2>5a, <2>6, ZenonT(60)
  <2>8. LoadOK(m2)  BY <2>1, <2>7 DEF LoadOK
  <2>9. TomlOK(m2, clock)  BY <2>1, <2>7 DEF TomlOK
  <2>9a. ReadOK(m2)  BY <2>1, <2>7 DEF ReadOK
  <2>9b. SourceOK(m2, clock)  BY <2>1, <2>7 DEF SourceOK
  <2>9c. AfterOf(m2) = AfterOf(m) /\ ManifestOf(m2) = ManifestOf(m)
    BY <2>7 DEF AfterOf, ReferringOf, ManifestOf
  <2>10. StagedOK(m2)  BY <2>5, <2>5c, <2>7, <2>9c DEF StagedOK
  <2>13. Unlinked(m2)  BY <2>4, <2>5b, <2>7 DEF Unlinked
  <2>14. PlanOK(m2, clock)
    BY <2>1, <2>4, <2>5, <2>7, <2>8, <2>9, <2>9a, <2>9b, <2>10
       DEF PlanOK, Pcs, Creating, AfterLoad, AfterRead, AfterSource,
           AfterManifest, AfterStage, Complete, OfMoves
  <2> QED  BY <2>2, <2>4, <2>13, <2>14 DEF GoesWell
<1>3. CASE Ends(p, "refused")  BY <1>1, <1>3, EndsWell
<1> QED  BY <1>2, <1>3 DEF StageMove, Request
-----------------------------------------------------------------------------
LEMMA CapturesReferring ==
  ASSUME FilesOK, PlansOK, NEW p \in Proc, CaptureReferring(p)
  PROVE  GoesWell(p)
<1> DEFINE m == memory[p]
           r == m.request
           captured == [f \in DOMAIN m.after |->
                          CASE f = r.to   -> Absent
                            [] f = r.path -> m.source
                            [] OTHER      -> docs[f]]
           read == [before |-> captured]
           m2 == Knows(m, "execute", read)
<1>1. DOMAIN memory = Proc /\ PlanOK(m, clock) /\ Unlinked(m) /\ m.pc = "capture referring"
  BY DEF PlansOK, CaptureReferring, At
<1>2. CASE /\ DOMAIN m.after \ {r.path, r.to} \subseteq ContextFiles(docs) \ linked
           /\ Goes(p, "execute", read)
  <2>1. /\ r \in Requests /\ "request" \in DOMAIN m /\ LoadOK(m) /\ TomlOK(m, clock)
        /\ r.op = "move" /\ ReadOK(m) /\ SourceOK(m, clock) /\ StagedOK(m)
    BY <1>1 DEF PlanOK, AfterLoad, AfterRead, AfterSource, AfterManifest, AfterStage, OfMoves
  <2>2. /\ memory'[p] = m2
        /\ DOMAIN memory' = Proc /\ \A q \in Proc \ {p} : memory'[q] = memory[q]
    BY <1>1, <1>2, GoesOn
  <2>3. DOMAIN read = {"before"} /\ read["before"] = captured  OBVIOUS
  <2>4. /\ DOMAIN m2 = DOMAIN m \cup DOMAIN read \cup {"pc"}
        /\ m2.pc = "execute"
        /\ \A k \in DOMAIN read \ {"pc"} : m2[k] = read[k]
        /\ \A k \in DOMAIN m \ (DOMAIN read \cup {"pc"}) : m2[k] = m[k]
    BY DEF Knows, Updated
  <2>5. docs[r.path] = m.source => r.path \notin linked
    BY <1>1, <2>1 DEF Unlinked, AfterSource, AfterManifest, AfterStage, Complete
  <2>6. /\ m.after = AfterOf(m) /\ r.path # r.to
        /\ DOMAIN m.after = {r.path, r.to} \cup ReferringOf(m) /\ DOMAIN m.after \subseteq Path
    BY <2>1, AfterDocuments, RequestFields DEF StagedOK
  <2>7. DOMAIN captured = DOMAIN m.after  OBVIOUS
  <2>8. captured[r.to] = Absent /\ captured[r.path] = m.source
    BY <2>6
  <2>9. \A f \in DOMAIN m.after \ {r.path, r.to} : captured[f] = docs[f]  OBVIOUS
  <2>10. \A f \in DOMAIN m.after \ {r.path, r.to} :
           /\ docs[f] \in Doc /\ Exists(docs[f]) /\ docs[f].stamp <= clock /\ f \notin linked
    BY <1>2, <2>6 DEF FilesOK, DocOK, ContextFiles
  <2>11. /\ m.source \in Doc /\ Exists(m.source) /\ m.source.stamp <= clock
    BY <2>1 DEF SourceOK
  <2>12. captured = [f \in DOMAIN m.after |-> captured[f]]  OBVIOUS
  <2> HIDE DEF read, m2, m, captured
  <2>13. \A f \in DOMAIN m.after :
           /\ captured[f] \in Doc
           /\ f # r.to => Exists(captured[f]) /\ captured[f].stamp <= clock
    BY <2>8, <2>9, <2>10, <2>11, AbsentIsNoDocument
  <2>14. captured \in [DOMAIN m.after -> Doc]  BY <2>12, <2>13
  <2>15. {"request", "catalog", "identity", "toml", "read", "makes", "source", "after",
          "manifest_after", "issues", "identity_after"} \subseteq DOMAIN m
    BY <2>1 DEF LoadOK, TomlOK, ReadOK, SourceOK, StagedOK
  <2>16. /\ m2.before = captured
         /\ m2.after = m.after /\ m2.manifest_after = m.manifest_after
         /\ m2.request = m.request /\ m2.catalog = m.catalog /\ m2.identity = m.identity
         /\ m2.toml = m.toml /\ m2.read = m.read /\ m2.source = m.source
         /\ {"request", "catalog", "identity", "toml", "read", "makes", "source", "before",
             "after", "manifest_after", "issues", "identity_after"} \subseteq DOMAIN m2
    BY <2>3, <2>4, <2>15
  <2>17. LoadOK(m2)  BY <2>1, <2>16 DEF LoadOK
  <2>18. TomlOK(m2, clock)  BY <2>1, <2>16 DEF TomlOK
  <2>19. ReadOK(m2)  BY <2>1, <2>16 DEF ReadOK
  <2>20. SourceOK(m2, clock)  BY <2>1, <2>16 DEF SourceOK
  <2>21. StagedOK(m2)
    <3>1. AfterOf(m2) = AfterOf(m) /\ ManifestOf(m2) = ManifestOf(m)
      BY <2>16 DEF AfterOf, ReferringOf, ManifestOf
    <3> QED  BY <2>1, <2>16, <3>1 DEF StagedOK
  <2>22. CompleteOK(m2, clock)
    BY <2>1, <2>8, <2>13, <2>14, <2>16 DEF CompleteOK
  <2>23. \A f \in DOMAIN captured :
           Exists(captured[f]) /\ docs[f] = captured[f] => f \notin linked
    BY <2>5, <2>7, <2>8, <2>10, AbsentIsNoDocument
  <2>24. Unlinked(m2)  BY <2>4, <2>5, <2>16, <2>23 DEF Unlinked
  <2>25. PlanOK(m2, clock)
    BY <2>1, <2>4, <2>16, <2>17, <2>18, <2>19, <2>20, <2>21, <2>22
       DEF PlanOK, Pcs, Creating, AfterLoad, AfterRead, AfterSource,
           AfterManifest, AfterStage, Complete, OfMoves
  <2> QED  BY <2>2, <2>4, <2>24, <2>25 DEF GoesWell
<1>3. CASE Ends(p, "refused")  BY <1>1, <1>3, EndsWell
<1> QED  BY <1>2, <1>3 DEF CaptureReferring, Request

\* A create needs to know its request only.
LEMMA CreatesOn ==
  ASSUME PlansOK, NEW p \in Proc, NEW pc \in Creating, NEW read, Goes(p, pc, read),
         memory[p].pc \in Creating \cup {"load"}, memory[p].request.op = "create",
         "request" \notin DOMAIN read
  PROVE  GoesWell(p)
<1> DEFINE m == memory[p]
           m2 == Knows(m, pc, read)
<1>1. PlanOK(m, clock) /\ DOMAIN memory = Proc  BY DEF PlansOK
<1>2. /\ memory'[p] = m2
      /\ DOMAIN memory' = Proc /\ \A q \in Proc \ {p} : memory'[q] = memory[q]
  BY <1>1, GoesOn
<1>3. m.request \in Requests /\ "request" \in DOMAIN m
  BY <1>1 DEF PlanOK, Creating
<1>4. m2.pc = pc /\ m2.request = m.request /\ {"pc", "request"} \subseteq DOMAIN m2
  BY <1>3 DEF Knows, Updated
<1> HIDE DEF m2
<1>5. PlanOK(m2, clock) /\ Unlinked(m2)
  BY <1>3, <1>4
     DEF PlanOK, Unlinked, Pcs, Creating, AfterLoad, AfterRead, AfterSource,
         AfterManifest, AfterStage, Complete, OfMoves
<1> QED  BY <1>2, <1>4, <1>5 DEF GoesWell, Creating

LEMMA LoadsToCreate ==
  ASSUME PlansOK, NEW p \in Proc, LoadForCreate(p)
  PROVE  GoesWell(p)
<1> DEFINE read == [manifest |-> toml.manifest]
<1>1. CASE Goes(p, "directory", read)
  <2>1. "request" \notin DOMAIN read  OBVIOUS
  <2> QED  BY <1>1, <2>1, CreatesOn DEF LoadForCreate, At, Request, Creating
<1>2. CASE Ends(p, "refused")  BY <1>2, EndsWell DEF PlansOK
<1> QED  BY <1>1, <1>2 DEF LoadForCreate

LEMMA EnsuresDirectory ==
  ASSUME PlansOK, NEW p \in Proc, EnsureDirectory(p)
  PROVE  GoesWell(p)
<1>1. CASE Goes(p, "recheck", <<>>)
  <2>1. "request" \notin DOMAIN <<>>  OBVIOUS
  <2>2. memory[p].pc = "directory" /\ memory[p].request.op = "create"
    BY DEF EnsureDirectory, At, PlansOK, PlanOK, Creating
  <2> QED  BY <1>1, <2>1, <2>2, CreatesOn DEF Creating
<1>2. CASE Ends(p, "refused")  BY <1>2, EndsWell DEF PlansOK
<1> QED  BY <1>1, <1>2 DEF EnsureDirectory

LEMMA RechecksDestination ==
  ASSUME PlansOK, NEW p \in Proc, RecheckDestination(p)
  PROVE  GoesWell(p)
<1>1. CASE Goes(p, "link", <<>>)
  <2>1. "request" \notin DOMAIN <<>>  OBVIOUS
  <2>2. memory[p].pc = "recheck" /\ memory[p].request.op = "create"
    BY DEF RecheckDestination, At, PlansOK, PlanOK, Creating
  <2> QED  BY <1>1, <2>1, <2>2, CreatesOn DEF Creating
<1>2. CASE Ends(p, "refused")  BY <1>2, EndsWell DEF PlansOK
<1> QED  BY <1>1, <1>2 DEF RecheckDestination

\* A command goes on and nothing else happens.
Alone(p) == p \in Proc /\ GoesWell(p) /\ memory[p].pc # "validate"
            /\ UNCHANGED <<docs, linked, toml, clock, journal, lock>>

LEMMA AloneKeepsShape ==
  ASSUME ShapeInv, NEW p \in Proc, Alone(p)
  PROVE  ShapeInv'
<1> USE DEF Alone, GoesWell
<1>1. FilesOK'  BY DEF ShapeInv, FilesOK, DocOK, Exists, ContextFiles
<1>2. PlansOK'
  <2>1. ASSUME NEW q \in Proc PROVE PlanOK(memory'[q], clock') /\ Unlinked(memory[q])'
    <3>1. PlanOK(memory'[q], clock) /\ Unlinked(memory'[q])
      BY DEF ShapeInv, PlansOK
    <3> QED  BY <3>1 DEF Unlinked
  <2> QED  BY <2>1 DEF PlansOK
<1>3. LockOK'  BY DEF ShapeInv, LockOK, At
<1>4. journal' # None => JournalOK'  BY DEF ShapeInv, JournalOK, Exists
<1> QED  BY <1>1, <1>2, <1>3, <1>4 DEF ShapeInv

LEMMA PlanningIsAlone ==
  ASSUME ShapeInv, NEW p \in Proc,
         \/ Give(p) \/ Register(p) \/ Move(p) \/ CaptureManifest(p)
         \/ LoadForCreate(p) \/ EnsureDirectory(p) \/ RecheckDestination(p)
  PROVE  Alone(p)
<1> USE DEF ShapeInv
<1>1. CASE Give(p)  BY <1>1, GivesWell DEF Alone, Give, At, files
<1>2. CASE LoadForRegister(p)
  BY <1>2, LoadsToRegister DEF Alone, LoadForRegister, At, files
<1>3. CASE StageRegister(p)
  BY <1>3, StagesRegister DEF Alone, StageRegister, Reads, At, files
<1>4. CASE LoadForMove(p)  BY <1>4, LoadsToMove DEF Alone, LoadForMove, At, files
<1>5. CASE ReadMarkdown(p)  BY <1>5, ReadsMarkdown DEF Alone, ReadMarkdown, Reads, At, files
<1>6. CASE CaptureSource(p)
  BY <1>6, CapturesSource DEF Alone, CaptureSource, Reads, At, files
<1>7. CASE StageMove(p)  BY <1>7, StagesMove DEF Alone, StageMove, Reads, At, files
<1>8. CASE CaptureReferring(p)
  BY <1>8, CapturesReferring DEF Alone, CaptureReferring, Reads, At, files
<1>9. CASE CaptureManifest(p)
  BY <1>9, CapturesManifest DEF Alone, CaptureManifest, Reads, At, files
<1>10. CASE LoadForCreate(p)
  BY <1>10, LoadsToCreate DEF Alone, LoadForCreate, Reads, At, files
<1>11. CASE EnsureDirectory(p)
  BY <1>11, EnsuresDirectory DEF Alone, EnsureDirectory, At, files
<1>12. CASE RecheckDestination(p)
  BY <1>12, RechecksDestination DEF Alone, RecheckDestination, Reads, At, files
<1> QED
  BY <1>1, <1>2, <1>3, <1>4, <1>5, <1>6, <1>7, <1>8, <1>9, <1>10, <1>11, <1>12
     DEF Register, Move
-----------------------------------------------------------------------------
(***************************************************************************)
(* Files change.                                                           *)
(***************************************************************************)
\* A file with a second link has not changed, or is later than anything known.
LinksKept(before, links, after, left, now) ==
  \A f \in Path : f \in left =>
    (f \in links /\ after[f] = before[f]) \/ after[f].stamp > now

UnlinkedAmong(m, documents, links) ==
  /\ m.pc \in AfterSource \ {"validate"} /\ m.request.op = "move" =>
       (documents[m.request.path] = m.source => m.request.path \notin links)
  /\ m.pc = "execute" =>
       \A f \in DOMAIN m.before :
         Exists(m.before[f]) /\ documents[f] = m.before[f] => f \notin links

LEMMA UnlinkedIsAmong ==
  \A p \in Proc : /\ Unlinked(memory[p]) = UnlinkedAmong(memory[p], docs, linked)
                  /\ Unlinked(memory[p])' = UnlinkedAmong(memory'[p], docs', linked')
  BY DEF Unlinked, UnlinkedAmong

\* The documents of a complete plan.
LEMMA PlannedDocuments ==
  ASSUME NEW m, NEW now \in Nat, PlanOK(m, now), m.pc \in Complete
  PROVE  /\ m.request \in Requests /\ m.request.op \in {"register", "move"}
         /\ DOMAIN m.after \subseteq Path /\ DOMAIN m.before = DOMAIN m.after
         /\ m.after \in [DOMAIN m.after -> Doc]
         /\ m.before \in [DOMAIN m.after -> Doc]
         /\ m.toml.manifest \in Manifest /\ m.manifest_after \in Manifest
         /\ m.toml.stamp \in 0..now
         /\ m.request.op = "register" => DOMAIN m.after = {}
         /\ m.request.op = "move" =>
              /\ m.after = AfterOf(m)
              /\ {m.request.path, m.request.to} \subseteq DOMAIN m.after
              /\ m.before[m.request.to] = Absent
              /\ \A f \in DOMAIN m.after \ {m.request.to} :
                   Exists(m.before[f]) /\ m.before[f].stamp <= now
<1>1. /\ m.request \in Requests /\ LoadOK(m) /\ TomlOK(m, now) /\ StagedOK(m)
      /\ CompleteOK(m, now)
      /\ m.request.op = "move" => ReadOK(m) /\ SourceOK(m, now)
  BY DEF PlanOK, Complete, AfterLoad, AfterRead, AfterSource, AfterManifest, AfterStage
<1>2. m.request.op \in {"register", "move"}  BY <1>1 DEF LoadOK
<1>3. /\ m.toml.manifest \in Manifest /\ ManifestOf(m) \in Manifest
      /\ m.manifest_after = ManifestOf(m) /\ m.toml.stamp \in 0..now
  BY <1>1, PlannedManifest DEF TomlOK, StagedOK
<1>4. CASE m.request.op = "register"
  <2>1. DOMAIN <<>> = {}  OBVIOUS
  <2>2. <<>> \in [DOMAIN <<>> -> Doc]
    <3>1. <<>> \in Seq(Doc) /\ Len(<<>>) = 0  OBVIOUS
    <3>2. <<>> \in [1..Len(<<>>) -> Doc]  BY <3>1, Elements
    <3> QED  BY <3>1, <3>2
  <2>3. m.after = <<>> /\ m.before = <<>>  BY <1>1, <1>4 DEF StagedOK, CompleteOK
  <2>4. DOMAIN m.after = {} /\ DOMAIN m.before = {}  BY <2>1, <2>3
  <2>5. m.after \in [DOMAIN m.after -> Doc] /\ m.before \in [DOMAIN m.after -> Doc]
    BY <2>2, <2>3
  <2> QED  BY <1>1, <1>2, <1>3, <1>4, <2>4, <2>5
<1>5. CASE m.request.op = "move"
  <2>1. /\ m.after = AfterOf(m) /\ m.before \in [DOMAIN m.after -> Doc]
        /\ m.before[m.request.to] = Absent
        /\ \A f \in DOMAIN m.after \ {m.request.to} :
             Exists(m.before[f]) /\ m.before[f].stamp <= now
    BY <1>1, <1>5 DEF StagedOK, CompleteOK
  <2>2. /\ DOMAIN m.after \subseteq Path /\ m.after \in [DOMAIN m.after -> Doc]
        /\ {m.request.path, m.request.to} \subseteq DOMAIN m.after
    BY <1>1, <1>5, <2>1, AfterDocuments, ZenonT(60)
  <2>3. DOMAIN m.before = DOMAIN m.after  BY <2>1
  <2> QED  BY <1>1, <1>2, <1>3, <1>5, <2>1, <2>2, <2>3
<1> QED  BY <1>2, <1>4, <1>5

LEMMA StaysUnlinked ==
  ASSUME NEW m, NEW now \in Nat, NEW documents, NEW links, NEW after, NEW left,
         PlanOK(m, now), UnlinkedAmong(m, documents, links),
         LinksKept(documents, links, after, left, now)
  PROVE  UnlinkedAmong(m, after, left)
<1>1. ASSUME m.pc \in AfterSource \ {"validate"}, m.request.op = "move",
             after[m.request.path] = m.source, m.request.path \in left
      PROVE  FALSE
  <2>1. m.source \in Doc /\ m.source.stamp <= now /\ m.request \in Requests
    BY <1>1 DEF PlanOK, SourceOK, AfterSource, AfterManifest, AfterStage, Complete
  <2>2. m.request.path \in Path  BY <2>1, RequestFields
  <2>3. m.source.stamp \in Nat  BY <2>1 DEF Doc
  <2>4. ~(after[m.request.path].stamp > now)  BY <1>1, <2>1, <2>3
  <2>5. m.request.path \in links /\ after[m.request.path] = documents[m.request.path]
    BY <1>1, <2>2, <2>4 DEF LinksKept
  <2> QED  BY <1>1, <2>5 DEF UnlinkedAmong
<1>2. ASSUME m.pc = "execute", NEW f \in DOMAIN m.before, Exists(m.before[f]),
             after[f] = m.before[f], f \in left
      PROVE  FALSE
  <2>1. m.pc \in Complete  BY <1>2 DEF Complete
  <2>2. /\ f \in Path /\ m.before[f] \in Doc
        /\ m.request.op = "move" => m.before[m.request.to] = Absent
        /\ m.request.op = "move" => \A g \in DOMAIN m.after \ {m.request.to} :
             m.before[g].stamp <= now
        /\ m.request.op = "move" /\ f \in DOMAIN m.after
    BY <2>1, PlannedDocuments
  <2>3. f # m.request.to  BY <1>2, <2>2, AbsentIsNoDocument
  <2>4. m.before[f].stamp <= now /\ m.before[f].stamp \in Nat  BY <2>2, <2>3 DEF Doc
  <2>5. ~(after[f].stamp > now)  BY <1>2, <2>4
  <2>6. f \in links /\ after[f] = documents[f]  BY <1>2, <2>2, <2>5 DEF LinksKept
  <2> QED  BY <1>2, <2>6 DEF UnlinkedAmong
<1> QED  BY <1>1, <1>2 DEF UnlinkedAmong

\* What happens to the files: nothing is older than what was there.
FilesMove ==
  /\ FilesOK' /\ clock <= clock'
  /\ LinksKept(docs, linked, docs', linked', clock)

LEMMA PlansStay ==
  ASSUME FilesOK, PlansOK, FilesMove, DOMAIN memory' = Proc,
         \A q \in Proc : memory'[q] # memory[q] =>
           PlanOK(memory'[q], clock') /\ UnlinkedAmong(memory'[q], docs', linked')
  PROVE  PlansOK'
<1>1. clock \in Nat /\ clock' \in Nat /\ clock <= clock'  BY DEF FilesOK, FilesMove
<1>2. ASSUME NEW q \in Proc, memory'[q] = memory[q]
      PROVE  PlanOK(memory'[q], clock') /\ UnlinkedAmong(memory'[q], docs', linked')
  <2> DEFINE m == memory[q]
  <2>1. PlanOK(m, clock) /\ UnlinkedAmong(m, docs, linked)
    BY UnlinkedIsAmong DEF PlansOK
  <2> HIDE DEF m
  <2>2. PlanOK(m, clock')  BY <1>1, <2>1, LaterPlan
  <2>3. UnlinkedAmong(m, docs', linked')
    BY <1>1, <2>1, StaysUnlinked DEF FilesMove
  <2> QED  BY <1>2, <2>2, <2>3 DEF m
<1>3. \A q \in Proc : PlanOK(memory'[q], clock') /\ UnlinkedAmong(memory'[q], docs', linked')
  BY <1>2
<1> QED  BY <1>3, UnlinkedIsAmong DEF PlansOK

LEMMA JournalStays ==
  ASSUME FilesOK, JournalOK, FilesMove, UNCHANGED journal
  PROVE  JournalOK'
<1>1. clock \in Nat /\ clock' \in Nat /\ clock <= clock'  BY DEF FilesOK, FilesMove
<1>2. journal.stamp \in 1..clock /\ PlanOK(journal.plan, clock) /\ journal.plan.pc = "execute"
  BY DEF JournalOK
<1>3. PlanOK(journal.plan, clock')
  <2> DEFINE m == journal.plan
  <2>1. PlanOK(m, clock)  BY <1>2
  <2> HIDE DEF m
  <2>2. PlanOK(m, clock')  BY <1>1, <2>1, LaterPlan
  <2> QED  BY <2>2 DEF m
<1>4. journal.stamp \in 1..clock'  BY <1>1, <1>2
<1>5. DOMAIN journal.plan.after \subseteq Path
  <2> DEFINE m == journal.plan
  <2>1. PlanOK(m, clock) /\ m.pc \in Complete  BY <1>2 DEF Complete
  <2> HIDE DEF m
  <2>2. DOMAIN m.after \subseteq Path  BY <1>1, <2>1, PlannedDocuments
  <2> QED  BY <2>2 DEF m
<1>6. ASSUME NEW f \in DOMAIN journal.plan.after,
             Exists(docs'[f]), docs'[f].stamp = journal.stamp, f \in linked'
      PROVE  FALSE
  <2>1. f \in Path /\ ~(docs'[f].stamp > clock)  BY <1>1, <1>2, <1>5, <1>6
  <2>2. f \in linked /\ docs'[f] = docs[f]
    BY <1>6, <2>1 DEF FilesMove, LinksKept
  <2> QED  BY <1>6, <2>2 DEF JournalOK
<1>7. /\ {"plan", "by", "side", "stamp"} \subseteq DOMAIN journal'
      /\ journal'.plan.pc = "execute" /\ PlanOK(journal'.plan, clock')
      /\ journal'.by \in Proc /\ journal'.side \in {"before", "after"}
      /\ journal'.stamp \in 1..clock'
  BY <1>2, <1>3, <1>4 DEF JournalOK
<1>8. \A f \in DOMAIN journal'.plan.after :
        Exists(docs'[f]) /\ docs'[f].stamp = journal'.stamp => f \notin linked'
  BY <1>6
<1> QED  BY <1>7, <1>8 DEF JournalOK, Exists
-----------------------------------------------------------------------------
\* A publication or a recovery: the files it writes had one link.
LEMMA Written ==
  ASSUME FilesOK, NEW m, NEW side \in {"before", "after"}, PlanOK(m, clock), m.pc \in Complete,
         Write(m, side), UNCHANGED linked,
         \A f \in DOMAIN m.after : f \notin linked
  PROVE  /\ FilesMove /\ clock' = clock + 1
         /\ \A f \in DOMAIN m.after :
              docs'[f] = Stamped(m[side][f]) /\ m[side][f] \in Doc
         /\ \A f \in Path \ DOMAIN m.after : docs'[f] = docs[f]
         /\ toml' = [manifest |-> IF side = "after" THEN m.manifest_after
                                  ELSE m.toml.manifest,
                     stamp |-> clock + 1]
<1>1. /\ clock' = clock + 1 /\ clock \in Nat
      /\ docs' = Updated(docs, [f \in DOMAIN m[side] |-> Stamped(m[side][f])])
      /\ toml' = [manifest |-> IF side = "after" THEN m.manifest_after
                               ELSE m.toml.manifest,
                  stamp |-> clock + 1]
  BY DEF Write, FilesOK
<1>2. /\ DOMAIN m[side] = DOMAIN m.after /\ m[side] \in [DOMAIN m.after -> Doc]
      /\ DOMAIN m.after \subseteq Path /\ m.toml.manifest \in Manifest
      /\ m.manifest_after \in Manifest
  BY <1>1, PlannedDocuments
<1>3. /\ docs \in [Path -> Doc] /\ \A f \in Path : DocOK(docs[f], clock)
      /\ linked \subseteq ContextFiles(docs)
  BY DEF FilesOK
<1> HIDE DEF Write
<1>4. /\ DOMAIN docs' = Path
      /\ \A f \in DOMAIN m.after : docs'[f] = Stamped(m[side][f])
      /\ \A f \in Path \ DOMAIN m.after : docs'[f] = docs[f]
  BY <1>1, <1>2, <1>3 DEF Updated
<1>5. \A f \in DOMAIN m.after : docs'[f] \in Doc /\ DocOK(docs'[f], clock + 1)
  <2>1. ASSUME NEW f \in DOMAIN m.after
        PROVE  docs'[f] \in Doc /\ DocOK(docs'[f], clock + 1)
    <3> DEFINE doc == m[side][f]
    <3>1. doc \in Doc  BY <1>2
    <3> HIDE DEF doc
    <3>2. Stamped(doc) \in Doc /\ DocOK(Stamped(doc), clock + 1)
      BY <1>1, <3>1, StampedDocument DEF DocOK
    <3>3. docs'[f] = Stamped(doc)  BY <1>4 DEF doc
    <3> QED  BY <3>2, <3>3
  <2> QED  BY <2>1
<1>6. \A f \in Path \ DOMAIN m.after : docs'[f] \in Doc /\ DocOK(docs'[f], clock + 1)
  <2>1. \A f \in Path : docs[f] \in Doc /\ docs[f].stamp \in Nat  BY <1>3 DEF Doc
  <2>2. \A f \in Path : DocOK(docs[f], clock + 1)
    BY <1>1, <1>3, <2>1 DEF DocOK
  <2> QED  BY <1>4, <2>1, <2>2
<1>7. docs' \in [Path -> Doc]
  <2>1. \A f \in Path : docs'[f] \in Doc  BY <1>5, <1>6
  <2>2. docs' = [f \in DOMAIN docs' |-> docs'[f]]  BY <1>1 DEF Updated
  <2> QED  BY <1>4, <2>1, <2>2
<1>8. toml'.manifest \in Manifest /\ toml'.stamp \in 0..(clock + 1)
  BY <1>1, <1>2
<1>9. linked' \subseteq ContextFiles(docs')
  BY <1>3, <1>4 DEF ContextFiles
<1>10. FilesOK'
  BY <1>1, <1>5, <1>6, <1>7, <1>8, <1>9 DEF FilesOK, DocOK, Exists, ContextFiles
<1>11. LinksKept(docs, linked, docs', linked', clock)
  BY <1>3, <1>4 DEF LinksKept, ContextFiles
<1> QED  BY <1>1, <1>2, <1>4, <1>10, <1>11 DEF FilesMove

LEMMA ExecutesWell ==
  ASSUME ShapeInv, NEW p \in Proc, Execute(p)
  PROVE  ShapeInv'
<1> DEFINE m == memory[p]
           m2 == Knows(m, "validate", <<>>)
<1>1. /\ FilesOK /\ PlansOK /\ LockOK /\ DOMAIN memory = Proc /\ clock \in Nat
      /\ PlanOK(m, clock) /\ Unlinked(m) /\ m.pc = "execute" /\ UNCHANGED linked
  BY DEF ShapeInv, PlansOK, FilesOK, Execute, At
<1>2. CASE Ends(p, "cas_conflict") /\ UNCHANGED <<docs, toml, clock, journal, lock>>
  <2>1. GoesWell(p)  BY <1>1, <1>2, EndsWell
  <2>2. Alone(p)  BY <1>1, <1>2, <2>1 DEF Alone
  <2> QED  BY <2>2, AloneKeepsShape
<1>3. CASE /\ StillAsPlanned(p) /\ Write(m, "after") /\ Goes(p, "validate", <<>>)
           /\ lock = None /\ lock' = p
           /\ journal' = [plan |-> m, by |-> p, side |-> "after", stamp |-> clock + 1]
  <2>1. /\ memory'[p] = m2 /\ DOMAIN memory' = Proc
        /\ \A q \in Proc \ {p} : memory'[q] = memory[q]
    BY <1>1, <1>3, GoesOn
  <2>2. \A f \in DOMAIN m.before : docs[f] = m.before[f]
    BY <1>3 DEF StillAsPlanned
  <2>3. \A f \in DOMAIN m.before : Exists(m.before[f]) => f \notin linked
    BY <1>1, <2>2 DEF Unlinked
  <2>4. DOMAIN <<>> = {}  OBVIOUS
  <2>5. /\ DOMAIN m2 = DOMAIN m \cup DOMAIN <<>> \cup {"pc"} /\ m2.pc = "validate"
        /\ \A k \in DOMAIN m \ (DOMAIN <<>> \cup {"pc"}) : m2[k] = m[k]
    BY DEF Knows, Updated
  <2>6. /\ journal'.plan = m /\ journal'.by = p /\ journal'.side = "after"
        /\ journal'.stamp = clock + 1
        /\ {"plan", "by", "side", "stamp"} \subseteq DOMAIN journal'
    BY <1>3
  <2>w. Write(m, "after")  BY <1>3
  <2> HIDE DEF m, m2
  <2>7. m.pc \in Complete  BY <1>1 DEF Complete
  <2>8. /\ DOMAIN m.before = DOMAIN m.after /\ DOMAIN m.after \subseteq Path
    BY <1>1, <2>7, PlannedDocuments
  <2>9. \A f \in DOMAIN m.after : f \notin linked
    BY <1>1, <2>2, <2>3, <2>8 DEF FilesOK, ContextFiles
  <2>10. FilesMove /\ clock' = clock + 1
    BY <1>1, <2>7, <2>9, <2>w, Written
  <2>11. m2.pc = "validate" /\ "pc" \in DOMAIN m2 /\ DOMAIN m2 = DOMAIN m \cup {"pc"}
         /\ \A k \in DOMAIN m \ {"pc"} : m2[k] = m[k]
    BY <2>4, <2>5
  <2>12. PlanOK(m2, clock)
    <3>1. /\ m.request \in Requests /\ "request" \in DOMAIN m
          /\ LoadOK(m) /\ TomlOK(m, clock) /\ StagedOK(m) /\ CompleteOK(m, clock)
          /\ m.request.op = "move" => ReadOK(m) /\ SourceOK(m, clock)
      BY <1>1 DEF PlanOK, Complete, AfterLoad, AfterRead, AfterSource, AfterManifest,
                  AfterStage
    <3>2. /\ {"request", "catalog", "identity", "toml", "makes", "before", "after",
              "manifest_after", "issues", "identity_after"} \subseteq DOMAIN m
          /\ m.request.op = "move" => {"read", "source"} \subseteq DOMAIN m
      BY <3>1 DEF LoadOK, TomlOK, ReadOK, SourceOK, StagedOK, CompleteOK
    <3>3. /\ m2.before = m.before
          /\ m2.after = m.after /\ m2.manifest_after = m.manifest_after
          /\ m2.request = m.request /\ m2.catalog = m.catalog /\ m2.identity = m.identity
          /\ m2.toml = m.toml
          /\ m.request.op = "move" => m2.read = m.read /\ m2.source = m.source
      BY <2>11, <3>2
    <3>4. LoadOK(m2)  BY <2>11, <3>1, <3>2, <3>3 DEF LoadOK
    <3>5. TomlOK(m2, clock)  BY <2>11, <3>1, <3>2, <3>3 DEF TomlOK
    <3>6. m2.request.op = "move" => ReadOK(m2)  BY <2>11, <3>1, <3>2, <3>3 DEF ReadOK
    <3>7. m2.request.op = "move" => SourceOK(m2, clock)
      BY <2>11, <3>1, <3>2, <3>3 DEF SourceOK
    <3>8. StagedOK(m2)
      <4>1. ManifestOf(m2) = ManifestOf(m)  BY <3>3 DEF ManifestOf
      <4>2. m.request.op = "move" => AfterOf(m2) = AfterOf(m)
        BY <3>3 DEF AfterOf, ReferringOf
      <4> QED  BY <2>11, <3>1, <3>2, <3>3, <4>1, <4>2 DEF StagedOK
    <3>9. CompleteOK(m2, clock)  BY <2>11, <3>1, <3>2, <3>3 DEF CompleteOK
    <3>10. "request" \in DOMAIN m2 /\ m2.request \in Requests  BY <2>11, <3>1, <3>3
    <3> QED
      BY <2>11, <3>4, <3>5, <3>6, <3>7, <3>8, <3>9, <3>10
         DEF PlanOK, Pcs, Creating, AfterLoad, AfterRead, AfterSource,
             AfterManifest, AfterStage, Complete, OfMoves
  <2>13. PlanOK(m2, clock') /\ PlanOK(m, clock')
    <3>1. clock + 1 \in Nat /\ clock <= clock + 1  BY <1>1
    <3> QED  BY <1>1, <2>10, <2>12, <3>1, LaterPlan
  <2>14. UnlinkedAmong(m2, docs', linked')
    BY <2>11 DEF UnlinkedAmong
  <2>15. PlansOK'  BY <1>1, <2>1, <2>10, <2>13, <2>14, PlansStay
  <2>16. LockOK'
    <3>1. \A q \in Proc \ {p} : memory[q].pc # "validate"
      BY <1>1, <1>3, NoneAssumption DEF LockOK, At
    <3> QED  BY <1>3, <2>1, <2>11, <3>1, NoneAssumption DEF LockOK, At
  <2>17. clock + 1 \in 1..(clock + 1)  BY <1>1
  <2>18. \A f \in DOMAIN m.after : f \notin linked'  BY <1>1, <2>9
  <2>19. JournalOK'
    BY <1>1, <2>6, <2>10, <2>13, <2>17, <2>18 DEF JournalOK
  <2> QED  BY <2>10, <2>15, <2>16, <2>19 DEF ShapeInv, FilesMove
<1> QED  BY <1>2, <1>3 DEF Execute

\* A file that the transaction wrote has one link.
LEMMA WrittenFilesAreUnlinked ==
  ASSUME FilesOK, JournalOK, AsWritten
  PROVE  \A f \in DOMAIN journal.plan.after : f \notin linked
<1> DEFINE m == journal.plan
           side == journal.side
<1>1. /\ side \in {"before", "after"} /\ PlanOK(m, clock) /\ clock \in Nat /\ m.pc \in Complete
  BY DEF JournalOK, FilesOK, Complete
<1>2. \A f \in DOMAIN m.after :
        docs[f] = IF Exists(m[side][f]) THEN [m[side][f] EXCEPT !.stamp = journal.stamp]
                  ELSE Absent
  BY DEF AsWritten
<1>3. \A f \in DOMAIN m.after :
        Exists(docs[f]) /\ docs[f].stamp = journal.stamp => f \notin linked
  BY DEF JournalOK
<1> HIDE DEF m, side
<1>4. m[side] \in [DOMAIN m.after -> Doc]  BY <1>1, PlannedDocuments
<1>5. ASSUME NEW f \in DOMAIN m.after PROVE f \notin linked
  <2> DEFINE doc == m[side][f]
  <2>1. doc \in Doc  BY <1>4
  <2>2. docs[f] = IF Exists(doc) THEN [doc EXCEPT !.stamp = journal.stamp] ELSE Absent
    BY <1>2
  <2> HIDE DEF doc
  <2>3. [doc EXCEPT !.stamp = journal.stamp].stamp = journal.stamp
        /\ [doc EXCEPT !.stamp = journal.stamp].body = doc.body
    BY <2>1 DEF Doc
  <2>4. CASE Exists(doc)  BY <1>3, <2>2, <2>3, <2>4 DEF Exists
  <2>5. CASE ~Exists(doc)
    BY <2>2, <2>5, AbsentIsNoDocument DEF FilesOK, ContextFiles
  <2> QED  BY <2>4, <2>5
<1> QED  BY <1>5 DEF m

LEMMA RecoversWell ==
  ASSUME ShapeInv, NEW side \in {"before", "after"}, Recover(side)
  PROVE  ShapeInv'
<1> DEFINE m == journal.plan
<1>1. /\ FilesOK /\ PlansOK /\ LockOK /\ JournalOK /\ AsWritten /\ clock \in Nat
      /\ Write(m, side) /\ UNCHANGED <<linked, memory, lock>>
      /\ journal' = [journal EXCEPT !.side = side, !.stamp = clock + 1]
  BY DEF ShapeInv, FilesOK, Recover
<1>2. PlanOK(m, clock) /\ m.pc = "execute" /\ m.pc \in Complete
  BY <1>1 DEF JournalOK, Complete
<1>3. \A f \in DOMAIN m.after : f \notin linked  BY <1>1, WrittenFilesAreUnlinked
<1>4. /\ journal'.plan = m /\ journal'.by = journal.by /\ journal'.side = side
      /\ journal'.stamp = clock + 1 /\ DOMAIN journal' = DOMAIN journal
      /\ {"plan", "by", "side", "stamp"} \subseteq DOMAIN journal /\ journal.by \in Proc
  BY <1>1 DEF JournalOK
<1>5. Write(m, side)  BY <1>1
<1> HIDE DEF m
<1>6. FilesMove /\ clock' = clock + 1  BY <1>1, <1>2, <1>3, <1>5, Written
<1>7. PlansOK'  BY <1>1, <1>6, PlansStay DEF PlansOK
<1>8. LockOK'  BY <1>1 DEF LockOK, At
<1>9. clock + 1 \in Nat /\ clock <= clock + 1 /\ clock + 1 \in 1..(clock + 1)  BY <1>1
<1>10. PlanOK(m, clock')  BY <1>1, <1>2, <1>6, <1>9, LaterPlan
<1>11. \A f \in DOMAIN m.after : f \notin linked'  BY <1>1, <1>3
<1>12. JournalOK'
  BY <1>2, <1>4, <1>6, <1>9, <1>10, <1>11 DEF JournalOK
<1> QED  BY <1>6, <1>7, <1>8, <1>12 DEF ShapeInv, FilesMove

(***************************************************************************)
(* Creates, and people.                                                    *)
(***************************************************************************)
\* A document is written at f, or goes; nothing else is touched.
LEMMA OneDocument ==
  ASSUME FilesOK, NEW f \in Path, NEW doc \in Doc, clock' \in {clock, clock + 1},
         Exists(doc) => doc.stamp = clock + 1 /\ clock' = clock + 1,
         ~Exists(doc) => doc = Absent,
         docs' = [docs EXCEPT ![f] = doc],
         toml'.manifest \in Manifest, toml'.stamp \in 0..clock',
         linked' \subseteq linked \cup {f}, ~Exists(doc) => f \notin linked'
  PROVE  FilesMove
<1>1. /\ clock \in Nat /\ clock' \in Nat /\ clock <= clock'
      /\ docs \in [Path -> Doc] /\ \A g \in Path : DocOK(docs[g], clock)
      /\ linked \subseteq ContextFiles(docs)
  BY DEF FilesOK
<1>2. docs' \in [Path -> Doc] /\ docs'[f] = doc /\ \A g \in Path \ {f} : docs'[g] = docs[g]
  BY <1>1
<1>3. \A g \in Path : DocOK(docs'[g], clock')
  <2>1. ASSUME NEW g \in Path, g # f PROVE DocOK(docs'[g], clock')
    <3>1. docs[g].stamp \in Nat  BY <1>1 DEF Doc
    <3>2. DocOK(docs[g], clock')  BY <1>1, <3>1 DEF DocOK
    <3> QED  BY <1>2, <2>1, <3>2
  <2>2. DocOK(docs'[f], clock')  BY <1>1, <1>2 DEF DocOK
  <2> QED  BY <2>1, <2>2
<1>4. linked' \subseteq ContextFiles(docs')  BY <1>1, <1>2 DEF ContextFiles
<1>5. FilesOK'  BY <1>1, <1>2, <1>3, <1>4 DEF FilesOK, DocOK, Exists, ContextFiles
<1>6. LinksKept(docs, linked, docs', linked', clock)
  <2>1. ASSUME NEW g \in Path, g \in linked'
        PROVE  (g \in linked /\ docs'[g] = docs[g]) \/ docs'[g].stamp > clock
    <3>1. CASE g # f  BY <1>2, <2>1, <3>1
    <3>2. CASE g = f
      <4>1. doc.stamp = clock + 1  BY <2>1, <3>2
      <4> QED  BY <1>1, <1>2, <3>2, <4>1
    <3> QED  BY <3>1, <3>2
  <2> QED  BY <2>1 DEF LinksKept
<1> QED  BY <1>1, <1>5, <1>6 DEF FilesMove

\* No document changes.
LEMMA SameDocuments ==
  ASSUME FilesOK, UNCHANGED docs, clock' \in Nat, clock <= clock',
         toml'.manifest \in Manifest, toml'.stamp \in 0..clock', linked' \subseteq linked
  PROVE  FilesMove
<1>1. /\ clock \in Nat /\ docs \in [Path -> Doc] /\ \A g \in Path : DocOK(docs[g], clock)
      /\ linked \subseteq ContextFiles(docs)
  BY DEF FilesOK
<1>2. \A g \in Path : DocOK(docs[g], clock')
  <2>1. \A g \in Path : docs[g].stamp \in Nat  BY <1>1 DEF Doc
  <2> QED  BY <1>1, <2>1 DEF DocOK
<1>3. linked' \subseteq ContextFiles(docs)  BY <1>1
<1>4. FilesOK'  BY <1>1, <1>2, <1>3 DEF FilesOK, DocOK, Exists, ContextFiles
<1>5. LinksKept(docs, linked, docs', linked', clock)  BY DEF LinksKept
<1> QED  BY <1>4, <1>5 DEF FilesMove

\* The files move, and at most one command stops or goes on from where it was.
LEMMA FilesMoveKeepsShape ==
  ASSUME ShapeInv, FilesMove, UNCHANGED journal, DOMAIN memory' = Proc, LockOK',
         \A q \in Proc : memory'[q] # memory[q] =>
           PlanOK(memory'[q], clock') /\ UnlinkedAmong(memory'[q], docs', linked')
  PROVE  ShapeInv'
<1>1. PlansOK'  BY PlansStay DEF ShapeInv
<1>2. journal' # None => JournalOK'  BY JournalStays DEF ShapeInv
<1> QED  BY <1>1, <1>2 DEF ShapeInv, FilesMove

LEMMA IdleAmong ==
  \A documents, links, now : PlanOK(Idle, now) /\ UnlinkedAmong(Idle, documents, links)
<1>1. Idle.pc = "idle" /\ "pc" \in DOMAIN Idle  BY DEF Idle
<1> QED  BY <1>1, IdlePlan DEF UnlinkedAmong, AfterSource, AfterManifest, AfterStage, Complete

LEMMA LinksWell ==
  ASSUME ShapeInv, NEW p \in Proc, LinkScaffold(p)
  PROVE  ShapeInv'
<1> DEFINE m == memory[p]
           m2 == Knows(m, "unlink", <<>>)
           path == m.request.path
           doc == [body |-> "text", links |-> {}, stamp |-> clock + 1]
<1>1. /\ FilesOK /\ PlansOK /\ LockOK /\ DOMAIN memory = Proc /\ clock \in Nat
      /\ PlanOK(m, clock) /\ m.pc = "link" /\ UNCHANGED <<toml, journal, lock>>
  BY DEF ShapeInv, PlansOK, FilesOK, LinkScaffold, At
<1>2. m.request \in Requests /\ "request" \in DOMAIN m /\ m.request.op = "create"
  BY <1>1 DEF PlanOK, Creating
<1>3. path \in Path  BY <1>2, RequestFields
<1>4. CASE Ends(p, "refused") /\ UNCHANGED <<docs, clock, linked>>
  <2>1. GoesWell(p)  BY <1>1, <1>4, EndsWell
  <2>2. Alone(p)  BY <1>1, <1>4, <2>1 DEF Alone
  <2> QED  BY <2>2, AloneKeepsShape
<1>5. CASE /\ docs' = [docs EXCEPT ![path] = doc] /\ clock' = clock + 1
           /\ linked' = linked \cup {path} /\ Goes(p, "unlink", <<>>)
  <2>1. doc \in Doc /\ Exists(doc) /\ doc.stamp = clock + 1
    BY <1>1 DEF Doc, Body, Exists
  <2> HIDE DEF doc, path
  <2>2. toml'.manifest \in Manifest /\ toml'.stamp \in 0..clock'
    BY <1>1, <1>5 DEF FilesOK
  <2>3. FilesMove  BY <1>1, <1>3, <1>5, <2>1, <2>2, OneDocument
  <2>4. /\ memory'[p] = m2 /\ DOMAIN memory' = Proc
        /\ \A q \in Proc \ {p} : memory'[q] = memory[q]
    BY <1>1, <1>5, GoesOn
  <2>5. DOMAIN <<>> = {}  OBVIOUS
  <2>6. m2.pc = "unlink" /\ "pc" \in DOMAIN m2 /\ "request" \in DOMAIN m2
        /\ m2.request = m.request
    BY <1>2, <2>5 DEF Knows, Updated
  <2> HIDE DEF m, m2
  <2>7. PlanOK(m2, clock') /\ UnlinkedAmong(m2, docs', linked')
    BY <1>2, <2>6
       DEF PlanOK, UnlinkedAmong, Pcs, Creating, AfterLoad, AfterRead, AfterSource,
           AfterManifest, AfterStage, Complete, OfMoves
  <2>8. LockOK'
    <3>1. memory[p].pc = "link"  BY <1>1 DEF m
    <3> QED  BY <1>1, <2>4, <2>6, <3>1 DEF LockOK, At
  <2> QED  BY <1>1, <2>3, <2>4, <2>7, <2>8, FilesMoveKeepsShape
<1> QED  BY <1>4, <1>5 DEF LinkScaffold, Request

LEMMA UnlinksWell ==
  ASSUME ShapeInv, NEW p \in Proc, UnlinkScaffoldTemporary(p)
  PROVE  ShapeInv'
<1>1. /\ FilesOK /\ PlansOK /\ LockOK /\ DOMAIN memory = Proc /\ clock \in Nat
      /\ memory[p].pc = "unlink" /\ Ends(p, "ok") /\ UNCHANGED <<docs, toml, clock, journal, lock>>
      /\ linked' \subseteq linked
  BY DEF ShapeInv, PlansOK, FilesOK, UnlinkScaffoldTemporary, At
<1>2. FilesMove  BY <1>1, SameDocuments DEF FilesOK
<1>3. /\ memory'[p] = Idle /\ DOMAIN memory' = Proc
      /\ \A q \in Proc \ {p} : memory'[q] = memory[q]
  BY <1>1, EndsAt
<1>4. LockOK'
  <2>1. Idle.pc # "validate"  BY DEF Idle
  <2> QED  BY <1>1, <1>3, <2>1 DEF LockOK, At
<1> QED  BY <1>1, <1>2, <1>3, <1>4, IdleAmong, FilesMoveKeepsShape

LEMMA CrashesWell ==
  ASSUME ShapeInv, NEW p \in Proc, Crash(p)
  PROVE  ShapeInv'
<1>1. /\ FilesOK /\ PlansOK /\ LockOK /\ DOMAIN memory = Proc /\ clock \in Nat
      /\ Ends(p, "crashed") /\ UNCHANGED <<docs, toml, clock, linked, journal>>
      /\ lock' = IF lock = p THEN None ELSE lock
  BY DEF ShapeInv, PlansOK, FilesOK, Crash, files
<1>2. FilesMove  BY <1>1, SameDocuments DEF FilesOK
<1>3. /\ memory'[p] = Idle /\ DOMAIN memory' = Proc
      /\ \A q \in Proc \ {p} : memory'[q] = memory[q]
  BY <1>1, EndsAt
<1>4. LockOK'
  <2>1. Idle.pc # "validate"  BY DEF Idle
  <2>2. \A q \in Proc : memory'[q].pc = "validate" <=> q # p /\ memory[q].pc = "validate"
    BY <1>3, <2>1
  <2>3. \A q \in Proc : lock' = q <=> q # p /\ lock = q
    BY <1>1, NoneAssumption
  <2>4. lock' \in Proc \cup {None}  BY <1>1 DEF LockOK
  <2> QED  BY <1>1, <2>2, <2>3, <2>4 DEF LockOK, At
<1> QED  BY <1>1, <1>2, <1>3, <1>4, IdleAmong, FilesMoveKeepsShape

LEMMA ValidatesWell ==
  ASSUME ShapeInv, NEW p \in Proc, Validate(p)
  PROVE  ShapeInv'
<1>1. /\ FilesOK /\ PlansOK /\ LockOK /\ DOMAIN memory = Proc /\ clock \in Nat
      /\ memory[p].pc = "validate" /\ UNCHANGED <<docs, toml, clock, linked>>
      /\ lock' = None /\ (journal' = None \/ journal' = journal)
      /\ \E result \in {"ok", "stopped"} : Ends(p, result)
  BY DEF ShapeInv, PlansOK, FilesOK, Validate, files, At
<1>2. FilesMove  BY <1>1, SameDocuments DEF FilesOK
<1>3. /\ memory'[p] = Idle /\ DOMAIN memory' = Proc
      /\ \A q \in Proc \ {p} : memory'[q] = memory[q]
  BY <1>1, EndsAt
<1>4. LockOK'
  <2>1. Idle.pc # "validate"  BY DEF Idle
  <2>2. \A q \in Proc : memory'[q].pc # "validate"
    BY <1>1, <1>3, <2>1 DEF LockOK, At
  <2> QED  BY <1>1, <2>2, NoneAssumption DEF LockOK, At
<1>5. PlansOK'  BY <1>1, <1>2, <1>3, IdleAmong, PlansStay
<1>6. CASE journal' = None  BY <1>2, <1>4, <1>5, <1>6 DEF ShapeInv, FilesMove
<1>7. CASE journal' = journal
  <2>1. journal' # None => JournalOK'  BY <1>2, <1>7, JournalStays DEF ShapeInv
  <2> QED  BY <1>2, <1>4, <1>5, <2>1 DEF ShapeInv, FilesMove
<1> QED  BY <1>1, <1>6, <1>7

LEMMA SettlesWell ==
  ASSUME ShapeInv, Settle
  PROVE  ShapeInv'
<1>1. /\ FilesOK /\ PlansOK /\ LockOK /\ journal' = None
      /\ UNCHANGED <<docs, toml, clock, linked, memory, lock>> /\ clock \in Nat
  BY DEF ShapeInv, FilesOK, Settle
<1>2. FilesMove  BY <1>1, SameDocuments DEF FilesOK
<1>3. PlansOK'  BY <1>1, <1>2, PlansStay DEF PlansOK
<1>4. LockOK'  BY <1>1 DEF LockOK, At
<1> QED  BY <1>1, <1>2, <1>3, <1>4 DEF ShapeInv, FilesMove
-----------------------------------------------------------------------------
LEMMA EditKeepsShape ==
  ASSUME ShapeInv, FilesMove, UNCHANGED <<journal, lock, memory>>
  PROVE  ShapeInv'
<1>1. LockOK' /\ DOMAIN memory' = Proc  BY DEF ShapeInv, PlansOK, LockOK, At
<1> QED  BY <1>1, FilesMoveKeepsShape

\* A text that people write, or take away.
LEMMA PeoplesDocument ==
  ASSUME FilesOK, NEW f \in EditedPaths, EditDocument(f) \/ DeleteDocument(f)
  PROVE  FilesMove
<1>1. /\ f \in Path /\ clock \in Nat /\ docs[f] \in Doc /\ Exists(docs[f])
      /\ toml.manifest \in Manifest /\ toml.stamp \in 0..clock /\ UNCHANGED toml
  BY PeopleAssumption DEF FilesOK, EditDocument, DeleteDocument
<1>2. CASE EditDocument(f)
  <2>1. PICK body \in HumanBodies \cup {docs[f].body}, links \in {docs[f].links, HumanLinks} :
          docs' = [docs EXCEPT ![f] = [body |-> body, links |-> links, stamp |-> clock + 1]]
    BY <1>2 DEF EditDocument
  <2> DEFINE doc == [body |-> body, links |-> links, stamp |-> clock + 1]
  <2>2. body \in Body /\ body # "none" /\ links \subseteq Path
    <3>1. docs[f].body \in Body /\ docs[f].body # "none" /\ docs[f].links \subseteq Path
      BY <1>1 DEF Doc, Exists
    <3> QED  BY <2>1, <3>1, PeopleAssumption
  <2>3. clock + 1 \in Nat  BY <1>1
  <2>4. doc \in Doc /\ Exists(doc) /\ doc.stamp = clock + 1
    BY <2>2, <2>3 DEF Doc, Exists
  <2> HIDE DEF doc
  <2>5. docs' = [docs EXCEPT ![f] = doc]  BY <2>1 DEF doc
  <2>6. clock' = clock + 1 /\ linked' = linked  BY <1>2 DEF EditDocument
  <2>7. toml'.manifest \in Manifest /\ toml'.stamp \in 0..clock'  BY <1>1, <2>6
  <2> QED  BY <1>1, <2>4, <2>5, <2>6, <2>7, OneDocument
<1>3. CASE DeleteDocument(f)
  <2>1. /\ docs' = [docs EXCEPT ![f] = Absent] /\ linked' = linked \ {f} /\ UNCHANGED clock
    BY <1>3 DEF DeleteDocument
  <2>2. toml'.manifest \in Manifest /\ toml'.stamp \in 0..clock'  BY <1>1, <2>1
  <2> QED  BY <1>1, <2>1, <2>2, AbsentIsNoDocument, OneDocument
<1> QED  BY <1>2, <1>3

LEMMA PeoplesManifest ==
  ASSUME FilesOK, EditManifest
  PROVE  FilesMove
<1>1. clock \in Nat /\ toml.manifest \in Manifest /\ clock' = clock + 1
      /\ UNCHANGED <<docs, linked>>
  BY DEF FilesOK, EditManifest
<1>2. \/ toml' = [manifest |-> Commented(toml.manifest), stamp |-> clock + 1]
      \/ \E f \in EditedPaths :
           toml' = [manifest |-> AppendContext(toml.manifest, EntryByHand(f)), stamp |-> clock + 1]
  BY DEF EditManifest
<1>3. Commented(toml.manifest) \in Manifest
  <2> DEFINE m == toml.manifest
             n == m.note + 1
  <2>1. m \in Manifest /\ n \in Nat  BY <1>1, ManifestFields
  <2>2. Commented(m) = [m EXCEPT !.note = n]  BY DEF Commented
  <2> HIDE DEF m, n
  <2>3. [m EXCEPT !.note = n] \in Manifest  BY <2>1 DEF Manifest
  <2> QED  BY <2>2, <2>3 DEF m
<1>4. ASSUME NEW f \in EditedPaths PROVE AppendContext(toml.manifest, EntryByHand(f)) \in Manifest
  <2>1. f \in Path  BY PeopleAssumption
  <2>2. <<>> \in Seq(Path)  OBVIOUS
  <2>3. EntryOf(EntryByHand(f)) \in Entry  BY <2>1, <2>2 DEF EntryByHand, EntryOf, Entry, Role, ReadPolicy
  <2>4. [toml.manifest EXCEPT !.contexts = Append(@, EntryOf(EntryByHand(f)))] \in Manifest
    BY <1>1, <2>3, AppendedManifest
  <2> QED  BY <2>4, AppendIsAppended
<1>5. toml'.manifest \in Manifest /\ toml'.stamp = clock + 1
  BY <1>2, <1>3, <1>4
<1>6. clock' \in Nat /\ clock <= clock' /\ toml'.stamp \in 0..clock'  BY <1>1, <1>5
<1> QED  BY <1>1, <1>5, <1>6, SameDocuments

LEMMA PeopleKeepShape ==
  ASSUME ShapeInv, People
  PROVE  ShapeInv'
<1>1. FilesOK /\ clock \in Nat /\ toml.manifest \in Manifest /\ toml.stamp \in 0..clock
  BY DEF ShapeInv, FilesOK
<1>2. ASSUME NEW f \in EditedPaths, EditDocument(f) \/ DeleteDocument(f) PROVE ShapeInv'
  <2>1. FilesMove  BY <1>1, <1>2, PeoplesDocument
  <2> QED  BY <1>2, <2>1, EditKeepsShape DEF EditDocument, DeleteDocument, Edit
<1>3. ASSUME NEW f \in EditedPaths, MentionPath(f) PROVE ShapeInv'
  <2>1. UNCHANGED <<docs, linked, toml, clock>> /\ UNCHANGED <<journal, lock, memory>>
    BY <1>3 DEF MentionPath, Edit
  <2>2. FilesMove  BY <1>1, <2>1, SameDocuments
  <2> QED  BY <2>1, <2>2, EditKeepsShape
<1>4. CASE EditManifest
  <2>1. FilesMove  BY <1>1, <1>4, PeoplesManifest
  <2> QED  BY <1>4, <2>1, EditKeepsShape DEF EditManifest, Edit
<1> QED  BY <1>2, <1>3, <1>4 DEF People

LEMMA InitShape == Init => ShapeInv
<1> SUFFICES ASSUME Init PROVE ShapeInv  OBVIOUS
<1>1. PICK m \in InitialManifests : toml = [manifest |-> m, stamp |-> 0]  BY DEF Init
<1>2. /\ clock = 0 /\ docs \in InitialDocs /\ linked = {} /\ journal = None /\ lock = None
      /\ memory = [p \in Proc |-> Idle]
  BY DEF Init
<1>3. /\ docs \in [Path -> Doc]
      /\ \A f \in Path : DocOK(docs[f], 0)
  <2>1. /\ docs \in [Path -> Doc]
        /\ \A f \in Path : IF Exists(docs[f]) THEN docs[f].stamp = 0 ELSE docs[f] = Absent
    BY <1>2, InitialAssumption
  <2> QED  BY <2>1 DEF DocOK
<1>4. m \in Manifest /\ toml.manifest = m /\ toml.stamp = 0
  BY <1>1, InitialAssumption
<1>5. FilesOK  BY <1>2, <1>3, <1>4 DEF FilesOK
<1>6. PlansOK  BY <1>2, IdlePlan DEF PlansOK
<1>7. LockOK
  <2>1. Idle.pc # "validate"  BY DEF Idle
  <2> QED  BY <1>2, <2>1, NoneAssumption DEF LockOK, At
<1> QED  BY <1>2, <1>5, <1>6, <1>7 DEF ShapeInv

LEMMA StepKeepsShape ==
  ASSUME ShapeInv, [Next]_vars
  PROVE  ShapeInv'
<1>1. ASSUME NEW p \in Proc,
             \/ Give(p) \/ Register(p) \/ Move(p) \/ CaptureManifest(p)
             \/ LoadForCreate(p) \/ EnsureDirectory(p) \/ RecheckDestination(p)
      PROVE  ShapeInv'
  BY <1>1, PlanningIsAlone, AloneKeepsShape
<1>2. ASSUME NEW p \in Proc, LinkScaffold(p) PROVE ShapeInv'  BY <1>2, LinksWell
<1>3. ASSUME NEW p \in Proc, UnlinkScaffoldTemporary(p) PROVE ShapeInv'  BY <1>3, UnlinksWell
<1>4. ASSUME NEW p \in Proc, Execute(p) PROVE ShapeInv'  BY <1>4, ExecutesWell
<1>5. ASSUME NEW p \in Proc, Validate(p) PROVE ShapeInv'  BY <1>5, ValidatesWell
<1>6. ASSUME NEW p \in Proc, Crash(p) PROVE ShapeInv'  BY <1>6, CrashesWell
<1>7. ASSUME NEW side \in {"before", "after"}, Recover(side) PROVE ShapeInv'
  BY <1>7, RecoversWell
<1>8. CASE Settle  BY <1>8, SettlesWell
<1>9. CASE People  BY <1>9, PeopleKeepShape
<1>10. CASE UNCHANGED vars
  <2>1. UNCHANGED <<docs, linked, toml, clock, journal, lock, memory>>
    BY <1>10 DEF vars, files
  <2>2. FilesMove  BY <2>1, SameDocuments DEF ShapeInv, FilesOK
  <2> QED  BY <2>1, <2>2, EditKeepsShape
<1> QED
  BY <1>1, <1>2, <1>3, <1>4, <1>5, <1>6, <1>7, <1>8, <1>9, <1>10
     DEF Next, Create, Publish

LEMMA ShapeInvariant == Spec => []ShapeInv
<1>1. ShapeInv /\ [Next]_vars => ShapeInv'  BY StepKeepsShape
<1> QED  BY <1>1, InitShape, PTL DEF Spec

\* The documents, the manifest and the record of every command have the shape
\* that the planners give them, whatever runs at the same time: an existing
\* document has an identity that was given out, a document with a second link
\* exists, the lock is held by the command that validates, and the two sides of a
\* published plan name the same files (context-register.ts, context-move.ts,
\* mutation-commit.ts).
THEOREM TypeCorrect == Spec => []TypeOK
<1>1. ShapeInv => TypeOK
  <2> SUFFICES ASSUME ShapeInv PROVE TypeOK  OBVIOUS
  <2>1. /\ docs \in [Path -> Doc] /\ toml.manifest \in Manifest /\ toml.stamp \in 0..clock
        /\ \A f \in Path : DocOK(docs[f], clock)
        /\ linked \subseteq ContextFiles(docs) /\ LockOK /\ clock \in Nat
    BY DEF ShapeInv, FilesOK
  <2>2. ASSUME journal # None
        PROVE  /\ journal.plan.before \in [DOMAIN journal.plan.after -> Doc]
               /\ journal.plan.after \in [DOMAIN journal.plan.before -> Doc]
               /\ journal.stamp \in 1..clock
    <3> DEFINE m == journal.plan
    <3>1. PlanOK(m, clock) /\ m.pc \in Complete /\ journal.stamp \in 1..clock
      BY <2>2 DEF ShapeInv, JournalOK, Complete
    <3> HIDE DEF m
    <3>2. /\ m.before \in [DOMAIN m.after -> Doc]
          /\ m.after \in [DOMAIN m.after -> Doc] /\ DOMAIN m.before = DOMAIN m.after
      BY <2>1, <3>1, PlannedDocuments
    <3>3. m.after \in [DOMAIN m.before -> Doc]  BY <3>2
    <3> QED  BY <3>1, <3>2, <3>3 DEF m
  <2> QED  BY <2>1, <2>2 DEF TypeOK, LockOK, DocOK
<1> QED  BY <1>1, ShapeInvariant, PTL
-----------------------------------------------------------------------------
(***************************************************************************)
(* Edits are counted: a step of a command is none.                         *)
(***************************************************************************)
LEMMA PeopleAreCounted == People => edits' = edits + 1
  BY DEF People, EditDocument, DeleteDocument, MentionPath, EditManifest, Edit

LEMMA CommandsAreNotCounted ==
  ASSUME [Next]_vars, ~People
  PROVE  edits' = edits
<1>1. ASSUME NEW p \in Proc, Give(p) \/ Register(p) \/ Move(p) PROVE edits' = edits
  BY <1>1 DEF Give, Register, LoadForRegister, StageRegister, Move, LoadForMove, ReadMarkdown,
              CaptureSource, StageMove, CaptureReferring, Reads, counters
<1>2. ASSUME NEW p \in Proc, Create(p) PROVE edits' = edits
  BY <1>2 DEF Create, LoadForCreate, EnsureDirectory, RecheckDestination, LinkScaffold,
              UnlinkScaffoldTemporary, Reads, counters
<1>3. ASSUME NEW p \in Proc, Publish(p) \/ Crash(p) PROVE edits' = edits
  BY <1>3 DEF Publish, CaptureManifest, Execute, Validate, Crash, Reads, counters
<1>4. ASSUME NEW side \in {"before", "after"}, Recover(side) PROVE edits' = edits
  BY <1>4 DEF Recover
<1>5. CASE Settle  BY <1>5 DEF Settle, counters
<1>6. CASE UNCHANGED vars  BY <1>6 DEF vars, counters
<1> QED  BY <1>1, <1>2, <1>3, <1>4, <1>5, <1>6 DEF Next

EditsInv == edits \in Nat

LEMMA EditsInvariant == Spec => []EditsInv
<1>1. Init => EditsInv  BY DEF Init, EditsInv
<1>2. EditsInv /\ [Next]_vars => EditsInv'
  <2> SUFFICES ASSUME edits \in Nat, [Next]_vars PROVE edits' \in Nat  BY DEF EditsInv
  <2>1. CASE People  BY <2>1, PeopleAreCounted
  <2>2. CASE ~People  BY <2>2, CommandsAreNotCounted
  <2> QED  BY <2>1, <2>2
<1> QED  BY <1>1, <1>2, PTL DEF Spec

(***************************************************************************)
(* The manifest.                                                           *)
(***************************************************************************)
SideManifest(plan, side) ==
  IF side = "after" THEN plan.manifest_after ELSE plan.toml.manifest

\* While the manifest has the identity that the transaction gave it, it is the
\* manifest of the transaction's side.
ManifestInv ==
  journal # None /\ toml.stamp = journal.stamp =>
    toml.manifest = SideManifest(journal.plan, journal.side)

LEMMA StepKeepsManifest ==
  ASSUME ShapeInv, ManifestInv, [Next]_vars
  PROVE  ManifestInv'
<1>0. toml.stamp \in 0..clock /\ clock \in Nat /\ (journal # None => journal.stamp \in 1..clock)
  BY DEF ShapeInv, FilesOK, JournalOK
<1>1. ASSUME UNCHANGED <<toml, journal>> PROVE ManifestInv'
  BY <1>1 DEF ManifestInv, SideManifest
<1>2. ASSUME NEW p \in Proc,
             \/ Give(p) \/ Register(p) \/ Move(p) \/ CaptureManifest(p)
             \/ LoadForCreate(p) \/ EnsureDirectory(p) \/ RecheckDestination(p)
      PROVE  ManifestInv'
  BY <1>1, <1>2, PlanningIsAlone DEF Alone
<1>3. ASSUME NEW p \in Proc, LinkScaffold(p) \/ UnlinkScaffoldTemporary(p) \/ Crash(p)
      PROVE  ManifestInv'
  BY <1>1, <1>3 DEF LinkScaffold, UnlinkScaffoldTemporary, Crash, files
<1>4. ASSUME NEW p \in Proc, Execute(p) PROVE ManifestInv'
  <2>1. CASE Write(memory[p], "after") /\ journal' = [plan |-> memory[p], by |-> p,
                                                      side |-> "after", stamp |-> clock + 1]
    <3>1. toml'.manifest = memory[p].manifest_after  BY <2>1 DEF Write
    <3>2. journal'.plan = memory[p] /\ journal'.side = "after"  BY <2>1
    <3> QED  BY <3>1, <3>2 DEF ManifestInv, SideManifest
  <2>2. CASE UNCHANGED <<toml, journal>>  BY <1>1, <2>2
  <2> QED  BY <1>4, <2>1, <2>2 DEF Execute
<1>5. ASSUME NEW p \in Proc, Validate(p) PROVE ManifestInv'
  <2>1. UNCHANGED toml /\ (journal' = None \/ journal' = journal)
    BY <1>5 DEF Validate, files
  <2> QED  BY <1>1, <2>1 DEF ManifestInv
<1>6. ASSUME NEW side \in {"before", "after"}, Recover(side) PROVE ManifestInv'
  <2>1. /\ toml'.manifest = SideManifest(journal.plan, side)
        /\ journal' = [journal EXCEPT !.side = side, !.stamp = clock + 1]
        /\ {"plan", "by", "side", "stamp"} \subseteq DOMAIN journal
    BY <1>6 DEF Recover, Write, SideManifest, ShapeInv, JournalOK
  <2>2. journal'.plan = journal.plan /\ journal'.side = side  BY <2>1
  <2> QED  BY <2>1, <2>2 DEF ManifestInv, SideManifest
<1>7. CASE Settle  BY <1>7 DEF Settle, ManifestInv
<1>8. CASE People
  <2>1. ASSUME NEW f \in EditedPaths, EditDocument(f) \/ DeleteDocument(f) \/ MentionPath(f)
        PROVE  ManifestInv'
    BY <1>1, <2>1 DEF EditDocument, DeleteDocument, MentionPath, Edit
  <2>2. CASE EditManifest
    <3>1. toml'.stamp = clock + 1 /\ UNCHANGED journal  BY <2>2 DEF EditManifest, Edit
    <3> QED  BY <1>0, <3>1 DEF ManifestInv
  <2> QED  BY <1>8, <2>1, <2>2 DEF People
<1>9. CASE UNCHANGED vars  BY <1>1, <1>9 DEF vars, files
<1> QED
  BY <1>2, <1>3, <1>4, <1>5, <1>6, <1>7, <1>8, <1>9 DEF Next, Create, Publish

LEMMA ManifestInvariant == Spec => []ManifestInv
<1>1. Init => ManifestInv  BY DEF Init, ManifestInv
<1>2. ShapeInv /\ ManifestInv /\ [Next]_vars => ManifestInv'  BY StepKeepsManifest
<1> QED  BY <1>1, <1>2, ShapeInvariant, PTL DEF Spec

\* No command overwrites what somebody else declared in the meantime: what a
\* command writes is the manifest that is there with its own entry added, or with
\* its path replaced, and a recovery goes from one manifest of the transaction to
\* the other (assertMutationChangesCurrent, mutation-commit.ts:62-64).  Of edits by
\* people this says nothing in the window between the last comparison and the
\* rename, which MutationTransaction models: see OthersFilesSurvive there.
THEOREM ManifestUpdatesAreKept == Spec => NoManifestUpdateLost
<1> DEFINE Kept ==
       ByCommand /\ toml'.manifest # toml.manifest =>
         \/ \E r \in Requests :
              \/ r.op = "register" /\ toml'.manifest = AppendContext(toml.manifest, r)
              \/ r.op = "move"
                 /\ toml'.manifest = ReplacePath(toml.manifest, r.path, r.to)
         \/ /\ journal # None
            /\ <<toml.manifest, toml'.manifest>> \in
                 {journal.plan.toml.manifest, journal.plan.manifest_after}
                 \X {journal.plan.toml.manifest, journal.plan.manifest_after}
<1>1. ASSUME ShapeInv, ManifestInv, EditsInv, [Next]_vars PROVE Kept
  <2>1. ASSUME UNCHANGED toml PROVE Kept  BY <2>1
  <2>2. ASSUME NEW p \in Proc,
               \/ Give(p) \/ Register(p) \/ Move(p) \/ CaptureManifest(p)
               \/ LoadForCreate(p) \/ EnsureDirectory(p) \/ RecheckDestination(p)
        PROVE  Kept
    <3>1. UNCHANGED toml  BY <1>1, <2>2, PlanningIsAlone DEF Alone
    <3> QED  BY <3>1
  <2>3. ASSUME NEW p \in Proc,
               LinkScaffold(p) \/ UnlinkScaffoldTemporary(p) \/ Crash(p) \/ Validate(p)
        PROVE  Kept
    <3>1. UNCHANGED toml
      BY <2>3 DEF LinkScaffold, UnlinkScaffoldTemporary, Crash, Validate, files
    <3> QED  BY <3>1
  <2>4. ASSUME NEW p \in Proc, Execute(p) PROVE Kept
    <3>1. CASE StillAsPlanned(p) /\ Write(memory[p], "after")
      <4> DEFINE m == memory[p]
      <4>1. toml = m.toml /\ toml'.manifest = m.manifest_after
        BY <3>1 DEF StillAsPlanned, Write
      <4>2. m.pc = "execute" /\ PlanOK(m, clock) /\ clock \in Nat
        BY <1>1, <2>4 DEF ShapeInv, PlansOK, Execute, At, FilesOK
      <4> HIDE DEF m
      <4>3. /\ m.request \in Requests /\ m.request.op \in {"register", "move"}
            /\ m.manifest_after = ManifestOf(m)
        BY <4>2, PlannedDocuments DEF PlanOK, StagedOK, Complete, AfterStage
      <4> QED  BY <4>1, <4>3 DEF ManifestOf
    <3>2. CASE UNCHANGED toml  BY <3>2
    <3> QED  BY <2>4, <3>1, <3>2 DEF Execute
  <2>5. ASSUME NEW side \in {"before", "after"}, Recover(side) PROVE Kept
    <3>1. /\ journal # None /\ AsWritten /\ journal.side \in {"before", "after"}
          /\ toml'.manifest = SideManifest(journal.plan, side)
      BY <1>1, <2>5 DEF Recover, Write, SideManifest, ShapeInv, JournalOK
    <3>2. toml.manifest = SideManifest(journal.plan, journal.side)
      BY <1>1, <3>1 DEF AsWritten, ManifestInv
    <3> QED  BY <3>1, <3>2 DEF SideManifest
  <2>6. CASE Settle
    <3>1. UNCHANGED toml  BY <2>6 DEF Settle
    <3> QED  BY <3>1
  <2>7. CASE People
    <3>1. edits' = edits + 1  BY <2>7, PeopleAreCounted
    <3> QED  BY <1>1, <3>1 DEF ByCommand, EditsInv
  <2>8. CASE UNCHANGED vars
    <3>1. UNCHANGED toml  BY <2>8 DEF vars, files
    <3> QED  BY <3>1
  <2> HIDE DEF Kept
  <2> QED
    BY <1>1, <2>2, <2>3, <2>4, <2>5, <2>6, <2>7, <2>8 DEF Next, Create, Publish
<1>2. ShapeInv /\ ManifestInv /\ EditsInv /\ [Next]_vars
      => [ByCommand /\ toml'.manifest # toml.manifest =>
            \/ \E r \in Requests :
                 \/ r.op = "register" /\ toml'.manifest = AppendContext(toml.manifest, r)
                 \/ r.op = "move"
                    /\ toml'.manifest = ReplacePath(toml.manifest, r.path, r.to)
            \/ /\ journal # None
               /\ <<toml.manifest, toml'.manifest>> \in
                    {journal.plan.toml.manifest, journal.plan.manifest_after}
                    \X {journal.plan.toml.manifest, journal.plan.manifest_after}]_vars
  BY <1>1
<1> QED
  BY <1>2, ShapeInvariant, ManifestInvariant, EditsInvariant, PTL
     DEF Spec, NoManifestUpdateLost
-----------------------------------------------------------------------------
(***************************************************************************)
(* The upgrade of the default selection.                                   *)
(***************************************************************************)
\* The selection follows the entries, and nothing else of the manifest.
LEMMA SameEntriesSameTraversal ==
  ASSUME NEW m1, NEW m2, m1.contexts = m2.contexts, NEW roots
  PROVE  Traverse(m1, roots) = Traverse(m2, roots)
<1>1. \A p : ChildrenOf(m1, p) = ChildrenOf(m2, p)  BY DEF ChildrenOf
<1> QED  BY <1>1 DEF Traverse

\* The manifest that the upgrade writes selects what schema 4 read without being
\* told (migrateDefaultBodySelection), whatever the manifest declares.
THEOREM MigratedSelectionIsKept == Spec => []MigrationKeepsSelection
<1>1. ASSUME NEW m \in Manifest, m.parses, m.default_files = <<>>
      PROVE  DefaultSelection(MigratedManifest(m)) = SelectionBeforeUpgrade(m)
  <2> DEFINE n == MigratedManifest(m)
  <2>1. /\ n.contexts = m.contexts /\ n.areas = m.areas /\ n.parses = m.parses
        /\ n.default_files = <<Architecture>>
    BY DEF MigratedManifest, Manifest
  <2> HIDE DEF n
  <2>2. Traverse(n, TraversalRoots(n)) = Traverse(m, TraversalRoots(m))
    BY <2>1, SameEntriesSameTraversal DEF TraversalRoots
  <2>3. ToSet(DirectDefaults(m)) = {Global}
    <3>1. DirectDefaults(m) = <<Global>> \o <<>>  BY <1>1 DEF DirectDefaults
    <3>2. <<Global>> \o <<>> = <<Global>>  OBVIOUS
    <3> QED  BY <3>1, <3>2 DEF ToSet
  <2>4. ToSet(DirectDefaults(n)) = {Global, Architecture}
    <3> DEFINE g == <<Global>>
               a == <<Architecture>>
    <3>1. DirectDefaults(n) = g \o a  BY <2>1 DEF DirectDefaults
    <3>2. /\ g \in Seq(Path) /\ a \in Seq(Path) /\ Len(g) = 1 /\ Len(a) = 1
          /\ g[1] = Global /\ a[1] = Architecture
      BY PathAssumption
    <3> HIDE DEF g, a
    <3>3. /\ g \o a \in Seq(Path) /\ Len(g \o a) = 2
          /\ (g \o a)[1] = Global /\ (g \o a)[2] = Architecture
      <4>1. 1 \in 1..Len(g) /\ 1 \in 1..Len(a) /\ Len(g) + Len(a) = 2 /\ Len(g) + 1 = 2
        BY <3>2
      <4>2. /\ g \o a \in Seq(Path) /\ Len(g \o a) = Len(g) + Len(a)
            /\ \A i \in 1..Len(g) : (g \o a)[i] = g[i]
            /\ \A i \in 1..Len(a) : (g \o a)[Len(g) + i] = a[i]
        BY <3>2, Concatenation, SMTT(30)
      <4>3. (g \o a)[1] = g[1] /\ (g \o a)[Len(g) + 1] = a[1]  BY <4>1, <4>2
      <4> QED  BY <3>2, <4>1, <4>2, <4>3
    <3>4. DOMAIN (g \o a) = 1..2  BY <3>3, Elements
    <3> QED  BY <3>1, <3>3, <3>4 DEF ToSet
  <2>5. DirectSelection(n) = DirectSelection(m) \cup {Architecture}
    BY <2>1, <2>3, <2>4 DEF DirectSelection
  <2>6. DefaultSelection(n) = DefaultSelection(m) \cup {Architecture}
    BY <1>1, <2>1, <2>2, <2>5 DEF DefaultSelection
  <2> QED  BY <2>6 DEF SelectionBeforeUpgrade, n
<1>2. ShapeInv => MigrationKeepsSelection
  BY <1>1 DEF ShapeInv, FilesOK, MigrationKeepsSelection
<1> QED  BY <1>2, ShapeInvariant, PTL
-----------------------------------------------------------------------------
(***************************************************************************)
(* The texts that people write.                                            *)
(***************************************************************************)
Capturing == {"capture source", "capture manifest", "stage", "capture referring"}

\* What a move has read and not captured yet is there, unless it is in `missed`.
ReadTexts(m, documents, gone) ==
  m.pc \in Capturing /\ m.request.op = "move" =>
    \A f \in DOMAIN m.read \ {m.request.path} : f \notin gone => documents[f] = m.read[f]

\* What a move captured is what it had read.
PlannedTexts(m, gone) ==
  m.request.op = "move" =>
    \A f \in DOMAIN m.after \ {m.request.path, m.request.to} :
      f \notin gone => Content(m.before[f]) = Content(m.read[f])

TextsOf(m, documents, gone) ==
  ReadTexts(m, documents, gone) /\ (m.pc = "execute" => PlannedTexts(m, gone))

TextsInv ==
  /\ \A p \in Proc : TextsOf(memory[p], docs, missed)
  /\ journal # None => PlannedTexts(journal.plan, missed)

LEMMA Keeps ==
  ASSUME DOMAIN memory = Proc, NEW p \in Proc, NEW pc, NEW more, Goes(p, pc, more)
  PROVE  /\ memory'[p].pc = pc
         /\ \A k \in DOMAIN memory[p] \ (DOMAIN more \cup {"pc"}) :
              memory'[p][k] = memory[p][k]
         /\ \A k \in DOMAIN more \ {"pc"} : memory'[p][k] = more[k]
         /\ \A q \in Proc \ {p} : memory'[q] = memory[q]
<1> DEFINE m2 == Knows(memory[p], pc, more)
<1>1. memory'[p] = m2 /\ \A q \in Proc \ {p} : memory'[q] = memory[q]  BY GoesOn
<1>2. /\ m2.pc = pc
      /\ \A k \in DOMAIN memory[p] \ (DOMAIN more \cup {"pc"}) : m2[k] = memory[p][k]
      /\ \A k \in DOMAIN more \ {"pc"} : m2[k] = more[k]
  BY DEF Knows, Updated
<1> HIDE DEF m2
<1> QED  BY <1>1, <1>2

\* A document changes only where no move loses sight of it.
SeenChanges ==
  /\ missed \subseteq missed'
  /\ \A f \in Path : docs'[f] # docs[f] =>
       ~Exists(docs[f]) \/ (BetweenReadAndCapture(f) => f \in missed')

LEMMA TextsStay ==
  ASSUME ShapeInv, TextsInv, SeenChanges,
         \A q \in Proc : memory'[q] # memory[q] => TextsOf(memory'[q], docs', missed'),
         journal' = None \/ (journal # None /\ journal'.plan = journal.plan)
           \/ PlannedTexts(journal'.plan, missed')
  PROVE  TextsInv'
<1>1. missed \subseteq missed'  BY DEF SeenChanges
<1>2. ASSUME NEW q \in Proc, memory'[q] = memory[q] PROVE TextsOf(memory'[q], docs', missed')
  <2> DEFINE m == memory[q]
  <2>1. ASSUME m.pc \in Capturing, m.request.op = "move",
               NEW f \in DOMAIN m.read \ {m.request.path}, f \notin missed'
        PROVE  docs'[f] = m.read[f]
    <3>1. docs[f] = m.read[f]  BY <1>1, <2>1 DEF TextsInv, TextsOf, ReadTexts
    <3>2. f \in Path /\ Exists(m.read[f])
      BY <2>1 DEF ShapeInv, PlansOK, PlanOK, ReadOK, LoadOK, Capturing, AfterLoad, AfterRead,
                  AfterSource, AfterManifest, AfterStage, Complete
    <3>3. BetweenReadAndCapture(f)
      BY <2>1 DEF BetweenReadAndCapture, Capturing, Request
    <3> QED  BY <2>1, <3>1, <3>2, <3>3 DEF SeenChanges
  <2>2. m.pc = "execute" => PlannedTexts(m, missed')
    BY <1>1 DEF TextsInv, TextsOf, PlannedTexts
  <2> HIDE DEF m
  <2>3. TextsOf(m, docs', missed')  BY <2>1, <2>2 DEF TextsOf, ReadTexts
  <2> QED  BY <1>2, <2>3 DEF m
<1>3. \A q \in Proc : TextsOf(memory'[q], docs', missed')  BY <1>2
<1>4. journal' # None => PlannedTexts(journal'.plan, missed')
  BY <1>1 DEF TextsInv, PlannedTexts
<1> QED  BY <1>3, <1>4 DEF TextsInv

LEMMA NothingSeen ==
  ASSUME UNCHANGED <<docs, missed>>
  PROVE  SeenChanges
  BY DEF SeenChanges

LEMMA IdleTexts == \A documents, gone : TextsOf(Idle, documents, gone)
<1>1. Idle.pc = "idle"  BY DEF Idle
<1> QED  BY <1>1 DEF TextsOf, ReadTexts, Capturing

\* The plans that only read.
LEMMA PlanningKeepsTexts ==
  ASSUME ShapeInv, TextsInv, NEW p \in Proc,
         \/ Give(p) \/ Register(p) \/ Move(p) \/ CaptureManifest(p)
         \/ LoadForCreate(p) \/ EnsureDirectory(p) \/ RecheckDestination(p)
  PROVE  TextsInv'
<1> DEFINE m == memory[p]
           m2 == memory'[p]
<1>0. /\ Alone(p) /\ DOMAIN memory = Proc /\ PlanOK(m, clock)
      /\ TextsOf(m, docs, missed)
  BY PlanningIsAlone DEF ShapeInv, PlansOK, TextsInv
<1>1. UNCHANGED <<docs, journal>> /\ \A q \in Proc \ {p} : memory'[q] = memory[q]
  BY <1>0 DEF Alone, GoesWell
<1>2. UNCHANGED missed
  BY DEF Give, Register, LoadForRegister, StageRegister, Move, LoadForMove, ReadMarkdown,
         CaptureSource, StageMove, CaptureReferring, CaptureManifest, LoadForCreate,
         EnsureDirectory, RecheckDestination, Reads
<1>3. ASSUME TextsOf(m2, docs, missed) PROVE TextsInv'
  <2>1. \A q \in Proc : memory'[q] # memory[q] => TextsOf(memory'[q], docs', missed')
    BY <1>1, <1>2, <1>3
  <2> HIDE DEF m, m2
  <2>2. journal' = None \/ (journal # None /\ journal'.plan = journal.plan)  BY <1>1
  <2> QED  BY <1>1, <1>2, <2>1, <2>2, NothingSeen, TextsStay
<1>e. ASSUME NEW result, Ends(p, result) PROVE TextsInv'
  <2>1. m2 = Idle  BY <1>0, <1>e, EndsAt
  <2> QED  BY <1>3, <2>1, IdleTexts
\* Nothing is read or captured yet.
<1>4. ASSUME m2.pc \notin Capturing \cup {"execute"} PROVE TextsInv'
  <2>1. TextsOf(m2, docs, missed)  BY <1>4 DEF TextsOf, ReadTexts
  <2> QED  BY <1>3, <2>1
\* A register captures no text.
<1>5. ASSUME m2.request.op # "move" PROVE TextsInv'
  <2>1. TextsOf(m2, docs, missed)  BY <1>5 DEF TextsOf, ReadTexts, PlannedTexts
  <2> QED  BY <1>3, <2>1
\* Nothing is added to what was read.
<1>6. ASSUME NEW pc \in Capturing, NEW read, Goes(p, pc, read), m.pc \in Capturing,
             "read" \notin DOMAIN read, "request" \notin DOMAIN read
      PROVE  TextsInv'
  <2>1. m.request.op = "move" => {"request", "read"} \subseteq DOMAIN m
    BY <1>0, <1>6
       DEF PlanOK, ReadOK, LoadOK, Capturing, AfterLoad, AfterRead,
           AfterSource, AfterManifest, AfterStage, Complete
  <2>2. "request" \in DOMAIN m
    BY <1>0, <1>6 DEF PlanOK, Capturing
  <2>3. m2.request = m.request /\ m2.pc = pc /\ (m.request.op = "move" => m2.read = m.read)
    BY <1>0, <1>6, <2>1, <2>2, Keeps
  <2>4. TextsOf(m2, docs, missed)
    BY <1>0, <1>6, <2>3 DEF TextsOf, ReadTexts, Capturing
  <2> QED  BY <1>3, <2>4
<1>7. CASE Give(p)
  <2>1. PICK r \in Requests : memory' = [memory EXCEPT ![p] = [pc |-> "load", request |-> r]]
    BY <1>7 DEF Give
  <2>2. m2 = [pc |-> "load", request |-> r]  BY <1>0, <2>1
  <2>3. m2.pc = "load"  BY <2>2
  <2> QED  BY <1>4, <2>3 DEF Capturing
<1>8. CASE LoadForRegister(p)
  <2>1. CASE Goes(p, "capture manifest",
                  [catalog |-> Catalog, identity |-> Identity(toml.manifest, docs)])
    <3> DEFINE read == [catalog |-> Catalog, identity |-> Identity(toml.manifest, docs)]
    <3>1. "request" \notin DOMAIN read /\ Goes(p, "capture manifest", read)
      BY <2>1
    <3> HIDE DEF read
    <3>2. m.request.op = "register" /\ "request" \in DOMAIN m
      BY <1>0, <1>8 DEF LoadForRegister, At, Request, PlanOK
    <3>3. m2.request = m.request  BY <1>0, <3>1, <3>2, Keeps, ZenonT(60)
    <3> QED  BY <1>5, <3>2, <3>3
  <2> QED  BY <1>8, <1>e, <2>1 DEF LoadForRegister
<1>9. CASE StageRegister(p)
  <2> DEFINE after == AppendContext(m.toml.manifest, m.request)
             read == [before |-> <<>>, after |-> <<>>, makes |-> {},
                      manifest_after |-> after, issues |-> {},
                      identity_after |-> Identity(after, docs)]
  <2>1. CASE Goes(p, "execute", read)
    <3>1. "request" \notin DOMAIN read /\ Goes(p, "execute", read)
      BY <2>1
    <3> HIDE DEF read
    <3>2. m.request.op = "register" /\ "request" \in DOMAIN m
      BY <1>0, <1>9 DEF StageRegister, At, Request, PlanOK
    <3>3. m2.request = m.request  BY <1>0, <3>1, <3>2, Keeps
    <3> QED  BY <1>5, <3>2, <3>3
  <2>2. CASE Ends(p, "refused")  BY <1>e, <2>2
  <2> QED  BY <1>9, <2>1, <2>2 DEF StageRegister, Request
<1>10. CASE LoadForMove(p)
  <2>1. CASE Goes(p, "read",
                  [catalog |-> Catalog, identity |-> Identity(toml.manifest, docs)])
    <3>1. m2.pc = "read"  BY <1>0, <2>1, Keeps
    <3> QED  BY <1>4, <3>1 DEF Capturing
  <2> QED  BY <1>10, <1>e, <2>1 DEF LoadForMove
<1>11. CASE ReadMarkdown(p)
  <2> DEFINE known == m.catalog.files
             texts == [read  |-> [f \in known |-> docs[f]],
                       makes |-> {Parent[Request(p).to]} \ directories]
  <2>1. CASE Goes(p, "capture source", texts)
    <3>0. Goes(p, "capture source", texts)  BY <2>1
    <3>1. DOMAIN texts = {"read", "makes"}  OBVIOUS
    <3>1a. texts["read"] = [f \in known |-> docs[f]]  OBVIOUS
    <3> HIDE DEF texts
    <3> DEFINE next == Knows(m, "capture source", texts)
    <3>a. m2 = next  BY <1>0, <3>0, GoesOn, ZenonT(60)
    <3>b. next["pc"] = "capture source" /\ next["read"] = texts["read"]
      BY <3>1 DEF Knows, Updated
    <3> HIDE DEF next, m2
    <3>d. m2.pc = next["pc"] /\ m2["read"] = next["read"]  BY <3>a
    <3>2. m2.pc = "capture source" /\ m2["read"] = texts["read"]
      BY <3>b, <3>d
    <3>3. m2.read = [f \in known |-> docs[f]]  BY <3>1a, <3>2
    <3> HIDE DEF m2
    <3>4. TextsOf(m2, docs, missed)  BY <3>2, <3>3 DEF TextsOf, ReadTexts
    <3> QED  BY <1>3, <3>4 DEF m2
  <2> QED  BY <1>11, <1>e, <2>1 DEF ReadMarkdown
<1>12. CASE CaptureSource(p)
  <2> DEFINE read == [source |-> docs[Request(p).path]]
  <2>1. CASE Goes(p, "capture manifest", read)
    <3>1. "read" \notin DOMAIN read /\ "request" \notin DOMAIN read
          /\ Goes(p, "capture manifest", read) /\ m.pc \in Capturing
      BY <1>12, <2>1 DEF CaptureSource, At, Capturing
    <3> HIDE DEF read
    <3> QED  BY <1>6, <3>1 DEF Capturing
  <2> QED  BY <1>12, <1>e, <2>1 DEF CaptureSource
<1>13. CASE CaptureManifest(p)
  <2> DEFINE read == [toml |-> toml]
  <2>1. CASE Goes(p, "stage", read)
    <3>1. "read" \notin DOMAIN read /\ "request" \notin DOMAIN read
          /\ Goes(p, "stage", read) /\ m.pc \in Capturing
      BY <1>13, <2>1 DEF CaptureManifest, At, Capturing
    <3> HIDE DEF read
    <3> QED  BY <1>6, <3>1 DEF Capturing
  <2> QED  BY <1>13, <1>e, <2>1 DEF CaptureManifest
<1>14. CASE StageMove(p)
  <2> DEFINE read == [after |-> PlannedAfter(p), manifest_after |-> ManifestAfter(p),
                      issues |-> Issues(StagedMove(p)),
                      can_apply |-> NowhereMentioned(Request(p).path),
                      identity_after |-> Identity(ManifestAfter(p), StagedMove(p))]
  <2>1. CASE Goes(p, "capture referring", read)
    <3>1. "read" \notin DOMAIN read /\ "request" \notin DOMAIN read
          /\ Goes(p, "capture referring", read) /\ m.pc \in Capturing
      BY <1>14, <2>1 DEF StageMove, At, Capturing
    <3> HIDE DEF read
    <3> QED  BY <1>6, <3>1 DEF Capturing
  <2> QED  BY <1>14, <1>e, <2>1 DEF StageMove
<1>15. CASE CaptureReferring(p)
  <2> DEFINE r == m.request
             captured == [f \in DOMAIN m.after |->
                            CASE f = r.to   -> Absent
                              [] f = r.path -> m.source
                              [] OTHER      -> docs[f]]
             read == [before |-> captured]
  <2>1. CASE Goes(p, "execute", read)
    <3>1. /\ "before" \in DOMAIN read \ {"pc"} /\ read["before"] = captured
          /\ DOMAIN read = {"before"} /\ Goes(p, "execute", read)
      BY <2>1
    <3>2. \A f \in DOMAIN m.after \ {r.path, r.to} : captured[f] = docs[f]  OBVIOUS
    <3>3. /\ m.pc = "capture referring" /\ r.op = "move" /\ r \in Requests
          /\ LoadOK(m) /\ ReadOK(m) /\ StagedOK(m)
      BY <1>0, <1>15
         DEF CaptureReferring, At, PlanOK, OfMoves, AfterLoad, AfterRead, AfterSource,
             AfterManifest, AfterStage
    <3> HIDE DEF read, captured
    <3>4. {"request", "read", "after"} \subseteq DOMAIN m
      BY <3>3 DEF LoadOK, ReadOK, StagedOK
    <3>5. m2["before"] = read["before"] /\ m2.pc = "execute"
      BY <1>0, <3>1, Keeps
    <3>6. m2.request = m.request /\ m2.read = m.read /\ m2.after = m.after
      BY <1>0, <3>1, <3>4, Keeps
    <3>7. \A f \in DOMAIN m.after \ {r.path, r.to} : f \in DOMAIN m.read \ {r.path}
      BY <3>3, AfterDocuments, ZenonT(60) DEF StagedOK, ReadOK
    <3>8. \A f \in DOMAIN m.after \ {r.path, r.to} : f \notin missed => docs[f] = m.read[f]
      BY <1>0, <3>3, <3>7 DEF TextsOf, ReadTexts, Capturing
    <3>9. m2.before = captured  BY <3>1, <3>5
    <3> HIDE DEF m2, m
    <3>10. PlannedTexts(m2, missed)
      BY <3>2, <3>6, <3>8, <3>9 DEF PlannedTexts
    <3>11. TextsOf(m2, docs, missed)
      BY <3>5, <3>10 DEF TextsOf, ReadTexts, Capturing
    <3> QED  BY <1>3, <3>11
  <2>2. CASE Ends(p, "refused")  BY <1>e, <2>2
  <2> QED  BY <1>15, <2>1, <2>2 DEF CaptureReferring, Request
<1>16. CASE LoadForCreate(p)
  <2>1. CASE Goes(p, "directory", [manifest |-> toml.manifest])
    <3>1. m2.pc = "directory"  BY <1>0, <2>1, Keeps
    <3> QED  BY <1>4, <3>1 DEF Capturing
  <2> QED  BY <1>16, <1>e, <2>1 DEF LoadForCreate
<1>17. CASE EnsureDirectory(p)
  <2>1. CASE Goes(p, "recheck", <<>>)
    <3>1. m2.pc = "recheck"  BY <1>0, <2>1, Keeps
    <3> QED  BY <1>4, <3>1 DEF Capturing
  <2> QED  BY <1>17, <1>e, <2>1 DEF EnsureDirectory
<1>18. CASE RecheckDestination(p)
  <2>1. CASE Goes(p, "link", <<>>)
    <3>1. m2.pc = "link"  BY <1>0, <2>1, Keeps
    <3> QED  BY <1>4, <3>1 DEF Capturing
  <2> QED  BY <1>18, <1>e, <2>1 DEF RecheckDestination
<1> QED
  BY <1>7, <1>8, <1>9, <1>10, <1>11, <1>12, <1>13, <1>14, <1>15, <1>16, <1>17, <1>18
     DEF Register, Move
-----------------------------------------------------------------------------
\* The documents that change in a publication, in a recovery and in an edit are
\* marked for the moves that have read them.
LEMMA MissesAreSeen ==
  ASSUME NEW changes, Misses(changes), \A f \in Path : docs'[f] # docs[f] => f \in changes
  PROVE  SeenChanges
  BY DEF SeenChanges, Misses

LEMMA WritesAreSeen ==
  ASSUME FilesOK, NEW m, NEW side \in {"before", "after"}, PlanOK(m, clock),
         m.pc \in Complete, Write(m, side), Misses(DOMAIN m.after), UNCHANGED linked,
         \A f \in DOMAIN m.after : f \notin linked
  PROVE  SeenChanges
<1>1. \A f \in Path \ DOMAIN m.after : docs'[f] = docs[f]  BY Written
<1> QED  BY <1>1, MissesAreSeen

\* What a publication finds is what it planned from.
LEMMA AsPlannedFacts ==
  ASSUME ShapeInv, NEW p \in Proc, At(p, "execute"), StillAsPlanned(p)
  PROVE  /\ PlanOK(memory[p], clock) /\ memory[p].pc \in Complete /\ FilesOK
         /\ \A f \in DOMAIN memory[p].after : docs[f] = memory[p].before[f] /\ f \notin linked
<1> DEFINE m == memory[p]
<1>1. /\ PlanOK(m, clock) /\ Unlinked(m) /\ m.pc = "execute" /\ FilesOK /\ clock \in Nat
      /\ \A f \in DOMAIN m.before : docs[f] = m.before[f]
  BY DEF ShapeInv, PlansOK, At, FilesOK, StillAsPlanned
<1>2. \A f \in DOMAIN m.before : Exists(m.before[f]) => f \notin linked
  BY <1>1 DEF Unlinked
<1> HIDE DEF m
<1>3. m.pc \in Complete  BY <1>1 DEF Complete
<1>4. DOMAIN m.before = DOMAIN m.after /\ DOMAIN m.after \subseteq Path
  BY <1>1, <1>3, PlannedDocuments
<1>5. \A f \in DOMAIN m.after : docs[f] = m.before[f] /\ f \notin linked
  BY <1>1, <1>2, <1>4 DEF FilesOK, ContextFiles
<1> QED  BY <1>1, <1>3, <1>5 DEF m

LEMMA FilesKeepTexts ==
  ASSUME ShapeInv, TextsInv, SeenChanges, UNCHANGED <<journal, memory>>
  PROVE  TextsInv'
<1>1. journal' = None \/ (journal # None /\ journal'.plan = journal.plan)  OBVIOUS
<1>2. \A q \in Proc : memory'[q] # memory[q] => TextsOf(memory'[q], docs', missed')
  OBVIOUS
<1> QED  BY <1>1, <1>2, TextsStay

LEMMA StepKeepsTexts ==
  ASSUME ShapeInv, TextsInv, [Next]_vars
  PROVE  TextsInv'
<1>0. DOMAIN memory = Proc /\ FilesOK /\ clock \in Nat
  BY DEF ShapeInv, PlansOK, FilesOK
<1>s. journal' = journal => journal' = None \/ (journal # None /\ journal'.plan = journal.plan)
  OBVIOUS
<1>1. ASSUME NEW p \in Proc,
             \/ Give(p) \/ Register(p) \/ Move(p) \/ CaptureManifest(p)
             \/ LoadForCreate(p) \/ EnsureDirectory(p) \/ RecheckDestination(p)
      PROVE  TextsInv'
  BY <1>1, PlanningKeepsTexts
<1>2. ASSUME NEW p \in Proc, LinkScaffold(p) PROVE TextsInv'
  <2> DEFINE path == memory[p].request.path
  <2>1. memory[p].request \in Requests
    BY <1>2 DEF ShapeInv, PlansOK, PlanOK, LinkScaffold, At
  <2>2. path \in Path  BY <2>1, RequestFields
  <2>3. UNCHANGED missed /\ \A f \in Path : docs'[f] # docs[f] => ~Exists(docs[f])
    BY <1>0, <1>2, <2>2 DEF LinkScaffold, LinkSucceeds, Request, FilesOK
  <2>4. SeenChanges  BY <2>3 DEF SeenChanges
  <2>5. \A q \in Proc : memory'[q] # memory[q] => TextsOf(memory'[q], docs', missed')
    <3>1. CASE Goes(p, "unlink", <<>>)
      <4>1. memory'[p].pc = "unlink" /\ \A q \in Proc \ {p} : memory'[q] = memory[q]
        BY <1>0, <3>1, Keeps
      <4>2. TextsOf(memory'[p], docs', missed')
        BY <4>1 DEF TextsOf, ReadTexts, Capturing
      <4> QED  BY <4>1, <4>2
    <3>2. CASE Ends(p, "refused")
      <4>1. memory'[p] = Idle /\ \A q \in Proc \ {p} : memory'[q] = memory[q]
        BY <1>0, <3>2, EndsAt
      <4> QED  BY <4>1, IdleTexts
    <3> QED  BY <1>2, <3>1, <3>2 DEF LinkScaffold
  <2>6. UNCHANGED journal  BY <1>2 DEF LinkScaffold
  <2> QED  BY <1>s, <2>4, <2>5, <2>6, TextsStay
<1>3. ASSUME NEW p \in Proc, UnlinkScaffoldTemporary(p) \/ Crash(p) \/ Validate(p)
      PROVE  TextsInv'
  <2>1. /\ UNCHANGED <<docs, missed>> /\ (journal' = None \/ journal' = journal)
        /\ \E result : Ends(p, result)
    BY <1>3 DEF UnlinkScaffoldTemporary, Crash, Validate, files
  <2>2. memory'[p] = Idle /\ \A q \in Proc \ {p} : memory'[q] = memory[q]
    BY <1>0, <2>1, EndsAt
  <2>3. \A q \in Proc : memory'[q] # memory[q] => TextsOf(memory'[q], docs', missed')
    BY <2>2, IdleTexts
  <2>4. SeenChanges  BY <2>1, NothingSeen
  <2>5. journal' = None \/ (journal # None /\ journal'.plan = journal.plan)
    BY <2>1
  <2> QED  BY <2>3, <2>4, <2>5, TextsStay
<1>4. ASSUME NEW p \in Proc, Execute(p) PROVE TextsInv'
  <2> DEFINE m == memory[p]
  <2>1. CASE Ends(p, "cas_conflict") /\ UNCHANGED <<docs, journal, missed>>
    <3>2. memory'[p] = Idle /\ \A q \in Proc \ {p} : memory'[q] = memory[q]
      BY <1>0, <2>1, EndsAt
    <3>3. \A q \in Proc : memory'[q] # memory[q] => TextsOf(memory'[q], docs', missed')
      BY <3>2, IdleTexts
    <3>4. SeenChanges  BY <2>1, NothingSeen
    <3> QED  BY <1>s, <2>1, <3>3, <3>4, TextsStay
  <2>2. CASE /\ StillAsPlanned(p) /\ Write(m, "after") /\ Goes(p, "validate", <<>>)
             /\ journal' = [plan |-> m, by |-> p, side |-> "after", stamp |-> clock + 1]
             /\ Misses(DOMAIN m.after)
    <3>1. /\ At(p, "execute") /\ UNCHANGED linked
      BY <1>4 DEF Execute
    <3>2. /\ PlanOK(m, clock) /\ m.pc \in Complete
          /\ \A f \in DOMAIN m.after : docs[f] = m.before[f] /\ f \notin linked
      BY <2>2, <3>1, AsPlannedFacts
    <3>3. /\ memory'[p].pc = "validate" /\ \A q \in Proc \ {p} : memory'[q] = memory[q]
      BY <1>0, <2>2, Keeps
    <3>4. TextsOf(memory'[p], docs', missed')
      BY <3>3 DEF TextsOf, ReadTexts, Capturing
    <3>5. m.pc = "execute" /\ TextsOf(m, docs, missed)
      BY <3>1 DEF At, TextsInv
    <3>6. journal'.plan = m  BY <2>2
    <3>7. missed \subseteq missed'  BY <2>2 DEF Misses
    <3>w. Write(m, "after") /\ Misses(DOMAIN m.after)  BY <2>2
    <3> HIDE DEF m
    <3>8. SeenChanges  BY <1>0, <3>1, <3>2, <3>w, WritesAreSeen
    <3>9. PlannedTexts(journal'.plan, missed')
      BY <3>5, <3>6, <3>7 DEF TextsOf, PlannedTexts
    <3>10. \A q \in Proc : memory'[q] # memory[q] => TextsOf(memory'[q], docs', missed')
      BY <3>3, <3>4
    <3> QED  BY <3>8, <3>9, <3>10, TextsStay
  <2> QED  BY <1>4, <2>1, <2>2 DEF Execute
<1>5. ASSUME NEW side \in {"before", "after"}, Recover(side) PROVE TextsInv'
  <2> DEFINE m == journal.plan
  <2>1. /\ AsWritten /\ Write(m, side) /\ Misses(DOMAIN m.after) /\ journal # None /\ JournalOK
        /\ journal' = [journal EXCEPT !.side = side, !.stamp = clock + 1]
        /\ UNCHANGED <<memory, linked>>
    BY <1>5 DEF Recover, ShapeInv
  <2>2. /\ PlanOK(m, clock) /\ m.pc \in Complete
        /\ {"plan", "by", "side", "stamp"} \subseteq DOMAIN journal
    BY <2>1 DEF JournalOK, Complete
  <2>3. \A f \in DOMAIN m.after : f \notin linked  BY <1>0, <2>1, WrittenFilesAreUnlinked
  <2>4. journal'.plan = journal.plan  BY <2>1, <2>2
  <2>w. Write(m, side) /\ Misses(DOMAIN m.after)  BY <2>1
  <2>6. \A q \in Proc : memory'[q] # memory[q] => TextsOf(memory'[q], docs', missed')
    BY <2>1
  <2> HIDE DEF m
  <2>5. SeenChanges  BY <1>0, <2>1, <2>2, <2>3, <2>w, WritesAreSeen
  <2>7. journal' = None \/ (journal # None /\ journal'.plan = journal.plan)
    BY <2>1, <2>4
  <2> QED  BY <2>5, <2>6, <2>7, TextsStay
<1>6. CASE Settle
  <2>1. SeenChanges  BY <1>6, NothingSeen DEF Settle
  <2>2. journal' = None \/ (journal # None /\ journal'.plan = journal.plan)
    BY <1>6 DEF Settle
  <2>3. \A q \in Proc : memory'[q] # memory[q] => TextsOf(memory'[q], docs', missed')
    BY <1>6 DEF Settle
  <2> QED  BY <2>1, <2>2, <2>3, TextsStay
<1>7. CASE People
  <2>1. ASSUME NEW f \in EditedPaths, EditDocument(f) \/ DeleteDocument(f) PROVE TextsInv'
    <3>1. \A g \in Path : docs'[g] # docs[g] => g \in {f}
      BY <1>0, <2>1 DEF EditDocument, DeleteDocument, FilesOK
    <3>2. SeenChanges  BY <2>1, <3>1, MissesAreSeen DEF EditDocument, DeleteDocument
    <3> QED  BY <2>1, <3>2, FilesKeepTexts DEF EditDocument, DeleteDocument, Edit
  <2>2. ASSUME NEW f \in EditedPaths, MentionPath(f) PROVE TextsInv'
    BY <2>2, NothingSeen, FilesKeepTexts DEF MentionPath, Edit
  <2>3. CASE EditManifest  BY <2>3, NothingSeen, FilesKeepTexts DEF EditManifest, Edit
  <2> QED  BY <1>7, <2>1, <2>2, <2>3 DEF People
<1>8. CASE UNCHANGED vars  BY <1>8, NothingSeen, FilesKeepTexts DEF vars, files
<1> QED
  BY <1>1, <1>2, <1>3, <1>4, <1>5, <1>6, <1>7, <1>8 DEF Next, Create, Publish

LEMMA TextsInvariant == Spec => []TextsInv
<1>1. Init => TextsInv  BY IdleTexts DEF Init, TextsInv
<1>2. ShapeInv /\ TextsInv /\ [Next]_vars => TextsInv'  BY StepKeepsTexts
<1> QED  BY <1>1, <1>2, ShapeInvariant, PTL DEF Spec

(***************************************************************************)
(* What a publication or a recovery leaves of a text.                      *)
(***************************************************************************)
\* One text, but for the links to the document that r moves.
SameText(doc, kept, r) ==
  kept.body = doc.body /\ kept.links \ {r.path, r.to} = doc.links \ {r.path, r.to}

LEMMA PatchedText ==
  ASSUME NEW r \in Requests, r.op = "move", NEW doc \in Doc
  PROVE  SameText(doc, PatchLinks(doc, r.path, r.to), r)
<1>1. r.path \in Path /\ r.to \in Path  BY RequestFields
<1>2. /\ PatchLinks(doc, r.path, r.to).body = doc.body
      /\ PatchLinks(doc, r.path, r.to).links = {Redirect(t, r.path, r.to) : t \in doc.links}
  BY <1>1, PatchedDocument
<1>3. {Redirect(t, r.path, r.to) : t \in doc.links} \ {r.path, r.to}
        = doc.links \ {r.path, r.to}
  BY DEF Redirect
<1> QED  BY <1>2, <1>3 DEF SameText

\* The two sides of a plan of a move, document by document.
LEMMA SidesOfAMove ==
  ASSUME NEW m, NEW now \in Nat, NEW gone, PlanOK(m, now), m.pc \in Complete,
         m.request.op = "move", PlannedTexts(m, gone)
  PROVE  LET r == m.request IN
         /\ r \in Requests /\ r.path \in DOMAIN m.after /\ r.to \in DOMAIN m.after
         /\ r.path # r.to
         /\ m.before[r.to] = Absent /\ m.after[r.path] = Absent
         /\ SameText(m.before[r.path], m.after[r.to], r)
         /\ SameText(m.after[r.to], m.before[r.path], r)
         /\ \A f \in DOMAIN m.after \ {r.path, r.to} : f \notin gone =>
              SameText(m.before[f], m.after[f], r) /\ SameText(m.after[f], m.before[f], r)
<1> DEFINE r == m.request
<1>1. /\ r \in Requests /\ m.after = AfterOf(m) /\ LoadOK(m) /\ ReadOK(m) /\ SourceOK(m, now)
      /\ m.before[r.to] = Absent /\ m.before[r.path] = m.source
  BY DEF PlanOK, Complete, AfterLoad, AfterRead, AfterSource, AfterManifest, AfterStage,
         StagedOK, CompleteOK
<1>2. /\ r.path \in m.catalog.files
      /\ ReferringOf(m) \subseteq m.catalog.files \ {r.path}
      /\ DOMAIN m.after = {r.path, r.to} \cup ReferringOf(m)
      /\ m.after[r.path] = Absent
      /\ m.after[r.to] = PatchLinks(m.read[r.path], r.path, r.to)
      /\ \A f \in ReferringOf(m) : m.after[f] = PatchLinks(m.read[f], r.path, r.to)
  BY <1>1, AfterDocuments
<1>3. r.path # r.to  BY <1>1, RequestFields
<1>4. m.read[r.path] \in Doc /\ \A f \in ReferringOf(m) : m.read[f] \in Doc
  BY <1>1, <1>2 DEF ReadOK
<1>5. ASSUME NEW doc \in Doc, NEW captured, Content(captured) = Content(doc)
      PROVE  /\ SameText(captured, PatchLinks(doc, r.path, r.to), r)
             /\ SameText(PatchLinks(doc, r.path, r.to), captured, r)
  <2>1. SameText(doc, PatchLinks(doc, r.path, r.to), r)  BY <1>1, PatchedText
  <2>2. captured.body = doc.body /\ captured.links = doc.links  BY <1>5 DEF Content
  <2> QED  BY <2>1, <2>2 DEF SameText
<1>6. /\ SameText(m.before[r.path], m.after[r.to], r)
      /\ SameText(m.after[r.to], m.before[r.path], r)
  BY <1>1, <1>2, <1>4, <1>5 DEF SourceOK
<1>7. ASSUME NEW f \in DOMAIN m.after \ {r.path, r.to}, f \notin gone
      PROVE  SameText(m.before[f], m.after[f], r) /\ SameText(m.after[f], m.before[f], r)
  <2>1. f \in ReferringOf(m)  BY <1>2, <1>7
  <2>2. Content(m.before[f]) = Content(m.read[f])  BY <1>7 DEF PlannedTexts
  <2> QED  BY <1>2, <1>4, <1>5, <2>1, <2>2
<1> QED  BY <1>1, <1>2, <1>3, <1>6, <1>7

\* The documents are on one side of the plan up to their identities, and go to
\* the other.
LEMMA SidesKeepTexts ==
  ASSUME FilesOK, NEW m, PlanOK(m, clock), m.pc \in Complete, PlannedTexts(m, missed),
         NEW from \in {"before", "after"}, NEW side \in {"before", "after"}, from # side,
         \A f \in DOMAIN m.after :
           /\ Exists(docs[f]) => SameText(m[from][f], docs[f], m.request)
                                 /\ SameText(docs[f], m[from][f], m.request)
           /\ m[from][f] = Absent => ~Exists(docs[f])
           /\ docs'[f] = Stamped(m[side][f]) /\ m[side][f] \in Doc,
         \A f \in Path \ DOMAIN m.after : docs'[f] = docs[f]
  PROVE  \A f \in Path \ missed : Survives(f)
<1> DEFINE r == m.request
<1>0. clock \in Nat  BY DEF FilesOK
<1>1. ASSUME NEW f, docs'[f] = docs[f] PROVE Survives(f)
  <2> DEFINE none == [op |-> "move", path |-> None, to |-> None]
  <2>1. none.op = "move" /\ none \in Requests \cup {[op |-> "move", path |-> None, to |-> None]}
    OBVIOUS
  <2>2. TextKept(docs[f], docs'[f])  BY <1>1, <2>1 DEF TextKept
  <2> QED  BY <2>2 DEF Survives
<1>2. ASSUME r.op = "move", NEW f \in DOMAIN m.after, f \notin missed, Exists(docs[f])
      PROVE  Survives(f)
  <2>1. /\ r \in Requests /\ r.path \in DOMAIN m.after /\ r.to \in DOMAIN m.after
        /\ r.path # r.to
        /\ m.before[r.to] = Absent /\ m.after[r.path] = Absent
        /\ SameText(m.before[r.path], m.after[r.to], r)
        /\ SameText(m.after[r.to], m.before[r.path], r)
        /\ \A g \in DOMAIN m.after \ {r.path, r.to} : g \notin missed =>
             SameText(m.before[g], m.after[g], r) /\ SameText(m.after[g], m.before[g], r)
    BY <1>0, <1>2, SidesOfAMove
  <2> DEFINE other == IF f = r.path THEN r.to ELSE IF f = r.to THEN r.path ELSE f
  <2>2. /\ other \in DOMAIN m.after /\ SameText(m[from][f], m[side][other], r)
        /\ f \in {r.path, r.to} => other \in {r.path, r.to}
        /\ f \notin {r.path, r.to} => other = f
    <3>1. CASE from = "before" /\ side = "after"
      <4>1. f # r.to  BY <1>2, <2>1, <3>1
      <4> QED  BY <1>2, <2>1, <3>1, <4>1
    <3>2. CASE from = "after" /\ side = "before"
      <4>1. f # r.path  BY <1>2, <2>1, <3>2
      <4> QED  BY <1>2, <2>1, <3>2, <4>1
    <3> QED  BY <3>1, <3>2
  <2> HIDE DEF other
  <2> DEFINE doc == m[side][other]
  <2>3. doc \in Doc /\ docs'[other] = Stamped(doc)  BY <2>2
  <2>4. SameText(docs[f], m[from][f], r) /\ SameText(m[from][f], doc, r)
    BY <1>2, <2>2
  <2> HIDE DEF doc
  <2>5. SameText(doc, docs'[other], r)
    <3>1. CASE Exists(doc)
      <4>1. Stamped(doc).body = doc.body /\ Stamped(doc).links = doc.links
        BY <1>0, <2>3, <3>1, StampedDocument
      <4> QED  BY <2>3, <4>1 DEF SameText
    <3>2. CASE ~Exists(doc)
      <4>1. docs[f].body = doc.body  BY <2>4 DEF SameText
      <4> QED  BY <1>2, <3>2, <4>1 DEF Exists
    <3> QED  BY <3>1, <3>2
  <2>6. SameText(docs[f], docs'[other], r)  BY <2>4, <2>5, SMTT(30) DEF SameText
  <2>7. TextKept(docs[f], docs'[other])
    BY <1>2, <2>1, <2>6 DEF TextKept, SameText
  <2>8. CASE f \in {r.path, r.to}
    BY <1>2, <2>1, <2>2, <2>7, <2>8 DEF Survives
  <2>9. CASE f \notin {r.path, r.to}  BY <2>2, <2>7, <2>9 DEF Survives
  <2> QED  BY <2>8, <2>9
<1>3. ASSUME NEW f \in Path \ missed PROVE Survives(f)
  <2>1. CASE f \notin DOMAIN m.after  BY <1>1, <2>1
  <2>2. CASE f \in DOMAIN m.after
    <3>1. r.op = "move"
      BY <1>0, <2>2, PlannedDocuments
    <3>2. CASE Exists(docs[f])  BY <1>2, <1>3, <2>2, <3>1, <3>2
    <3>3. CASE ~Exists(docs[f])  BY <3>3 DEF Survives
    <3> QED  BY <3>2, <3>3
  <2> QED  BY <2>1, <2>2
<1> QED  BY <1>3
LEMMA SameIsSameText == ASSUME NEW doc, NEW r PROVE SameText(doc, doc, r)
  BY DEF SameText

LEMMA StepKeepsCapturedTexts ==
  ASSUME ShapeInv, TextsInv, [Next]_vars, ~People
  PROVE  \A f \in Path \ missed : Survives(f)
<1>0. FilesOK /\ clock \in Nat  BY DEF ShapeInv, FilesOK
<1>1. ASSUME NEW f, Exists(docs[f]) => docs'[f] = docs[f] PROVE Survives(f)
  <2> DEFINE none == [op |-> "move", path |-> None, to |-> None]
  <2>1. none.op = "move" /\ none \in Requests \cup {[op |-> "move", path |-> None, to |-> None]}
    OBVIOUS
  <2>2. Exists(docs[f]) => TextKept(docs[f], docs'[f])  BY <1>1, <2>1 DEF TextKept
  <2> QED  BY <2>2 DEF Survives
<1>2. ASSUME UNCHANGED docs PROVE \A f \in Path \ missed : Survives(f)  BY <1>1, <1>2
<1>3. ASSUME NEW p \in Proc,
             \/ Give(p) \/ Register(p) \/ Move(p) \/ CaptureManifest(p)
             \/ LoadForCreate(p) \/ EnsureDirectory(p) \/ RecheckDestination(p)
      PROVE  \A f \in Path \ missed : Survives(f)
  <2>1. UNCHANGED docs  BY <1>3, PlanningIsAlone DEF Alone
  <2> QED  BY <1>2, <2>1
<1>4. ASSUME NEW p \in Proc, UnlinkScaffoldTemporary(p) \/ Crash(p) \/ Validate(p)
      PROVE  \A f \in Path \ missed : Survives(f)
  <2>1. UNCHANGED docs  BY <1>4 DEF UnlinkScaffoldTemporary, Crash, Validate, files
  <2> QED  BY <1>2, <2>1
<1>5. ASSUME NEW p \in Proc, LinkScaffold(p) PROVE \A f \in Path \ missed : Survives(f)
  <2> DEFINE path == memory[p].request.path
  <2>1. memory[p].request \in Requests
    BY <1>5 DEF ShapeInv, PlansOK, PlanOK, LinkScaffold, At
  <2>2. path \in Path  BY <2>1, RequestFields
  <2>3. \A f \in Path : Exists(docs[f]) => docs'[f] = docs[f]
    BY <1>0, <1>5, <2>2 DEF LinkScaffold, LinkSucceeds, Request, FilesOK
  <2> QED  BY <1>1, <2>3
<1>6. ASSUME NEW p \in Proc, Execute(p) PROVE \A f \in Path \ missed : Survives(f)
  <2> DEFINE m == memory[p]
  <2>1. CASE UNCHANGED docs  BY <1>2, <2>1
  <2>2. CASE StillAsPlanned(p) /\ Write(m, "after")
    <3>1. At(p, "execute") /\ UNCHANGED linked  BY <1>6 DEF Execute
    <3>2. /\ PlanOK(m, clock) /\ m.pc \in Complete
          /\ \A f \in DOMAIN m.after : docs[f] = m.before[f] /\ f \notin linked
      BY <2>2, <3>1, AsPlannedFacts
    <3>3. PlannedTexts(m, missed)  BY <3>1 DEF TextsInv, TextsOf, At
    <3>w. Write(m, "after")  BY <2>2
    <3> HIDE DEF m
    <3>4. /\ \A f \in DOMAIN m.after : docs'[f] = Stamped(m["after"][f]) /\ m["after"][f] \in Doc
          /\ \A f \in Path \ DOMAIN m.after : docs'[f] = docs[f]
      BY <1>0, <3>1, <3>2, <3>w, Written
    <3>5. \A f \in DOMAIN m.after :
            /\ Exists(docs[f]) => SameText(m["before"][f], docs[f], m.request)
                                  /\ SameText(docs[f], m["before"][f], m.request)
            /\ m["before"][f] = Absent => ~Exists(docs[f])
      BY <3>2, SameIsSameText, AbsentIsNoDocument
    <3> QED  BY <1>0, <3>2, <3>3, <3>4, <3>5, SidesKeepTexts
  <2> QED  BY <1>6, <2>1, <2>2 DEF Execute
<1>7. ASSUME NEW side \in {"before", "after"}, Recover(side)
      PROVE  \A f \in Path \ missed : Survives(f)
  <2> DEFINE m == journal.plan
             from == journal.side
  <2>1. /\ AsWritten /\ Write(m, side) /\ journal # None /\ JournalOK
        /\ side # from /\ UNCHANGED linked
    BY <1>7 DEF Recover, ShapeInv
  <2>2. /\ PlanOK(m, clock) /\ m.pc \in Complete /\ from \in {"before", "after"}
    BY <2>1 DEF JournalOK, Complete
  <2>3. \A f \in DOMAIN m.after : f \notin linked  BY <1>0, <2>1, WrittenFilesAreUnlinked
  <2>4. PlannedTexts(m, missed)  BY <2>1 DEF TextsInv
  <2>5. \A f \in DOMAIN m.after :
          docs[f] = IF Exists(m[from][f]) THEN [m[from][f] EXCEPT !.stamp = journal.stamp]
                    ELSE Absent
    BY <2>1 DEF AsWritten
  <2>w. Write(m, side)  BY <2>1
  <2>d. side # from  BY <2>1
  <2> HIDE DEF m, from
  <2>6. /\ \A f \in DOMAIN m.after : docs'[f] = Stamped(m[side][f]) /\ m[side][f] \in Doc
        /\ \A f \in Path \ DOMAIN m.after : docs'[f] = docs[f]
    BY <1>0, <2>1, <2>2, <2>3, <2>w, Written
  <2>7. ASSUME NEW f \in DOMAIN m.after
        PROVE  /\ Exists(docs[f]) => SameText(m[from][f], docs[f], m.request)
                                     /\ SameText(docs[f], m[from][f], m.request)
               /\ m[from][f] = Absent => ~Exists(docs[f])
    <3> DEFINE doc == m[from][f]
    <3>1. doc \in Doc  BY <1>0, <2>2, PlannedDocuments
    <3>2. docs[f] = IF Exists(doc) THEN [doc EXCEPT !.stamp = journal.stamp] ELSE Absent
      BY <2>5
    <3> HIDE DEF doc
    <3>3. CASE Exists(doc)
      <4>1. docs[f].body = doc.body /\ docs[f].links = doc.links
        BY <3>1, <3>2, <3>3 DEF Doc
      <4>2. doc # Absent  BY <3>3, AbsentIsNoDocument
      <4> QED  BY <4>1, <4>2 DEF SameText, doc
    <3>4. CASE ~Exists(doc)  BY <3>2, <3>4, AbsentIsNoDocument
    <3> QED  BY <3>3, <3>4
  <2> QED  BY <1>0, <2>2, <2>d, <2>4, <2>6, <2>7, SidesKeepTexts
<1>8. CASE Settle
  <2>1. UNCHANGED docs  BY <1>8 DEF Settle
  <2> QED  BY <1>2, <2>1
<1>9. CASE UNCHANGED vars
  <2>1. UNCHANGED docs  BY <1>9 DEF vars, files
  <2> QED  BY <1>2, <2>1
<1> QED
  BY <1>3, <1>4, <1>5, <1>6, <1>7, <1>8, <1>9 DEF Next, Create, Publish

\* Nothing that people wrote is lost in a step of a command: it is still there under
\* its name or the one it was moved to, with its links, unless a move had read the
\* document and not captured it when it changed (context-move.ts:127,
\* mutation-commit.ts:62-64, context-create-write.ts:48).  A publication is one step
\* here: the window between a file's last comparison and its rename is excepted, as
\* it is in MutationTransactionProofs' OthersFilesSurvive.
THEOREM CapturedTextsAreKept == Spec => CapturedTextsSurvive
<1>1. ShapeInv /\ TextsInv /\ EditsInv /\ [Next]_vars
      => [ByCommand => \A f \in Path \ missed : Survives(f)]_vars
  <2> SUFFICES ASSUME ShapeInv, TextsInv, edits \in Nat, [Next]_vars, ByCommand
               PROVE  \A f \in Path \ missed : Survives(f)
    BY DEF EditsInv
  <2>1. ~People  BY PeopleAreCounted DEF ByCommand
  <2> QED  BY <2>1, StepKeepsCapturedTexts
<1> QED
  BY <1>1, ShapeInvariant, TextsInvariant, EditsInvariant, PTL DEF Spec, CapturedTextsSurvive
-----------------------------------------------------------------------------
(***************************************************************************)
(* The Catalog that commands leave, when people edit nothing.              *)
(***************************************************************************)
\* Two files of one key are of a create and another create or a move.
Apart(paths) == \A c, d \in paths : c # d /\ SameKey(c, d) => Race(c, d)
SoundFor(manifest, paths) ==
  manifest.parses /\ ManifestErrors(manifest, paths) = {} /\ Apart(paths)

\* The files there are when a side of a plan is written over the documents.
FilesWith(m, side, documents) == ContextFiles(Updated(documents, m[side]))
\* The documents that a move changes and does not move.
Others(m) == DOMAIN m.after \ PathsOf(m.request)

StagedSound(m, now, documents) ==
  m.pc \in {"capture referring", "execute"} /\ now = m.toml =>
    /\ SoundFor(m.manifest_after, FilesWith(m, "after", documents))
    /\ Others(m) \subseteq ContextFiles(documents)
CreateSound(m, documents) ==
  m.pc \in {"directory", "recheck", "link"} =>
    \A d \in ContextFiles(documents) :
      SameKey(d, m.request.path) => d = m.request.path \/ Race(m.request.path, d)
PlanSound(m, now, documents) == StagedSound(m, now, documents) /\ CreateSound(m, documents)

JournalSound(m, documents) ==
  /\ SoundFor(m.manifest_after, FilesWith(m, "after", documents))
  /\ SoundFor(m.toml.manifest, FilesWith(m, "before", documents))
  /\ Others(m) \subseteq ContextFiles(documents)

CatalogInv ==
  edits = 0 =>
    /\ SoundFor(toml.manifest, ContextFiles(docs))
    /\ \A p \in Proc : PlanSound(memory[p], toml, docs)
    /\ journal # None => JournalSound(journal.plan, docs)

LEMMA RacesAreMutual == \A c, d : Race(c, d) => Race(d, c)
  BY DEF Race, SameKey

\* A name that a create was given races with every name of a create or a move.
LEMMA CreatesRace ==
  ASSUME NEW r \in Requests, r.op = "create", NEW s \in Requests,
         s.op \in {"create", "move"}, NEW d \in PathsOf(s), SameKey(d, r.path), d # r.path
  PROVE  Race(r.path, d)
  BY DEF Race, SameKey

LEMMA OneMoreFile ==
  ASSUME NEW manifest, NEW paths, NEW c, SoundFor(manifest, paths),
         \A d \in paths : SameKey(d, c) => d = c \/ Race(c, d)
  PROVE  SoundFor(manifest, paths \cup {c})
<1>1. ManifestErrors(manifest, paths \cup {c}) = {}  BY MoreFiles DEF SoundFor
<1>2. \A d \in paths : SameKey(c, d) => SameKey(d, c)  BY DEF SameKey
<1>3. Apart(paths \cup {c})  BY <1>2, RacesAreMutual DEF SoundFor, Apart
<1> QED  BY <1>1, <1>3 DEF SoundFor

\* What a load of the Catalog without error says.
LEMMA LoadedIsSound ==
  ASSUME NEW manifest, NEW paths, NEW twice, CatalogErrors(manifest, paths, twice) = {}
  PROVE  SoundFor(manifest, paths)
<1>1. /\ Collisions(paths) = {} /\ manifest.parses
      /\ ManifestErrors(manifest, paths \ twice) = {}
  BY CatalogErrorFree
<1>2. paths \ twice \subseteq paths  OBVIOUS
<1>3. ManifestErrors(manifest, paths) = {}  BY <1>1, <1>2, MoreFiles
<1>4. Apart(paths)  BY <1>1 DEF Collisions, Apart, SameKey
<1> QED  BY <1>1, <1>3, <1>4 DEF SoundFor

LEMMA OverlaidFiles ==
  ASSUME NEW documents, DOMAIN documents = Path, NEW over, DOMAIN over \subseteq Path
  PROVE  /\ ContextFiles(Updated(documents, over)) \subseteq Path
         /\ \A f \in Path : f \in ContextFiles(Updated(documents, over)) <=>
              IF f \in DOMAIN over THEN Exists(over[f]) ELSE f \in ContextFiles(documents)
  BY DEF ContextFiles, Updated

LEMMA StagedPlan ==
  ASSUME NEW m, NEW now, PlanOK(m, now), m.pc \in AfterStage
  PROVE  /\ m.request \in Requests /\ DOMAIN m.after \subseteq Path
         /\ DOMAIN m.after # {} => m.request.op = "move"
         /\ m.request.op = "move" => PathsOf(m.request) = {m.request.path, m.request.to}
         /\ \A f \in Others(m) : Exists(m.after[f])
<1>1. /\ m.request \in Requests /\ LoadOK(m) /\ StagedOK(m)
      /\ m.request.op = "move" => ReadOK(m)
  BY DEF PlanOK, Complete, AfterLoad, AfterRead, AfterSource, AfterManifest, AfterStage
<1>2. CASE m.request.op = "register"
  <2>1. DOMAIN <<>> = {}  OBVIOUS
  <2>2. DOMAIN m.after = {}  BY <1>1, <1>2, <2>1 DEF StagedOK
  <2> QED  BY <1>1, <1>2, <2>2 DEF Others
<1>3. CASE m.request.op = "move"
  BY <1>1, <1>3, AfterDocuments DEF StagedOK, PathsOf, Others
<1> QED  BY <1>1, <1>2, <1>3 DEF LoadOK

\* A create adds a file to what a plan leaves.
LEMMA CreateBesidePlan ==
  ASSUME NEW documents, DOMAIN documents = Path, NEW added, DOMAIN added = Path,
         NEW r \in Requests, r.op = "create",
         \A f \in Path \ {r.path} : added[f] = documents[f],
         Exists(added[r.path]), ~Exists(documents[r.path]),
         \A d \in ContextFiles(documents) :
           SameKey(d, r.path) => d = r.path \/ Race(r.path, d),
         NEW m, NEW side \in {"before", "after"},
         m.request \in Requests, DOMAIN m[side] = DOMAIN m.after, DOMAIN m.after \subseteq Path,
         DOMAIN m.after # {} => m.request.op = "move",
         Others(m) \subseteq ContextFiles(documents),
         NEW manifest, SoundFor(manifest, FilesWith(m, side, documents))
  PROVE  SoundFor(manifest, FilesWith(m, side, added))
<1> DEFINE c == r.path
           X == FilesWith(m, side, documents)
           Y == FilesWith(m, side, added)
<1>0. c \in Path  BY RequestFields
<1>1. /\ X \subseteq Path /\ Y \subseteq Path
      /\ \A f \in Path : f \in X <=>
           IF f \in DOMAIN m[side] THEN Exists(m[side][f]) ELSE f \in ContextFiles(documents)
      /\ \A f \in Path : f \in Y <=>
           IF f \in DOMAIN m[side] THEN Exists(m[side][f]) ELSE f \in ContextFiles(added)
  BY OverlaidFiles DEF FilesWith
<1>2. \A f \in Path : f \in ContextFiles(added) <=> f \in ContextFiles(documents) \/ f = c
  BY <1>0 DEF ContextFiles
<1> HIDE DEF X, Y
<1>3. CASE c \in DOMAIN m[side]
  <2>1. X = Y  BY <1>1, <1>2, <1>3
  <2> QED  BY <2>1 DEF X, Y
<1>4. CASE c \notin DOMAIN m[side]
  <2>1. Y = X \cup {c}  BY <1>0, <1>1, <1>2, <1>4
  <2>2. ASSUME NEW d \in X, SameKey(d, c) PROVE d = c \/ Race(c, d)
    <3>1. CASE d \in ContextFiles(documents)  BY <2>2, <3>1
    <3>2. CASE d \notin ContextFiles(documents)
      <4>1. d \in DOMAIN m.after  BY <1>1, <2>2, <3>2
      <4>2. d \in PathsOf(m.request) /\ m.request.op = "move"
        BY <3>2, <4>1 DEF Others
      <4> QED  BY <2>2, <4>2, CreatesRace
    <3> QED  BY <3>1, <3>2
  <2>3. SoundFor(manifest, X \cup {c})  BY <2>2, OneMoreFile DEF X
  <2> QED  BY <2>1, <2>3 DEF Y
<1> QED  BY <1>3, <1>4

\* A side of a plan is written: the files there are then, and what that is to the
\* creates that are under way.
LEMMA SideWritten ==
  ASSUME NEW documents, DOMAIN documents = Path, NEW written, DOMAIN written = Path,
         NEW m, NEW side \in {"before", "after"},
         m.request \in Requests, DOMAIN m.before = DOMAIN m.after, DOMAIN m.after \subseteq Path,
         DOMAIN m.after # {} => m.request.op = "move",
         Others(m) \subseteq ContextFiles(documents),
         \A f \in Others(m) : Exists(m[side][f]),
         \A f \in DOMAIN m.after : Exists(written[f]) <=> Exists(m[side][f]),
         \A f \in Path \ DOMAIN m.after : written[f] = documents[f]
  PROVE  /\ ContextFiles(written) = FilesWith(m, side, documents)
         /\ FilesWith(m, "after", written) = FilesWith(m, "after", documents)
         /\ FilesWith(m, "before", written) = FilesWith(m, "before", documents)
         /\ Others(m) \subseteq ContextFiles(written)
         /\ \A d \in ContextFiles(written) \ ContextFiles(documents) :
              m.request.op = "move" /\ d \in PathsOf(m.request)
<1>0. DOMAIN m[side] = DOMAIN m.after  OBVIOUS
<1>1. \A f \in Path \ DOMAIN m.after : f \in ContextFiles(written) <=> f \in ContextFiles(documents)
  BY DEF ContextFiles
<1>2. \A f \in DOMAIN m.after : f \in ContextFiles(written) <=> Exists(m[side][f])
  BY DEF ContextFiles
<1>3. ContextFiles(written) \subseteq Path  BY DEF ContextFiles
<1>4. ContextFiles(written) = FilesWith(m, side, documents)
  <2>1. /\ FilesWith(m, side, documents) \subseteq Path
        /\ \A f \in Path : f \in FilesWith(m, side, documents) <=>
             IF f \in DOMAIN m.after THEN Exists(m[side][f]) ELSE f \in ContextFiles(documents)
    BY <1>0, OverlaidFiles DEF FilesWith
  <2> QED  BY <1>1, <1>2, <1>3, <2>1
<1>5. ASSUME NEW s \in {"before", "after"}
      PROVE  FilesWith(m, s, written) = FilesWith(m, s, documents)
  <2>0. DOMAIN m[s] = DOMAIN m.after  OBVIOUS
  <2>1. /\ FilesWith(m, s, documents) \subseteq Path /\ FilesWith(m, s, written) \subseteq Path
        /\ \A f \in Path : f \in FilesWith(m, s, documents) <=>
             IF f \in DOMAIN m.after THEN Exists(m[s][f]) ELSE f \in ContextFiles(documents)
        /\ \A f \in Path : f \in FilesWith(m, s, written) <=>
             IF f \in DOMAIN m.after THEN Exists(m[s][f]) ELSE f \in ContextFiles(written)
    BY <2>0, OverlaidFiles DEF FilesWith
  <2> QED  BY <1>1, <2>1
<1>6. Others(m) \subseteq ContextFiles(written)  BY <1>2 DEF Others
<1>7. ASSUME NEW d \in ContextFiles(written) \ ContextFiles(documents)
      PROVE  m.request.op = "move" /\ d \in PathsOf(m.request)
  <2>1. d \in DOMAIN m.after  BY <1>1, <1>3, <1>7
  <2> QED  BY <1>7, <2>1 DEF Others
<1> QED  BY <1>4, <1>5, <1>6, <1>7
-----------------------------------------------------------------------------
LEMMA OtherSteps ==
  ASSUME NEW m, NEW now, NEW documents,
         m.pc \notin {"capture referring", "execute", "directory", "recheck", "link"}
  PROVE  PlanSound(m, now, documents)
  BY DEF PlanSound, StagedSound, CreateSound

LEMMA IdleSound == \A now, documents : PlanSound(Idle, now, documents)
<1>1. Idle.pc = "idle"  BY DEF Idle
<1> QED  BY <1>1, OtherSteps

\* The plans that only read.
LEMMA PlanningKeepsCatalog ==
  ASSUME ShapeInv, CatalogInv, NEW p \in Proc,
         \/ Give(p) \/ Register(p) \/ Move(p) \/ CaptureManifest(p)
         \/ LoadForCreate(p) \/ EnsureDirectory(p) \/ RecheckDestination(p)
  PROVE  CatalogInv'
<1> DEFINE m == memory[p]
           m2 == memory'[p]
<1>0. /\ Alone(p) /\ DOMAIN memory = Proc /\ PlanOK(m, clock)
      /\ (edits = 0 => PlanSound(m, toml, docs))
  BY PlanningIsAlone DEF ShapeInv, PlansOK, CatalogInv
<1>1. /\ UNCHANGED <<docs, toml, journal>> /\ \A q \in Proc \ {p} : memory'[q] = memory[q]
  BY <1>0 DEF Alone, GoesWell
<1>2. UNCHANGED edits
  BY DEF Give, Register, LoadForRegister, StageRegister, Move, LoadForMove, ReadMarkdown,
         CaptureSource, StageMove, CaptureReferring, CaptureManifest, LoadForCreate,
         EnsureDirectory, RecheckDestination, Reads, counters
<1>3. ASSUME edits = 0 => PlanSound(m2, toml, docs) PROVE CatalogInv'
  <2> SUFFICES ASSUME edits' = 0
               PROVE  /\ SoundFor(toml'.manifest, ContextFiles(docs'))
                      /\ \A q \in Proc : PlanSound(memory'[q], toml', docs')
                      /\ journal' # None => JournalSound(journal'.plan, docs')
    BY DEF CatalogInv
  <2>1. /\ SoundFor(toml.manifest, ContextFiles(docs))
        /\ \A q \in Proc : PlanSound(memory[q], toml, docs)
        /\ journal # None => JournalSound(journal.plan, docs)
    BY <1>2 DEF CatalogInv
  <2>2. PlanSound(m2, toml, docs)  BY <1>2, <1>3
  <2>3. \A q \in Proc : PlanSound(memory'[q], toml, docs)  BY <1>1, <2>1, <2>2
  <2> QED  BY <1>1, <2>1, <2>3
<1>e. ASSUME NEW result, Ends(p, result) PROVE CatalogInv'
  <2>1. m2 = Idle  BY <1>0, <1>e, EndsAt
  <2> QED  BY <1>3, <2>1, IdleSound
<1>4. ASSUME m2.pc \notin {"capture referring", "execute", "directory", "recheck", "link"}
      PROVE  CatalogInv'
  BY <1>3, <1>4, OtherSteps
<1>5. ASSUME NEW pc, NEW read, Goes(p, pc, read),
             pc \notin {"capture referring", "execute", "directory", "recheck", "link"}
      PROVE  CatalogInv'
  <2>1. m2.pc = pc  BY <1>0, <1>5, Keeps
  <2> QED  BY <1>4, <1>5, <2>1
<1>6. ASSUME NEW pc \in {"recheck", "link"}, Goes(p, pc, <<>>), m.pc \in {"directory", "recheck"}
      PROVE  CatalogInv'
  <2>1. DOMAIN <<>> = {} /\ "request" \in DOMAIN m
    BY <1>0, <1>6 DEF PlanOK
  <2>2. m2.pc = pc /\ m2.request = m.request  BY <1>0, <1>6, <2>1, Keeps
  <2>3. CreateSound(m, docs) => CreateSound(m2, docs)  BY <1>6, <2>2 DEF CreateSound
  <2>4. StagedSound(m2, toml, docs)  BY <1>6, <2>2 DEF StagedSound
  <2> QED  BY <1>0, <1>3, <2>3, <2>4 DEF PlanSound
<1>g. ASSUME NEW pc, NEW read, Goes(p, pc, read), "request" \in DOMAIN m,
             {"after", "manifest_after"} \subseteq DOMAIN read,
             "request" \notin DOMAIN read
      PROVE  /\ m2.pc = pc /\ m2.request = m.request
             /\ m2.after = read.after /\ m2.manifest_after = read.manifest_after
  BY <1>0, <1>g, Keeps
<1>7. CASE Give(p)
  <2>1. PICK r \in Requests : memory' = [memory EXCEPT ![p] = [pc |-> "load", request |-> r]]
    BY <1>7 DEF Give
  <2>2. m2 = [pc |-> "load", request |-> r]  BY <1>0, <2>1
  <2>3. m2.pc = "load"  BY <2>2
  <2> QED  BY <1>4, <2>3
<1>8. CASE LoadForRegister(p)
  <2> DEFINE read == [catalog |-> Catalog, identity |-> Identity(toml.manifest, docs)]
  <2>1. CASE Goes(p, "capture manifest", read)
    <3> HIDE DEF read
    <3> QED  BY <1>5, <2>1
  <2> QED  BY <1>8, <1>e, <2>1 DEF LoadForRegister
<1>9. CASE StageRegister(p)
  <2> DEFINE after == AppendContext(m.toml.manifest, m.request)
             read == [before |-> <<>>, after |-> <<>>, makes |-> {},
                      manifest_after |-> after, issues |-> {},
                      identity_after |-> Identity(after, docs)]
  <2>1. CASE Goes(p, "execute", read) /\ Errors(after, docs) = {}
    <3>1. /\ DOMAIN read = {"before", "after", "makes", "manifest_after", "issues",
                            "identity_after"}
          /\ read["after"] = <<>> /\ read["manifest_after"] = after
          /\ Goes(p, "execute", read)
      BY <2>1
    <3>2. "request" \in DOMAIN m  BY <1>0, <1>9 DEF StageRegister, At, PlanOK
    <3> HIDE DEF read, after
    <3>3. m2.pc = "execute" /\ m2["after"] = <<>> /\ m2["manifest_after"] = after
      BY <1>0, <3>1, Keeps
    <3>4. SoundFor(after, ContextFiles(docs))  BY <2>1, LoadedIsSound DEF Errors
    <3>5. DOMAIN <<>> = {}  OBVIOUS
    <3>6. ContextFiles(Updated(docs, <<>>)) = ContextFiles(docs)
      <4>1. \A x \in Path : Updated(docs, <<>>)[x] = docs[x]
        BY <3>5 DEF Updated, ShapeInv, FilesOK
      <4> QED  BY <4>1 DEF ContextFiles
    <3>7. FilesWith(m2, "after", docs) = ContextFiles(docs) /\ Others(m2) = {}
      BY <3>3, <3>5, <3>6 DEF FilesWith, Others
    <3> HIDE DEF m2
    <3>8. PlanSound(m2, toml, docs)
      BY <3>3, <3>4, <3>7 DEF PlanSound, StagedSound, CreateSound
    <3> QED  BY <1>3, <3>8 DEF m2
  <2>2. CASE Ends(p, "refused")  BY <1>e, <2>2
  <2> QED  BY <1>9, <2>1, <2>2 DEF StageRegister, Request
<1>10. CASE LoadForMove(p)
  <2> DEFINE read == [catalog |-> Catalog, identity |-> Identity(toml.manifest, docs)]
  <2>1. CASE Goes(p, "read", read)
    <3> HIDE DEF read
    <3> QED  BY <1>5, <2>1
  <2> QED  BY <1>10, <1>e, <2>1 DEF LoadForMove
<1>11. CASE ReadMarkdown(p)
  <2>1. ASSUME NEW texts, Goes(p, "capture source", texts) PROVE CatalogInv'
    BY <1>5, <2>1
  <2> QED  BY <1>11, <1>e, <2>1 DEF ReadMarkdown
<1>12. CASE CaptureSource(p)
  <2>1. ASSUME NEW read, Goes(p, "capture manifest", read) PROVE CatalogInv'
    BY <1>5, <2>1
  <2> QED  BY <1>12, <1>e, <2>1 DEF CaptureSource
<1>13. CASE CaptureManifest(p)
  <2>1. ASSUME NEW read, Goes(p, "stage", read) PROVE CatalogInv'
    BY <1>5, <2>1
  <2> QED  BY <1>13, <1>e, <2>1 DEF CaptureManifest
<1>14. CASE StageMove(p)
  <2> DEFINE read == [after |-> PlannedAfter(p), manifest_after |-> ManifestAfter(p),
                      issues |-> Issues(StagedMove(p)),
                      can_apply |-> NowhereMentioned(Request(p).path),
                      identity_after |-> Identity(ManifestAfter(p), StagedMove(p))]
  <2>1. CASE Goes(p, "capture referring", read) /\ StagedMoveAccepted(p)
    <3>1. /\ DOMAIN read = {"after", "manifest_after", "issues", "can_apply", "identity_after"}
          /\ read["after"] = PlannedAfter(p) /\ read["manifest_after"] = ManifestAfter(p)
          /\ Goes(p, "capture referring", read)
      BY <2>1
    <3>2. /\ "request" \in DOMAIN m /\ m.request \in Requests /\ m.request.op = "move"
          /\ LoadOK(m) /\ ReadOK(m)
      BY <1>0, <1>14 DEF StageMove, At, Request, PlanOK, AfterLoad, AfterRead, AfterSource,
                         AfterManifest
    <3> HIDE DEF read
    <3>b. /\ m2.pc = "capture referring" /\ m2.request = m.request
          /\ m2.after = read.after /\ m2.manifest_after = read.manifest_after
      BY <1>g, <3>1, <3>2
    <3> HIDE DEF m2
    <3>3. m2.after = PlannedAfter(p) /\ m2.manifest_after = ManifestAfter(p)
      BY <3>1, <3>b
    <3>5. /\ Errors(ManifestAfter(p), StagedMove(p)) = {}
          /\ m.catalog.files \subseteq ContextFiles(docs)
      BY <2>1 DEF StagedMoveAccepted
    <3>6. SoundFor(ManifestAfter(p), ContextFiles(StagedMove(p)))
      BY <3>5, LoadedIsSound DEF Errors
    <3>7. FilesWith(m2, "after", docs) = ContextFiles(StagedMove(p))
      BY <3>3 DEF FilesWith, StagedMove, Overlay
    <3>8. Others(m2) \subseteq ContextFiles(docs)
      <4>1. Others(m2) = DOMAIN AfterOf(m) \ {m.request.path, m.request.to}
        BY <3>2, <3>3, <3>b, PlannedIsAfter DEF Others, PathsOf
      <4> QED  BY <3>2, <3>5, <4>1, AfterDocuments, ZenonT(60)
    <3> HIDE DEF m2
    <3>9. PlanSound(m2, toml, docs)
      BY <3>3, <3>b, <3>6, <3>7, <3>8 DEF PlanSound, StagedSound, CreateSound
    <3> QED  BY <1>3, <3>9 DEF m2
  <2>2. CASE Ends(p, "refused")  BY <1>e, <2>2
  <2> QED  BY <1>14, <2>1, <2>2 DEF StageMove
<1>15. CASE CaptureReferring(p)
  <2> DEFINE r == m.request
             captured == [f \in DOMAIN m.after |->
                            CASE f = r.to   -> Absent
                              [] f = r.path -> m.source
                              [] OTHER      -> docs[f]]
             read == [before |-> captured]
  <2>1. CASE Goes(p, "execute", read)
    <3>1. DOMAIN read = {"before"} /\ Goes(p, "execute", read)
      BY <2>1
    <3>2. /\ m.pc = "capture referring" /\ LoadOK(m) /\ StagedOK(m) /\ TomlOK(m, clock)
      BY <1>0, <1>15
         DEF CaptureReferring, At, PlanOK, AfterLoad, AfterRead, AfterSource,
             AfterManifest, AfterStage
    <3> HIDE DEF read, captured
    <3>3. {"request", "after", "manifest_after", "toml"} \subseteq DOMAIN m
      BY <3>2 DEF LoadOK, StagedOK, TomlOK
    <3>4. m2.pc = "execute"  BY <1>0, <3>1, Keeps
    <3>5. /\ m2.request = m.request /\ m2.after = m.after
          /\ m2.manifest_after = m.manifest_after /\ m2.toml = m.toml
      BY <1>0, <3>1, <3>3, Keeps
    <3> HIDE DEF m2, m
    <3>6. FilesWith(m2, "after", docs) = FilesWith(m, "after", docs) /\ Others(m2) = Others(m)
      BY <3>5 DEF FilesWith, Others
    <3>7. StagedSound(m, toml, docs) => StagedSound(m2, toml, docs)
      BY <3>2, <3>4, <3>5, <3>6 DEF StagedSound
    <3>8. CreateSound(m2, docs)  BY <3>4 DEF CreateSound
    <3>9. edits = 0 => PlanSound(m2, toml, docs)  BY <1>0, <3>7, <3>8 DEF PlanSound
    <3> QED  BY <1>3, <3>9
  <2>2. CASE Ends(p, "refused")  BY <1>e, <2>2
  <2> QED  BY <1>15, <2>1, <2>2 DEF CaptureReferring, Request
<1>16. CASE LoadForCreate(p)
  <2> DEFINE read == [manifest |-> toml.manifest]
  <2>1. CASE Goes(p, "directory", read) /\ MayCreate(m.request.path)
    <3>1. DOMAIN read = {"manifest"} /\ Goes(p, "directory", read)  BY <2>1
    <3> HIDE DEF read
    <3>2. "request" \in DOMAIN m  BY <1>0, <1>16 DEF LoadForCreate, At, PlanOK
    <3>3. m2.pc = "directory" /\ m2.request = m.request  BY <1>0, <3>1, <3>2, Keeps
    <3>4. ~\E f \in ContextFiles(docs) : SameKey(f, m.request.path)
      BY <2>1 DEF MayCreate
    <3> HIDE DEF m2
    <3>5. PlanSound(m2, toml, docs)
      BY <3>3, <3>4 DEF PlanSound, StagedSound, CreateSound
    <3> QED  BY <1>3, <3>5 DEF m2
  <2> QED  BY <1>16, <1>e, <2>1 DEF LoadForCreate, Request
<1>17. CASE EnsureDirectory(p)
  <2>1. CASE Goes(p, "recheck", <<>>)  BY <1>6, <1>17, <2>1 DEF EnsureDirectory, At
  <2> QED  BY <1>17, <1>e, <2>1 DEF EnsureDirectory
<1>18. CASE RecheckDestination(p)
  <2>1. CASE Goes(p, "link", <<>>)  BY <1>6, <1>18, <2>1 DEF RecheckDestination, At
  <2> QED  BY <1>18, <1>e, <2>1 DEF RecheckDestination
<1> QED
  BY <1>7, <1>8, <1>9, <1>10, <1>11, <1>12, <1>13, <1>14, <1>15, <1>16, <1>17, <1>18
     DEF Register, Move
-----------------------------------------------------------------------------
\* A create has made the document of r.
Created(documents, added, r) ==
  /\ DOMAIN documents = Path /\ DOMAIN added = Path
  /\ r \in Requests /\ r.op = "create"
  /\ \A f \in Path \ {r.path} : added[f] = documents[f]
  /\ Exists(added[r.path]) /\ ~Exists(documents[r.path])
  /\ \A d \in ContextFiles(documents) : SameKey(d, r.path) => d = r.path \/ Race(r.path, d)

LEMMA CreatedFiles ==
  ASSUME NEW documents, NEW added, NEW r, Created(documents, added, r)
  PROVE  ContextFiles(added) = ContextFiles(documents) \cup {r.path}
<1>1. r.path \in Path  BY RequestFields DEF Created
<1> QED  BY <1>1 DEF Created, ContextFiles

LEMMA CreateKeepsPlan ==
  ASSUME NEW documents, NEW added, NEW r, Created(documents, added, r),
         NEW m, NEW time, NEW now, PlanOK(m, time), PlanSound(m, now, documents)
  PROVE  PlanSound(m, now, added)
<1>0. ContextFiles(added) = ContextFiles(documents) \cup {r.path}  BY CreatedFiles
<1>1. CreateSound(m, added)
  <2> SUFFICES ASSUME m.pc \in {"directory", "recheck", "link"},
                      NEW d \in ContextFiles(added), SameKey(d, m.request.path),
                      d # m.request.path
               PROVE  Race(m.request.path, d)
    BY DEF CreateSound
  <2>1. m.request \in Requests /\ m.request.op = "create"  BY DEF PlanOK, Creating
  <2>2. CASE d \in ContextFiles(documents)  BY <2>2 DEF PlanSound, CreateSound
  <2>3. CASE d = r.path
    <3>1. r \in Requests /\ r.op \in {"create", "move"} /\ d \in PathsOf(r)
      BY <2>3 DEF Created, PathsOf
    <3> QED  BY <2>1, <3>1, CreatesRace
  <2> QED  BY <1>0, <2>2, <2>3
<1>2. StagedSound(m, now, added)
  <2> SUFFICES ASSUME m.pc \in {"capture referring", "execute"}, now = m.toml
               PROVE  /\ SoundFor(m.manifest_after, FilesWith(m, "after", added))
                      /\ Others(m) \subseteq ContextFiles(added)
    BY DEF StagedSound
  <2>1. /\ m.request \in Requests /\ DOMAIN m.after \subseteq Path
        /\ DOMAIN m.after # {} => m.request.op = "move"
    BY StagedPlan DEF AfterStage, Complete
  <2>2. /\ SoundFor(m.manifest_after, FilesWith(m, "after", documents))
        /\ Others(m) \subseteq ContextFiles(documents)
    BY DEF PlanSound, StagedSound
  <2>3. DOMAIN m["after"] = DOMAIN m.after  OBVIOUS
  <2> QED  BY <1>0, <2>1, <2>2, <2>3, CreateBesidePlan DEF Created
<1> QED  BY <1>1, <1>2 DEF PlanSound

LEMMA CreateKeepsJournal ==
  ASSUME NEW documents, NEW added, NEW r, Created(documents, added, r),
         NEW m, NEW time \in Nat, PlanOK(m, time), m.pc \in Complete, JournalSound(m, documents)
  PROVE  JournalSound(m, added)
<1>0. ContextFiles(added) = ContextFiles(documents) \cup {r.path}  BY CreatedFiles
<1>1. /\ m.request \in Requests /\ DOMAIN m.after \subseteq Path
      /\ DOMAIN m.after # {} => m.request.op = "move"
  BY StagedPlan DEF AfterStage
<1>2. DOMAIN m["before"] = DOMAIN m.after /\ DOMAIN m["after"] = DOMAIN m.after
  BY PlannedDocuments
<1>3. /\ SoundFor(m.manifest_after, FilesWith(m, "after", documents))
      /\ SoundFor(m.toml.manifest, FilesWith(m, "before", documents))
      /\ Others(m) \subseteq ContextFiles(documents)
  BY DEF JournalSound
<1>4. SoundFor(m.manifest_after, FilesWith(m, "after", added))
  BY <1>1, <1>2, <1>3, CreateBesidePlan DEF Created
<1>5. SoundFor(m.toml.manifest, FilesWith(m, "before", added))
  BY <1>1, <1>2, <1>3, CreateBesidePlan DEF Created
<1> QED  BY <1>0, <1>3, <1>4, <1>5 DEF JournalSound

LEMMA LinkKeepsCatalog ==
  ASSUME ShapeInv, CatalogInv, NEW p \in Proc, LinkScaffold(p)
  PROVE  CatalogInv'
<1> DEFINE m == memory[p]
           r == m.request
<1>1. /\ FilesOK /\ DOMAIN memory = Proc /\ PlanOK(m, clock) /\ m.pc = "link"
      /\ docs \in [Path -> Doc] /\ clock \in Nat
      /\ UNCHANGED <<toml, journal, edits>>
      /\ \A q \in Proc : PlanOK(memory[q], clock)
  BY DEF ShapeInv, PlansOK, FilesOK, LinkScaffold, At, counters
<1>2. r \in Requests /\ r.op = "create" /\ r.path \in Path
  BY <1>1, RequestFields DEF PlanOK, Creating
<1> SUFFICES ASSUME edits = 0
             PROVE  /\ SoundFor(toml.manifest, ContextFiles(docs'))
                    /\ \A q \in Proc : PlanSound(memory'[q], toml, docs')
                    /\ journal # None => JournalSound(journal.plan, docs')
  BY <1>1 DEF CatalogInv
<1>3. /\ SoundFor(toml.manifest, ContextFiles(docs))
      /\ \A q \in Proc : PlanSound(memory[q], toml, docs)
      /\ journal # None => JournalSound(journal.plan, docs)
  BY DEF CatalogInv
<1>4. CASE Ends(p, "refused") /\ UNCHANGED docs
  <2>1. memory'[p] = Idle /\ \A q \in Proc \ {p} : memory'[q] = memory[q]
    BY <1>1, <1>4, EndsAt
  <2>2. \A q \in Proc : PlanSound(memory'[q], toml, docs)  BY <1>3, <2>1, IdleSound
  <2> QED  BY <1>3, <1>4, <2>2
<1>5. CASE /\ LinkSucceeds(r.path) /\ Goes(p, "unlink", <<>>)
           /\ docs' = [docs EXCEPT ![r.path] =
                         [body |-> "text", links |-> {}, stamp |-> clock + 1]]
  <2>1. memory'[p].pc = "unlink" /\ \A q \in Proc \ {p} : memory'[q] = memory[q]
    BY <1>1, <1>5, Keeps
  <2>2. /\ DOMAIN docs = Path /\ DOMAIN docs' = Path
        /\ \A f \in Path \ {r.path} : docs'[f] = docs[f]
        /\ Exists(docs'[r.path]) /\ ~Exists(docs[r.path])
    BY <1>1, <1>2, <1>5 DEF LinkSucceeds, Exists
  <2>3. CreateSound(m, docs)  BY <1>3 DEF PlanSound
  <2>4. Created(docs, docs', r)
    BY <1>1, <1>2, <2>2, <2>3 DEF Created, CreateSound
  <2> HIDE DEF r, m
  <2>5. ContextFiles(docs') = ContextFiles(docs) \cup {r.path}  BY <2>4, CreatedFiles
  <2>6. SoundFor(toml.manifest, ContextFiles(docs) \cup {r.path})
    BY <1>3, <2>4, OneMoreFile DEF Created
  <2>7. \A q \in Proc : PlanSound(memory'[q], toml, docs')
    <3>1. PlanSound(memory'[p], toml, docs')  BY <2>1, OtherSteps
    <3>2. ASSUME NEW q \in Proc \ {p} PROVE PlanSound(memory'[q], toml, docs')
      <4>1. PlanSound(memory[q], toml, docs')  BY <1>1, <1>3, <2>4, CreateKeepsPlan
      <4> QED  BY <2>1, <4>1
    <3> QED  BY <3>1, <3>2
  <2>8. ASSUME journal # None PROVE JournalSound(journal.plan, docs')
    <3>1. PlanOK(journal.plan, clock) /\ journal.plan.pc \in Complete
      BY <2>8 DEF ShapeInv, JournalOK, Complete
    <3> QED  BY <1>1, <1>3, <2>4, <2>8, <3>1, CreateKeepsJournal
  <2> QED  BY <2>5, <2>6, <2>7, <2>8
<1> QED  BY <1>4, <1>5 DEF LinkScaffold, Request
-----------------------------------------------------------------------------
LEMMA LaterThan == ASSUME NEW t \in Nat PROVE t + 1 \notin 0..t
<1>1. t + 1 \in Int /\ t \in Int /\ ~(t + 1 <= t)  OBVIOUS
<1> QED  BY <1>1

LEMMA WrittenOthers ==
  ASSUME NEW m, NEW now \in Nat, PlanOK(m, now), m.pc \in Complete,
         NEW side \in {"before", "after"}
  PROVE  \A f \in Others(m) : Exists(m[side][f])
<1>1. /\ m.request \in Requests /\ DOMAIN m.after \subseteq Path
      /\ DOMAIN m.after # {} => m.request.op = "move"
      /\ m.request.op = "move" => PathsOf(m.request) = {m.request.path, m.request.to}
      /\ \A f \in Others(m) : Exists(m.after[f])
  BY StagedPlan DEF AfterStage
<1>2. ASSUME NEW f \in Others(m) PROVE Exists(m.before[f])
  <2>1. f \in DOMAIN m.after \ {m.request.to} /\ m.request.op = "move"
    BY <1>1, <1>2 DEF Others
  <2> QED  BY <2>1 DEF PlanOK, CompleteOK
<1> QED  BY <1>1, <1>2

\* What the other commands have planned, when a side of m is written.
LEMMA WriteKeepsPlan ==
  ASSUME NEW m, NEW s, NEW time \in Nat, NEW now, NEW later, NEW documents, NEW written,
         PlanOK(s, time), PlanSound(s, now, documents), later.stamp = time + 1,
         m.request \in Requests,
         \A d \in ContextFiles(written) \ ContextFiles(documents) :
           m.request.op = "move" /\ d \in PathsOf(m.request)
  PROVE  PlanSound(s, later, written)
<1>1. StagedSound(s, later, written)
  <2> SUFFICES ASSUME s.pc \in {"capture referring", "execute"}, later = s.toml PROVE FALSE
    BY DEF StagedSound
  <2>1. s.toml.stamp \in 0..time
    BY DEF PlanOK, AfterManifest, AfterStage, Complete, TomlOK
  <2>2. s.toml.stamp = time + 1  OBVIOUS
  <2> QED  BY <2>1, <2>2, LaterThan
<1>2. CreateSound(s, written)
  <2> SUFFICES ASSUME s.pc \in {"directory", "recheck", "link"},
                      NEW d \in ContextFiles(written), SameKey(d, s.request.path),
                      d # s.request.path
               PROVE  Race(s.request.path, d)
    BY DEF CreateSound
  <2>1. s.request \in Requests /\ s.request.op = "create"  BY DEF PlanOK, Creating
  <2>2. CASE d \in ContextFiles(documents)  BY <2>2 DEF PlanSound, CreateSound
  <2>3. CASE d \notin ContextFiles(documents)
    <3>1. m.request.op \in {"create", "move"} /\ d \in PathsOf(m.request)  BY <2>3
    <3> QED  BY <2>1, <3>1, CreatesRace
  <2> QED  BY <2>2, <2>3
<1> QED  BY <1>1, <1>2 DEF PlanSound

\* A side of m is written over the documents.
LEMMA Overwritten ==
  ASSUME FilesOK, NEW m, NEW side \in {"before", "after"}, PlanOK(m, clock), m.pc \in Complete,
         Write(m, side), UNCHANGED linked, \A f \in DOMAIN m.after : f \notin linked,
         Others(m) \subseteq ContextFiles(docs)
  PROVE  /\ ContextFiles(docs') = FilesWith(m, side, docs)
         /\ FilesWith(m, "after", docs') = FilesWith(m, "after", docs)
         /\ FilesWith(m, "before", docs') = FilesWith(m, "before", docs)
         /\ Others(m) \subseteq ContextFiles(docs')
         /\ \A d \in ContextFiles(docs') \ ContextFiles(docs) :
              m.request.op = "move" /\ d \in PathsOf(m.request)
         /\ toml'.stamp = clock + 1
         /\ toml'.manifest = SideManifest(m, side)
<1>0. clock \in Nat /\ docs \in [Path -> Doc]  BY DEF FilesOK
<1>1. /\ \A f \in DOMAIN m.after : docs'[f] = Stamped(m[side][f]) /\ m[side][f] \in Doc
      /\ \A f \in Path \ DOMAIN m.after : docs'[f] = docs[f]
      /\ toml' = [manifest |-> IF side = "after" THEN m.manifest_after ELSE m.toml.manifest,
                  stamp |-> clock + 1]
      /\ FilesMove
  BY Written
<1>2. DOMAIN docs' = Path  BY <1>1 DEF FilesMove, FilesOK
<1>3. \A f \in DOMAIN m.after : Exists(docs'[f]) <=> Exists(m[side][f])
  <2>1. ASSUME NEW f \in DOMAIN m.after PROVE Exists(docs'[f]) <=> Exists(m[side][f])
    <3> DEFINE doc == m[side][f]
    <3>1. doc \in Doc /\ docs'[f] = Stamped(doc)  BY <1>1
    <3> HIDE DEF doc
    <3>2. Exists(docs'[f]) <=> Exists(doc)  BY <1>0, <3>1, StampedDocument
    <3> QED  BY <3>2 DEF doc
  <2> QED  BY <2>1
<1>4. \A f \in Others(m) : Exists(m[side][f])  BY <1>0, WrittenOthers
<1>5. /\ m.request \in Requests /\ DOMAIN m.after \subseteq Path
      /\ DOMAIN m.before = DOMAIN m.after
  BY <1>0, PlannedDocuments
<1>6. DOMAIN m.after # {} => m.request.op = "move"  BY StagedPlan DEF AfterStage
<1>7. toml'.stamp = clock + 1 /\ toml'.manifest = SideManifest(m, side)
  BY <1>1 DEF SideManifest
<1> QED  BY <1>0, <1>1, <1>2, <1>3, <1>4, <1>5, <1>6, <1>7, SideWritten

LEMMA ExecuteKeepsCatalog ==
  ASSUME ShapeInv, CatalogInv, NEW p \in Proc, Execute(p)
  PROVE  CatalogInv'
<1> DEFINE m == memory[p]
<1>1. /\ FilesOK /\ DOMAIN memory = Proc /\ clock \in Nat /\ docs \in [Path -> Doc]
      /\ UNCHANGED <<edits, linked>> /\ At(p, "execute")
      /\ \A q \in Proc : PlanOK(memory[q], clock)
  BY DEF ShapeInv, PlansOK, FilesOK, Execute, counters
<1> SUFFICES ASSUME edits = 0
             PROVE  /\ SoundFor(toml'.manifest, ContextFiles(docs'))
                    /\ \A q \in Proc : PlanSound(memory'[q], toml', docs')
                    /\ journal' # None => JournalSound(journal'.plan, docs')
  BY <1>1 DEF CatalogInv
<1>2. /\ SoundFor(toml.manifest, ContextFiles(docs))
      /\ \A q \in Proc : PlanSound(memory[q], toml, docs)
      /\ journal # None => JournalSound(journal.plan, docs)
  BY DEF CatalogInv
<1>3. CASE Ends(p, "cas_conflict") /\ UNCHANGED <<docs, toml, journal>>
  <2>1. memory'[p] = Idle /\ \A q \in Proc \ {p} : memory'[q] = memory[q]
    BY <1>1, <1>3, EndsAt
  <2>2. \A q \in Proc : PlanSound(memory'[q], toml, docs)  BY <1>2, <2>1, IdleSound
  <2> QED  BY <1>2, <1>3, <2>2
<1>4. CASE /\ StillAsPlanned(p) /\ Write(m, "after") /\ Goes(p, "validate", <<>>)
           /\ journal' = [plan |-> m, by |-> p, side |-> "after", stamp |-> clock + 1]
  <2>1. memory'[p].pc = "validate" /\ \A q \in Proc \ {p} : memory'[q] = memory[q]
    BY <1>1, <1>4, Keeps
  <2>2. /\ PlanOK(m, clock) /\ m.pc \in Complete
        /\ \A f \in DOMAIN m.after : docs[f] = m.before[f] /\ f \notin linked
    BY <1>1, <1>4, AsPlannedFacts
  <2>3. /\ SoundFor(m.manifest_after, FilesWith(m, "after", docs))
        /\ Others(m) \subseteq ContextFiles(docs) /\ toml = m.toml
    BY <1>1, <1>2, <1>4 DEF PlanSound, StagedSound, At, StillAsPlanned
  <2>4. journal'.plan = m  BY <1>4
  <2>w. Write(m, "after")  BY <1>4
  <2> HIDE DEF m
  <2>5. /\ ContextFiles(docs') = FilesWith(m, "after", docs)
        /\ FilesWith(m, "after", docs') = FilesWith(m, "after", docs)
        /\ FilesWith(m, "before", docs') = FilesWith(m, "before", docs)
        /\ Others(m) \subseteq ContextFiles(docs')
        /\ \A d \in ContextFiles(docs') \ ContextFiles(docs) :
             m.request.op = "move" /\ d \in PathsOf(m.request)
        /\ toml'.stamp = clock + 1
        /\ toml'.manifest = SideManifest(m, "after")
    BY <1>1, <2>2, <2>3, <2>w, Overwritten
  <2>6. m.request \in Requests /\ DOMAIN m.before = DOMAIN m.after /\ DOMAIN m.after \subseteq Path
    BY <1>1, <2>2, PlannedDocuments
  <2>7. FilesWith(m, "before", docs) = ContextFiles(docs)
    <3>1. \A f \in Path : Updated(docs, m["before"])[f] = docs[f]
      BY <1>1, <2>2, <2>6 DEF Updated
    <3> QED  BY <3>1 DEF FilesWith, ContextFiles
  <2>8. SoundFor(toml'.manifest, ContextFiles(docs'))  BY <2>3, <2>5 DEF SideManifest
  <2>9. \A q \in Proc : PlanSound(memory'[q], toml', docs')
    <3>1. PlanSound(memory'[p], toml', docs')  BY <2>1, OtherSteps
    <3>2. ASSUME NEW q \in Proc \ {p} PROVE PlanSound(memory'[q], toml', docs')
      <4>1. PlanSound(memory[q], toml', docs')
        BY <1>1, <1>2, <2>5, <2>6, WriteKeepsPlan
      <4> QED  BY <2>1, <4>1
    <3> QED  BY <3>1, <3>2
  <2>10. JournalSound(journal'.plan, docs')
    BY <1>2, <2>3, <2>4, <2>5, <2>7 DEF JournalSound
  <2> QED  BY <2>8, <2>9, <2>10
<1> QED  BY <1>3, <1>4 DEF Execute

LEMMA RecoverKeepsCatalog ==
  ASSUME ShapeInv, CatalogInv, NEW side \in {"before", "after"}, Recover(side)
  PROVE  CatalogInv'
<1> DEFINE m == journal.plan
<1>1. /\ FilesOK /\ clock \in Nat /\ JournalOK /\ AsWritten /\ journal # None
      /\ UNCHANGED <<edits, linked, memory>> /\ Write(m, side)
      /\ journal' = [journal EXCEPT !.side = side, !.stamp = clock + 1]
      /\ \A q \in Proc : PlanOK(memory[q], clock)
  BY DEF ShapeInv, PlansOK, FilesOK, Recover
<1> SUFFICES ASSUME edits = 0
             PROVE  /\ SoundFor(toml'.manifest, ContextFiles(docs'))
                    /\ \A q \in Proc : PlanSound(memory[q], toml', docs')
                    /\ journal' # None => JournalSound(journal'.plan, docs')
  BY <1>1 DEF CatalogInv
<1>2. (\A q \in Proc : PlanSound(memory[q], toml, docs)) /\ JournalSound(m, docs)
  BY <1>1 DEF CatalogInv
<1>3. PlanOK(m, clock) /\ m.pc \in Complete /\ journal'.plan = m
  BY <1>1 DEF JournalOK, Complete
<1>4. \A f \in DOMAIN m.after : f \notin linked  BY <1>1, WrittenFilesAreUnlinked
<1>w. Write(m, side)  BY <1>1
<1> HIDE DEF m
<1>5. /\ ContextFiles(docs') = FilesWith(m, side, docs)
      /\ FilesWith(m, "after", docs') = FilesWith(m, "after", docs)
      /\ FilesWith(m, "before", docs') = FilesWith(m, "before", docs)
      /\ Others(m) \subseteq ContextFiles(docs')
      /\ \A d \in ContextFiles(docs') \ ContextFiles(docs) :
           m.request.op = "move" /\ d \in PathsOf(m.request)
      /\ toml'.stamp = clock + 1
      /\ toml'.manifest = SideManifest(m, side)
  BY <1>1, <1>2, <1>3, <1>4, <1>w, Overwritten DEF JournalSound
<1>6. m.request \in Requests  BY <1>1, <1>3, PlannedDocuments
<1>7. SoundFor(toml'.manifest, ContextFiles(docs'))
  BY <1>2, <1>5 DEF JournalSound, SideManifest
<1>8. \A q \in Proc : PlanSound(memory[q], toml', docs')
  BY <1>1, <1>2, <1>5, <1>6, WriteKeepsPlan
<1>9. JournalSound(journal'.plan, docs')  BY <1>2, <1>3, <1>5 DEF JournalSound
<1> QED  BY <1>7, <1>8, <1>9
-----------------------------------------------------------------------------
LEMMA StepKeepsCatalog ==
  ASSUME ShapeInv, EditsInv, CatalogInv, [Next]_vars
  PROVE  CatalogInv'
<1>s. ASSUME UNCHANGED <<docs, toml, journal, memory, edits>> PROVE CatalogInv'
  BY <1>s DEF CatalogInv
<1>1. ASSUME NEW p \in Proc,
             \/ Give(p) \/ Register(p) \/ Move(p) \/ CaptureManifest(p)
             \/ LoadForCreate(p) \/ EnsureDirectory(p) \/ RecheckDestination(p)
      PROVE  CatalogInv'
  BY <1>1, PlanningKeepsCatalog
<1>2. ASSUME NEW p \in Proc, LinkScaffold(p) PROVE CatalogInv'  BY <1>2, LinkKeepsCatalog
<1>3. ASSUME NEW p \in Proc, UnlinkScaffoldTemporary(p) \/ Crash(p) \/ Validate(p)
      PROVE  CatalogInv'
  <2>1. /\ UNCHANGED <<docs, toml, edits>> /\ (journal' = None \/ journal' = journal)
        /\ \E result : Ends(p, result)
    BY <1>3 DEF UnlinkScaffoldTemporary, Crash, Validate, files, counters
  <2>2. memory'[p] = Idle /\ \A q \in Proc \ {p} : memory'[q] = memory[q]
    BY <2>1, EndsAt DEF ShapeInv, PlansOK
  <2> SUFFICES ASSUME edits = 0
               PROVE  /\ SoundFor(toml.manifest, ContextFiles(docs))
                      /\ \A q \in Proc : PlanSound(memory'[q], toml, docs)
                      /\ journal' # None => JournalSound(journal'.plan, docs)
    BY <2>1 DEF CatalogInv
  <2>3. /\ SoundFor(toml.manifest, ContextFiles(docs))
        /\ \A q \in Proc : PlanSound(memory[q], toml, docs)
        /\ journal # None => JournalSound(journal.plan, docs)
    BY DEF CatalogInv
  <2>4. \A q \in Proc : PlanSound(memory'[q], toml, docs)  BY <2>2, <2>3, IdleSound
  <2> QED  BY <2>1, <2>3, <2>4
<1>4. ASSUME NEW p \in Proc, Execute(p) PROVE CatalogInv'  BY <1>4, ExecuteKeepsCatalog
<1>5. ASSUME NEW side \in {"before", "after"}, Recover(side) PROVE CatalogInv'
  BY <1>5, RecoverKeepsCatalog
<1>6. CASE Settle  BY <1>6 DEF Settle, CatalogInv, counters
<1>7. CASE People
  <2>1. edits' # 0  BY <1>7, PeopleAreCounted DEF EditsInv
  <2> QED  BY <2>1 DEF CatalogInv
<1>8. CASE UNCHANGED vars  BY <1>s, <1>8 DEF vars, files, counters
<1> QED
  BY <1>1, <1>2, <1>3, <1>4, <1>5, <1>6, <1>7, <1>8 DEF Next, Create, Publish

LEMMA InitialCatalog == Init => CatalogInv
<1> SUFFICES ASSUME Init PROVE CatalogInv  OBVIOUS
<1>1. PICK m \in InitialManifests : toml = [manifest |-> m, stamp |-> 0]  BY DEF Init
<1>2. docs \in InitialDocs /\ journal = None /\ memory = [p \in Proc |-> Idle]  BY DEF Init
<1>3. CatalogErrors(m, ContextFiles(docs), {}) = {}  BY <1>2, InitialAssumption
<1>4. SoundFor(toml.manifest, ContextFiles(docs))  BY <1>1, <1>3, LoadedIsSound
<1>5. \A p \in Proc : PlanSound(memory[p], toml, docs)  BY <1>2, IdleSound
<1> QED  BY <1>2, <1>4, <1>5 DEF CatalogInv

\* Without edits, the Catalog that create, register and move leave, in whatever
\* order they are given and wherever they die, has no error; two files have one
\* key only where a create, which holds no lock, gave one of the names (the
\* staged loads of context-register.ts:135 and context-move.ts:166,
\* assertUnregisteredTarget of context-create.ts).
THEOREM CatalogStaysValid == Spec => []CommandsKeepCatalogValid
<1>1. ShapeInv /\ CatalogInv => CommandsKeepCatalogValid
  <2> SUFFICES ASSUME ShapeInv, CatalogInv, edits = 0, linked = {}
               PROVE  LiveErrors \subseteq Error("context_path_case_collision", Raced)
    BY DEF CommandsKeepCatalogValid
  <2> DEFINE manifest == toml.manifest
             paths == ContextFiles(docs)
  <2>1. /\ manifest.parses /\ ManifestErrors(manifest, paths) = {} /\ Apart(paths)
    BY DEF CatalogInv, SoundFor
  <2>2. LiveErrors = CatalogErrors(manifest, paths, {})  BY DEF LiveErrors, Errors
  <2>3. paths \subseteq Path  BY DEF ContextFiles
  <2> HIDE DEF manifest, paths
  <2>4. UsableFiles(paths, {}) = paths  BY DEF UsableFiles
  <2>5. LiveErrors = Error("context_path_case_collision", Collisions(paths))
    BY <2>1, <2>2, <2>4 DEF CatalogErrors
  <2>6. Collisions(paths) \subseteq Raced
    BY <2>1, <2>3 DEF Collisions, Apart, SameKey, Raced
  <2> QED  BY <2>5, <2>6 DEF Error
<1>2. ShapeInv /\ EditsInv /\ CatalogInv /\ [Next]_vars => CatalogInv'  BY StepKeepsCatalog
<1> QED
  BY <1>1, <1>2, InitialCatalog, ShapeInvariant, EditsInvariant, PTL DEF Spec
-----------------------------------------------------------------------------
-----------------------------------------------------------------------------
(***************************************************************************)
(* The validation of a plan that nobody interfered with.                   *)
(***************************************************************************)
\* What the Catalog says of documents follows from their contents.
SameContents(a, b) == \A f \in Path : Content(a[f]) = Content(b[f])

LEMMA SameCatalog ==
  ASSUME NEW a, NEW b, SameContents(a, b)
  PROVE  /\ ContextFiles(a) = ContextFiles(b) /\ Issues(a) = Issues(b)
         /\ \A manifest : Identity(manifest, a) = Identity(manifest, b)
         /\ \A p : LinksTo(a, p) = LinksTo(b, p)
         /\ \A f \in Path : /\ Exists(a[f]) <=> Exists(b[f])
                            /\ ContentValid(a[f]) <=> ContentValid(b[f])
<1>1. ASSUME NEW f \in Path PROVE a[f].body = b[f].body /\ a[f].links = b[f].links
  <2>1. <<a[f].body, a[f].links>> = <<b[f].body, b[f].links>>
    BY DEF SameContents, Content
  <2>2. /\ <<a[f].body, a[f].links>>[1] = a[f].body /\ <<a[f].body, a[f].links>>[2] = a[f].links
        /\ <<b[f].body, b[f].links>>[1] = b[f].body /\ <<b[f].body, b[f].links>>[2] = b[f].links
    OBVIOUS
  <2> QED  BY <2>1, <2>2
<1>2. ContextFiles(a) = ContextFiles(b)  BY <1>1 DEF ContextFiles, Exists
<1>3. \A f \in Path : /\ Exists(a[f]) <=> Exists(b[f])
                      /\ ContentValid(a[f]) <=> ContentValid(b[f])
                      /\ Bytes(a[f]) = Bytes(b[f])
  BY <1>1 DEF Exists, ContentValid, Bytes
<1>4. ContextFiles(a) \subseteq Path  BY DEF ContextFiles
<1>5. \A p : LinksTo(a, p) = LinksTo(b, p)  BY <1>1, <1>2, <1>4 DEF LinksTo
<1>6. Issues(a) = Issues(b)
  <2>1. \A i \in ContextFiles(a) \X Path :
          /\ i[1] \in Path /\ i[2] \in Path
          /\ a[i[1]].links = b[i[1]].links
          /\ Missing(a, i[2]) <=> Missing(b, i[2])
    BY <1>1, <1>3, <1>4 DEF Missing
  <2> QED  BY <1>2, <2>1 DEF Issues
<1>7. ASSUME NEW manifest PROVE Identity(manifest, a) = Identity(manifest, b)
  <2>1. [f \in ContextFiles(a) |-> Bytes(a[f])] = [f \in ContextFiles(b) |-> Bytes(b[f])]
    BY <1>2, <1>3, <1>4
  <2> QED  BY <2>1 DEF Identity
<1> QED  BY <1>2, <1>3, <1>5, <1>6, <1>7

\* The validation of the plan m after its publication, of any documents.
Accepts(m, documents, twice, named) ==
  /\ CatalogErrors(m.manifest_after, ContextFiles(documents), twice) = {}
  /\ Identity(m.manifest_after, documents) = m.identity_after
  /\ m.request.op = "register" =>
       /\ Exists(documents[m.request.path]) /\ ContentValid(documents[m.request.path])
       /\ m.request.path \notin twice
  /\ m.request.op = "move" =>
       /\ Exists(documents[m.request.to]) /\ ContentValid(documents[m.request.to])
       /\ m.request.to \notin twice
       /\ LinksTo(documents, m.request.path) = {}
       /\ Issues(documents) = m.issues
       /\ m.request.path \notin named

LEMMA SameAccepted ==
  ASSUME NEW m, m.request \in Requests, NEW a, NEW b, SameContents(a, b), NEW twice, NEW named,
         Accepts(m, a, twice, named)
  PROVE  Accepts(m, b, twice, named)
<1>1. m.request.path \in Path /\ (m.request.op = "move" => m.request.to \in Path)
  BY RequestFields
<1>2. /\ ContextFiles(a) = ContextFiles(b) /\ Issues(a) = Issues(b)
      /\ \A manifest : Identity(manifest, a) = Identity(manifest, b)
      /\ \A p : LinksTo(a, p) = LinksTo(b, p)
      /\ \A f \in Path : /\ Exists(a[f]) <=> Exists(b[f])
                         /\ ContentValid(a[f]) <=> ContentValid(b[f])
  BY SameCatalog
<1> QED  BY <1>1, <1>2 DEF Accepts

\* Another plan of the same request, manifest, identity and links.
LEMMA SamePlanAccepted ==
  ASSUME NEW m, NEW n, n.request = m.request, n.manifest_after = m.manifest_after,
         n.identity_after = m.identity_after, n.issues = m.issues,
         NEW documents, NEW twice, NEW named, Accepts(m, documents, twice, named)
  PROVE  Accepts(n, documents, twice, named)
  BY DEF Accepts

\* Undisturbed since it was staged, a plan would be accepted if it were published;
\* undisturbed since it was begun, it knows the Catalog that is there.
Planning == AfterLoad \ {"validate"}
Staging(m) == m.pc = "execute" \/ (m.pc = "capture referring" /\ m.can_apply)
Noted(m, how, documents, twice, named) ==
  /\ Staging(m) /\ how # "after staging" =>
       Accepts(m, Updated(documents, m.after), twice, named)
  /\ m.pc \in Planning /\ how = "not" =>
       m.identity = Identity(m.catalog.manifest, documents)
JournalNoted(m, how, documents, twice, named) ==
  /\ how # "after staging" => Accepts(m, Updated(documents, m.after), twice, named)
  /\ how = "not" => m.identity = Identity(m.toml.manifest, Updated(documents, m.before))

NotedInv ==
  /\ DOMAIN changed = Proc
  /\ \A p \in Proc : Noted(memory[p], changed[p], docs, linked, mentions)
  /\ journal # None =>
       /\ memory[journal.by].pc \notin Planning
       /\ JournalNoted(journal.plan, changed[journal.by], docs, linked, mentions)

LEMMA NothingNoted ==
  ASSUME NEW m, m.pc \notin Planning
  PROVE  \A how, documents, twice, named : Noted(m, how, documents, twice, named)
  BY DEF Noted, Staging, Planning, AfterLoad, AfterRead, AfterSource, AfterManifest, AfterStage,
         Complete

LEMMA IdleIsNoted ==
  /\ Idle.pc \notin Planning
  /\ \A how, documents, twice, named : Noted(Idle, how, documents, twice, named)
<1>1. Idle.pc \notin Planning
  BY DEF Idle, Planning, AfterLoad, AfterRead, AfterSource, AfterManifest, AfterStage, Complete
<1> QED  BY <1>1, NothingNoted

\* One command goes on, and no file changes.
LEMMA ReadingKeepsNotes ==
  ASSUME NotedInv, JournalOK \/ journal = None, NEW p \in Proc,
         UNCHANGED <<docs, linked, mentions>>, journal' = journal \/ journal' = None,
         DOMAIN changed' = Proc,
         \A q \in Proc \ {p} : memory'[q] = memory[q] /\ changed'[q] = changed[q],
         Noted(memory'[p], changed'[p], docs, linked, mentions),
         journal # None /\ journal.by = p =>
           memory'[p].pc \notin Planning /\ changed'[p] = changed[p]
  PROVE  NotedInv'
<1>1. \A q \in Proc : Noted(memory'[q], changed'[q], docs, linked, mentions)
  BY DEF NotedInv
<1>2. ASSUME journal' # None
      PROVE  /\ memory'[journal.by].pc \notin Planning
             /\ JournalNoted(journal.plan, changed'[journal.by], docs, linked, mentions)
  <2>1. journal # None /\ journal.by \in Proc  BY <1>2 DEF JournalOK
  <2>2. /\ memory[journal.by].pc \notin Planning
        /\ JournalNoted(journal.plan, changed[journal.by], docs, linked, mentions)
    BY <2>1 DEF NotedInv
  <2> QED  BY <2>1, <2>2
<1> QED  BY <1>1, <1>2 DEF NotedInv

\* Somebody else changes a file: what is staged is disturbed, the rest before it.
LEMMA DisturbanceKeepsNotes ==
  ASSUME NotedInv, JournalOK \/ journal = None, SomethingElseChanges, UNCHANGED journal,
         \A q \in Proc : memory'[q] = memory[q] \/ memory'[q].pc \notin Planning
  PROVE  NotedInv'
<1>1. /\ DOMAIN changed' = Proc
      /\ \A q \in Proc : changed'[q] = IF Staged(q) \/ (journal # None /\ journal.by = q)
                                       THEN "after staging" ELSE "before staging"
  BY NoneAssumption DEF SomethingElseChanges, Disturbs
<1>2. ASSUME NEW q \in Proc PROVE Noted(memory'[q], changed'[q], docs', linked', mentions')
  <2>1. CASE memory'[q].pc \notin Planning  BY <2>1, NothingNoted
  <2>2. CASE memory'[q] = memory[q]
    <3>1. Staging(memory[q]) => changed'[q] = "after staging"
      BY <1>1 DEF Staging, Staged
    <3>2. changed'[q] # "not"  BY <1>1
    <3> QED  BY <2>2, <3>1, <3>2 DEF Noted
  <2> QED  BY <2>1, <2>2
<1>3. ASSUME journal' # None
      PROVE  /\ memory'[journal.by].pc \notin Planning
             /\ JournalNoted(journal.plan, changed'[journal.by], docs', linked', mentions')
  <2>1. journal # None /\ journal.by \in Proc  BY <1>3 DEF JournalOK
  <2>2. memory[journal.by].pc \notin Planning  BY <2>1 DEF NotedInv
  <2>3. changed'[journal.by] = "after staging"  BY <1>1, <2>1
  <2> QED  BY <2>1, <2>2, <2>3 DEF JournalNoted
<1> QED  BY <1>1, <1>2, <1>3 DEF NotedInv

LEMMA StagingPcs ==
  /\ \A m : Staging(m) => m.pc \in Planning
  /\ \A pc \in Planning : pc \in AfterLoad /\ pc # "validate" /\ pc # "idle" /\ pc # "load"
  /\ Planning = {"read", "capture source", "capture manifest", "stage", "capture referring", "execute"}
  /\ "load" \notin Planning /\ "validate" \notin Planning /\ Creating \cap Planning = {}
  BY DEF Staging, Planning, AfterLoad, AfterRead, AfterSource, AfterManifest, AfterStage,
         Complete, Creating

LEMMA RegisteredAreUsable ==
  ASSUME NEW manifest, NEW paths, NEW twice,
         NEW c \in RegisteredContexts(manifest, UsableFiles(paths, twice))
  PROVE  c.path \in paths /\ c.path \notin twice
  BY DEF RegisteredContexts, UsableFiles

\* The plans that only read.
LEMMA PlanningKeepsNotes ==
  ASSUME ShapeInv, NotedInv, NEW p \in Proc,
         \/ Give(p) \/ Register(p) \/ Move(p) \/ CaptureManifest(p)
         \/ LoadForCreate(p) \/ EnsureDirectory(p) \/ RecheckDestination(p)
  PROVE  NotedInv'
<1> DEFINE m == memory[p]
           m2 == memory'[p]
<1>0. /\ Alone(p) /\ DOMAIN memory = Proc /\ PlanOK(m, clock) /\ docs \in [Path -> Doc]
      /\ DOMAIN changed = Proc /\ Noted(m, changed[p], docs, linked, mentions)
      /\ JournalOK \/ journal = None
  BY PlanningIsAlone DEF ShapeInv, PlansOK, FilesOK, NotedInv
<1>1. /\ UNCHANGED <<docs, linked, mentions, journal>>
      /\ \A q \in Proc \ {p} : memory'[q] = memory[q]
  <2>1. UNCHANGED <<docs, journal>> /\ \A q \in Proc \ {p} : memory'[q] = memory[q]
    BY <1>0 DEF Alone, GoesWell
  <2>2. UNCHANGED <<linked, mentions>>
    BY DEF Give, Register, LoadForRegister, StageRegister, Move, LoadForMove, ReadMarkdown,
           CaptureSource, StageMove, CaptureReferring, CaptureManifest, LoadForCreate,
           EnsureDirectory, RecheckDestination, Reads, files
  <2> QED  BY <2>1, <2>2
<1>k. ASSUME NEW pc, NEW more, Goes(p, pc, more)
      PROVE  /\ m2.pc = pc
             /\ \A k \in DOMAIN m \ (DOMAIN more \cup {"pc"}) : m2[k] = m[k]
             /\ \A k \in DOMAIN more \ {"pc"} : m2[k] = more[k]
  <2>1. DOMAIN memory = Proc  BY <1>0
  <2> QED  BY <1>k, <2>1, Keeps
\* A plan under way is not that of the open transaction.
<1>2. ASSUME UNCHANGED changed, Noted(m2, changed[p], docs, linked, mentions),
             m.pc \in Planning \/ m2.pc \notin Planning
      PROVE  NotedInv'
  <2>1. journal # None /\ journal.by = p => m.pc \notin Planning  BY DEF NotedInv
  <2> HIDE DEF m, m2
  <2> QED  BY <1>0, <1>1, <1>2, <2>1, ReadingKeepsNotes DEF m, m2
<1>3. ASSUME UNCHANGED changed, m2.pc \notin Planning PROVE NotedInv'
  <2>1. Noted(m2, changed[p], docs, linked, mentions)  BY <1>3, NothingNoted
  <2> QED  BY <1>2, <1>3, <2>1
<1>e. ASSUME UNCHANGED changed, NEW result, Ends(p, result) PROVE NotedInv'
  <2>1. m2 = Idle  BY <1>0, <1>e, EndsAt
  <2> QED  BY <1>3, <1>e, <2>1, IdleIsNoted
\* It adds to what it knows, and neither the Catalog it loaded nor its identity
\* changes.
<1>4. ASSUME UNCHANGED changed, NEW pc \in {"capture source", "capture manifest", "stage"},
             NEW read, Goes(p, pc, read), m.pc \in Planning,
             DOMAIN read \cap {"identity", "catalog"} = {}
      PROVE  NotedInv'
  <2>1. {"identity", "catalog"} \subseteq DOMAIN m
    BY <1>0, <1>4, StagingPcs DEF PlanOK, LoadOK
  <2>2. m2.identity = m.identity /\ m2.catalog = m.catalog /\ m2.pc = pc
    BY <1>0, <1>4, <2>1, Keeps, ZenonT(60)
  <2>3. Noted(m2, changed[p], docs, linked, mentions)
    BY <1>0, <1>4, <2>2 DEF Noted, Staging
  <2> QED  BY <1>2, <1>4, <2>3
\* It begins.
<1>5. ASSUME StartsPlan(p), m.pc = "load", NEW pc \in {"read", "capture manifest"},
             journal = None,
             Goes(p, pc, [catalog |-> Catalog, identity |-> Identity(toml.manifest, docs)])
      PROVE  NotedInv'
  <2> DEFINE more == [catalog |-> Catalog, identity |-> Identity(toml.manifest, docs)]
  <2>1. DOMAIN more = {"catalog", "identity"} /\ more["catalog"] = Catalog
        /\ more["identity"] = Identity(toml.manifest, docs)
    OBVIOUS
  <2>g. Goes(p, pc, more)  BY <1>5
  <2> HIDE DEF more
  <2>k. m2.pc = pc /\ \A k \in DOMAIN more \ {"pc"} : m2[k] = more[k]
    BY <1>k, <2>g
  <2> HIDE DEF m, m2
  <2>2. m2.pc = pc /\ m2.catalog = Catalog /\ m2.identity = Identity(toml.manifest, docs)
    BY <2>1, <2>k
  <2>c. Catalog.manifest = toml.manifest  BY DEF Catalog
  <2>3. m2.identity = Identity(m2.catalog.manifest, docs)  BY <2>2, <2>c
  <2>4. \A how : Noted(m2, how, docs, linked, mentions)
    BY <1>5, <2>2, <2>3 DEF Noted, Staging
  <2>5. DOMAIN changed' = Proc /\ \A q \in Proc \ {p} : changed'[q] = changed[q]
    BY <1>0, <1>5 DEF StartsPlan
  <2> HIDE DEF m, m2
  <2> QED  BY <1>0, <1>1, <1>5, <2>4, <2>5, ReadingKeepsNotes DEF m2
\* It is refused at once.
<1>6. ASSUME StartsPlan(p), NEW result, Ends(p, result) PROVE NotedInv'
  <2>1. m2 = Idle  BY <1>0, <1>6, EndsAt
  <2>2. /\ DOMAIN changed' = Proc /\ \A q \in Proc \ {p} : changed'[q] = changed[q]
        /\ journal # None => changed'[p] = changed[p]
    BY <1>0, <1>6 DEF StartsPlan
  <2> HIDE DEF m, m2
  <2> QED  BY <1>0, <1>1, <2>1, <2>2, IdleIsNoted, ReadingKeepsNotes DEF m2
<1>7. CASE Give(p)
  <2>1. UNCHANGED changed /\ m2.pc = "load"
    BY <1>0, <1>7 DEF Give
  <2> QED  BY <1>3, <2>1, StagingPcs
<1>8. CASE LoadForRegister(p)
  BY <1>5, <1>6, <1>8 DEF LoadForRegister, At
<1>9. CASE LoadForMove(p)
  BY <1>5, <1>6, <1>9 DEF LoadForMove, At
<1>10. CASE ReadMarkdown(p)
  <2>1. UNCHANGED changed /\ m.pc \in Planning
    BY <1>10, StagingPcs DEF ReadMarkdown, Reads, At
  <2>2. CASE \E result : Ends(p, result)  BY <1>e, <2>1, <2>2
  <2>3. ASSUME NEW read, NEW makes,
               Goes(p, "capture source", [read |-> read, makes |-> makes])
        PROVE  NotedInv'
    <3>1. DOMAIN [read |-> read, makes |-> makes] \cap {"identity", "catalog"} = {}
      OBVIOUS
    <3> QED  BY <1>4, <2>1, <2>3, <3>1
  <2> QED  BY <1>10, <2>2, <2>3 DEF ReadMarkdown
<1>11. CASE CaptureSource(p)
  <2>1. UNCHANGED changed /\ m.pc \in Planning
    BY <1>11, StagingPcs DEF CaptureSource, Reads, At
  <2>2. CASE \E result : Ends(p, result)  BY <1>e, <2>1, <2>2
  <2>3. ASSUME NEW s, Goes(p, "capture manifest", [source |-> s])
        PROVE  NotedInv'
    <3>1. DOMAIN [source |-> s] \cap {"identity", "catalog"} = {}
      OBVIOUS
    <3> QED  BY <1>4, <2>1, <2>3, <3>1
  <2> QED  BY <1>11, <2>2, <2>3 DEF CaptureSource
<1>12. CASE CaptureManifest(p)
  <2>1. UNCHANGED changed /\ m.pc \in Planning
    BY <1>12, StagingPcs DEF CaptureManifest, Reads, At
  <2>2. CASE \E result : Ends(p, result)  BY <1>e, <2>1, <2>2
  <2>3. ASSUME NEW s, Goes(p, "stage", [toml |-> s])
        PROVE  NotedInv'
    <3>1. DOMAIN [toml |-> s] \cap {"identity", "catalog"} = {}
      OBVIOUS
    <3> QED  BY <1>4, <2>1, <2>3, <3>1
  <2> QED  BY <1>12, <2>2, <2>3 DEF CaptureManifest
<1>13. CASE StageRegister(p)
  <2> DEFINE r == m.request
             after == AppendContext(m.toml.manifest, r)
             more == [before |-> <<>>, after |-> <<>>, makes |-> {}, manifest_after |-> after,
                      issues |-> {}, identity_after |-> Identity(after, docs)]
  <2>1. UNCHANGED changed /\ m.pc \in Planning /\ m.request.op = "register"
    BY <1>13, StagingPcs DEF StageRegister, Reads, At, Request
  <2>2. CASE \E result : Ends(p, result)  BY <1>e, <2>1, <2>2
  <2>3. CASE /\ Goes(p, "execute", more) /\ ContentAccepted(r.path) /\ Errors(after, docs) = {}
    <3>0. Goes(p, "execute", more) /\ ContentAccepted(r.path) /\ Errors(after, docs) = {}
      BY <2>3
    <3>1. /\ DOMAIN more = {"before", "after", "makes", "manifest_after", "issues",
                            "identity_after"}
          /\ more["after"] = <<>> /\ more["manifest_after"] = after
          /\ more["identity_after"] = Identity(after, docs)
      OBVIOUS
    <3>2. {"request", "identity", "catalog"} \subseteq DOMAIN m /\ m.request \in Requests
      BY <1>0, <2>1, StagingPcs DEF PlanOK, LoadOK
    <3> HIDE DEF more, after
    <3>k. /\ m2.pc = "execute"
          /\ \A k \in DOMAIN m \ (DOMAIN more \cup {"pc"}) : m2[k] = m[k]
          /\ \A k \in DOMAIN more \ {"pc"} : m2[k] = more[k]
      BY <1>k, <3>0
    <3> HIDE DEF m, m2
    <3>4. /\ m2.pc = "execute" /\ m2.after = <<>> /\ m2.manifest_after = after
          /\ m2.identity_after = Identity(after, docs)
          /\ m2.request = r /\ m2.identity = m.identity /\ m2.catalog = m.catalog
      BY <3>1, <3>2, <3>k
    <3>5. Accepts(m2, docs, linked, mentions)
      BY <2>1, <3>0, <3>4 DEF Accepts, ContentAccepted, Errors
    <3>6. SameContents(docs, Updated(docs, <<>>))
      <4>1. DOMAIN <<>> = {}  OBVIOUS
      <4>2. \A f \in Path : Updated(docs, <<>>)[f] = docs[f]  BY <1>0, <4>1 DEF Updated
      <4> QED  BY <4>2 DEF SameContents
    <3>7. Accepts(m2, Updated(docs, m2.after), linked, mentions)
      BY <3>2, <3>4, <3>5, <3>6, SameAccepted
    <3>8. Noted(m2, changed[p], docs, linked, mentions)
      BY <1>0, <2>1, <3>4, <3>7 DEF Noted
    <3> QED  BY <1>2, <2>1, <3>8 DEF m, m2
  <2> QED  BY <1>13, <2>2, <2>3 DEF StageRegister, Request
<1>14. CASE StageMove(p)
  <2> DEFINE r == m.request
             staged == StagedMove(p)
             more == [after |-> PlannedAfter(p), manifest_after |-> ManifestAfter(p),
                      issues |-> Issues(staged),
                      can_apply |-> NowhereMentioned(r.path),
                      identity_after |-> Identity(ManifestAfter(p), staged)]
  <2>1. UNCHANGED changed /\ m.pc \in Planning /\ m.request.op = "move"
    BY <1>14, StagingPcs DEF StageMove, Reads, At, Request
  <2>2. CASE \E result : Ends(p, result)  BY <1>e, <2>1, <2>2
  <2>3. CASE StagedMoveAccepted(p) /\ Goes(p, "capture referring", more)
    <3>0. Goes(p, "capture referring", more)  BY <2>3
    <3>1. /\ DOMAIN more = {"after", "manifest_after", "issues", "can_apply", "identity_after"}
          /\ more["after"] = PlannedAfter(p) /\ more["manifest_after"] = ManifestAfter(p)
          /\ more["issues"] = Issues(staged) /\ more["can_apply"] = NowhereMentioned(r.path)
          /\ more["identity_after"] = Identity(ManifestAfter(p), staged)
      OBVIOUS
    <3>2. {"request", "identity", "catalog"} \subseteq DOMAIN m /\ m.request \in Requests
      BY <1>0, <2>1, StagingPcs DEF PlanOK, LoadOK
    <3>s. staged = Updated(docs, PlannedAfter(p))  BY DEF StagedMove, Overlay
    <3>a. /\ CatalogErrors(ManifestAfter(p), ContextFiles(staged), linked) = {}
          /\ \E c \in Registered(ManifestAfter(p), staged) : c.path = r.to
          /\ ContentValid(staged[r.to])
          /\ LinksTo(staged, r.path) = {}
      BY <2>3 DEF StagedMoveAccepted, Errors, SameOwner, Request
    <3> HIDE DEF more, staged
    <3>e. r.to \in ContextFiles(staged) /\ r.to \notin linked
      BY <3>a, RegisteredAreUsable DEF Registered
    <3>k. /\ m2.pc = "capture referring"
          /\ \A k \in DOMAIN m \ (DOMAIN more \cup {"pc"}) : m2[k] = m[k]
          /\ \A k \in DOMAIN more \ {"pc"} : m2[k] = more[k]
      BY <1>k, <3>0
    <3> HIDE DEF m, m2
    <3>4. /\ m2.pc = "capture referring" /\ m2.after = PlannedAfter(p)
          /\ m2.manifest_after = ManifestAfter(p) /\ m2.issues = Issues(staged)
          /\ m2.identity_after = Identity(ManifestAfter(p), staged)
          /\ m2.can_apply = NowhereMentioned(r.path)
          /\ m2.request = r /\ m2.identity = m.identity /\ m2.catalog = m.catalog
      BY <3>1, <3>2, <3>k
    <3>5. m2.can_apply => Accepts(m2, staged, linked, mentions)
      BY <2>1, <3>a, <3>e, <3>4 DEF Accepts, NowhereMentioned, ContextFiles
    <3>8. Noted(m2, changed[p], docs, linked, mentions)
      BY <1>0, <2>1, <3>s, <3>4, <3>5 DEF Noted, Staging
    <3> QED  BY <1>2, <2>1, <3>8 DEF m, m2
  <2> QED  BY <1>14, <2>2, <2>3 DEF StageMove, Request
<1>15. CASE CaptureReferring(p)
  <2>1. UNCHANGED changed /\ m.pc \in Planning /\ m.pc = "capture referring"
    BY <1>15, StagingPcs DEF CaptureReferring, Reads, At, Request
  <2>2. CASE \E result : Ends(p, result)  BY <1>e, <2>1, <2>2
  <2>3. ASSUME NEW b, Goes(p, "execute", [before |-> b]), m.can_apply PROVE NotedInv'
    <3> DEFINE more == [before |-> b]
    <3>1. DOMAIN more = {"before"}  OBVIOUS
    <3>2. /\ {"request", "identity", "catalog", "after", "issues", "manifest_after",
              "identity_after"} \subseteq DOMAIN m
      BY <1>0, <2>1, StagingPcs DEF PlanOK, LoadOK, StagedOK, AfterStage
    <3> HIDE DEF more
    <3>k. /\ m2.pc = "execute"
          /\ \A k \in DOMAIN m \ (DOMAIN more \cup {"pc"}) : m2[k] = m[k]
      BY <1>k, <2>3 DEF more
    <3>c. m.can_apply  BY <2>3
    <3> HIDE DEF m, m2
    <3>4. /\ m2.pc = "execute" /\ m2.after = m.after /\ m2.manifest_after = m.manifest_after
          /\ m2.issues = m.issues /\ m2.identity_after = m.identity_after
          /\ m2.request = m.request /\ m2.identity = m.identity /\ m2.catalog = m.catalog
      BY <3>1, <3>2, <3>k
    <3>5. changed[p] # "after staging" => Accepts(m, Updated(docs, m.after), linked, mentions)
      BY <1>0, <2>1, <3>c DEF Noted, Staging
    <3>6. changed[p] # "after staging" => Accepts(m2, Updated(docs, m2.after), linked, mentions)
      BY <3>4, <3>5, SamePlanAccepted
    <3>8. Noted(m2, changed[p], docs, linked, mentions)
      BY <1>0, <2>1, <3>4, <3>6 DEF Noted
    <3> QED  BY <1>2, <2>1, <3>8 DEF m, m2
  <2> QED  BY <1>15, <2>2, <2>3 DEF CaptureReferring
<1>16. CASE LoadForCreate(p)
  <2>1. UNCHANGED changed /\ m2.pc \notin Planning
    <3>1. UNCHANGED changed  BY <1>16 DEF LoadForCreate, Reads
    <3>2. CASE \E result : Ends(p, result)
      BY <1>0, <3>1, <3>2, EndsAt, IdleIsNoted
    <3>3. ASSUME NEW read, Goes(p, "directory", read) PROVE m2.pc \notin Planning
      BY <1>k, <3>3, StagingPcs DEF Creating
    <3> QED  BY <1>16, <3>1, <3>2, <3>3 DEF LoadForCreate
  <2> QED  BY <1>3, <2>1
<1>17. CASE EnsureDirectory(p)
  <2>1. UNCHANGED changed /\ m2.pc \notin Planning
    <3>1. UNCHANGED changed  BY <1>17 DEF EnsureDirectory
    <3>2. CASE \E result : Ends(p, result)
      BY <1>0, <3>1, <3>2, EndsAt, IdleIsNoted
    <3>3. ASSUME NEW read, Goes(p, "recheck", read) PROVE m2.pc \notin Planning
      BY <1>k, <3>3, StagingPcs DEF Creating
    <3> QED  BY <1>17, <3>1, <3>2, <3>3 DEF EnsureDirectory
  <2> QED  BY <1>3, <2>1
<1>18. CASE RecheckDestination(p)
  <2>1. UNCHANGED changed /\ m2.pc \notin Planning
    <3>1. UNCHANGED changed  BY <1>18 DEF RecheckDestination, Reads
    <3>2. CASE \E result : Ends(p, result)
      BY <1>0, <3>1, <3>2, EndsAt, IdleIsNoted
    <3>3. ASSUME NEW read, Goes(p, "link", read) PROVE m2.pc \notin Planning
      BY <1>k, <3>3, StagingPcs DEF Creating
    <3> QED  BY <1>18, <3>1, <3>2, <3>3 DEF RecheckDestination
  <2> QED  BY <1>3, <2>1
<1> QED
  BY <1>7, <1>8, <1>9, <1>10, <1>11, <1>12, <1>13, <1>14, <1>15, <1>16, <1>17, <1>18
     DEF Register, Move

\* The contents of a side that is written are those of the plan.
LEMMA WrittenContents ==
  ASSUME FilesOK, NEW m, NEW side \in {"before", "after"}, PlanOK(m, clock), m.pc \in Complete,
         Write(m, side), UNCHANGED linked, \A f \in DOMAIN m.after : f \notin linked
  PROVE  /\ SameContents(Updated(docs, m["after"]), Updated(docs', m["after"]))
         /\ SameContents(Updated(docs, m["before"]), Updated(docs', m["before"]))
<1>1. /\ m.request \in Requests /\ DOMAIN m.before = DOMAIN m.after /\ DOMAIN m.after \subseteq Path
      /\ docs \in [Path -> Doc]
  BY PlannedDocuments DEF FilesOK
<1>2. \A f \in Path \ DOMAIN m.after : docs'[f] = docs[f]  BY Written
<1>3. DOMAIN docs' = Path
  BY <1>1, Written DEF FilesMove, FilesOK
<1>4. ASSUME NEW over, DOMAIN over = DOMAIN m.after
      PROVE  SameContents(Updated(docs, over), Updated(docs', over))
  <2>1. \A f \in Path : Updated(docs, over)[f] = Updated(docs', over)[f]
    BY <1>1, <1>2, <1>3, <1>4 DEF Updated
  <2> QED  BY <2>1 DEF SameContents
<1> QED  BY <1>1, <1>4

\* Where a side of a plan has no document it has nothing.
LEMMA SidesAreThere ==
  ASSUME NEW m, NEW now \in Nat, PlanOK(m, now), m.pc \in Complete,
         NEW side \in {"before", "after"}, NEW f \in DOMAIN m.after, ~Exists(m[side][f])
  PROVE  m[side][f] = Absent
<1> DEFINE r == m.request
<1>1. m.request.op = "move"  BY PlannedDocuments
<1>2. /\ r \in Requests /\ m.after = AfterOf(m) /\ LoadOK(m) /\ ReadOK(m) /\ SourceOK(m, now)
      /\ m.before[r.to] = Absent
      /\ \A g \in DOMAIN m.after \ {r.to} : Exists(m.before[g])
  BY <1>1 DEF PlanOK, Complete, AfterLoad, AfterRead, AfterSource, AfterManifest, AfterStage,
              StagedOK, CompleteOK
<1>3. /\ r.path \in m.catalog.files
      /\ ReferringOf(m) \subseteq m.catalog.files \ {r.path}
      /\ DOMAIN m.after = {r.path, r.to} \cup ReferringOf(m)
      /\ m.after[r.path] = Absent
      /\ m.after[r.to] = PatchLinks(m.read[r.path], r.path, r.to)
      /\ \A g \in ReferringOf(m) : m.after[g] = PatchLinks(m.read[g], r.path, r.to)
  BY <1>1, <1>2, AfterDocuments
<1>4. /\ m.read[r.path] \in Doc /\ Exists(m.read[r.path])
      /\ \A g \in ReferringOf(m) : m.read[g] \in Doc /\ Exists(m.read[g])
  BY <1>2, <1>3 DEF ReadOK
<1>5. r.path \in Path /\ r.to \in Path  BY <1>1, <1>2, RequestFields
<1>6. \A g \in DOMAIN m.after \ {r.path} : Exists(m.after[g])
  BY <1>3, <1>4, <1>5, PatchedDocument
<1>7. CASE side = "before"  BY <1>2, <1>7
<1>8. CASE side = "after"  BY <1>3, <1>6, <1>8
<1> QED  BY <1>7, <1>8

\* A file that is as it was written has the contents of the plan.
LEMMA AsWrittenContents ==
  ASSUME FilesOK, JournalOK, AsWritten
  PROVE  SameContents(Updated(docs, journal.plan[journal.side]), docs)
<1> DEFINE m == journal.plan
           side == m[journal.side]
<1>1. /\ PlanOK(m, clock) /\ m.pc \in Complete /\ journal.side \in {"before", "after"}
      /\ clock \in Nat /\ docs \in [Path -> Doc]
  BY DEF JournalOK, Complete, FilesOK
<1>2. /\ m.request \in Requests /\ DOMAIN m.before = DOMAIN m.after /\ DOMAIN m.after \subseteq Path
      /\ m.before \in [DOMAIN m.after -> Doc] /\ m.after \in [DOMAIN m.after -> Doc]
  BY <1>1, PlannedDocuments
<1>3. side \in [DOMAIN m.after -> Doc]
  BY <1>1, <1>2
<1>4. ASSUME NEW f \in DOMAIN m.after PROVE Content(side[f]) = Content(docs[f])
  <2>1. docs[f] = IF Exists(side[f]) THEN [side[f] EXCEPT !.stamp = journal.stamp] ELSE Absent
    BY <1>4 DEF AsWritten
  <2>2. side[f] \in Doc  BY <1>3, <1>4
  <2>3. CASE Exists(side[f])
    <3>1. docs[f].body = side[f].body /\ docs[f].links = side[f].links
      BY <2>1, <2>2, <2>3 DEF Doc
    <3> QED  BY <3>1 DEF Content
  <2>4. CASE ~Exists(side[f])
    <3>1. side[f] = Absent  BY <1>1, <1>2, <1>4, <2>4, SidesAreThere
    <3> QED  BY <2>1, <2>4, <3>1
  <2> QED  BY <2>3, <2>4
<1>5. \A f \in Path : Content(Updated(docs, side)[f]) = Content(docs[f])
  <2> HIDE DEF side, m
  <2> QED  BY <1>1, <1>2, <1>3, <1>4 DEF Updated
<1> QED  BY <1>5 DEF SameContents

LEMMA ExecuteKeepsNotes ==
  ASSUME ShapeInv, NotedInv, NEW p \in Proc, Execute(p)
  PROVE  NotedInv'
<1> DEFINE m == memory[p]
<1>1. /\ FilesOK /\ DOMAIN memory = Proc /\ clock \in Nat /\ docs \in [Path -> Doc]
      /\ UNCHANGED <<linked, mentions>> /\ At(p, "execute")
      /\ JournalOK \/ journal = None
  BY DEF ShapeInv, PlansOK, FilesOK, Execute
<1>2. DOMAIN changed = Proc /\ \A q \in Proc : Noted(memory[q], changed[q], docs, linked, mentions)
  BY DEF NotedInv
<1>3. CASE Ends(p, "cas_conflict") /\ UNCHANGED <<docs, journal, changed>>
  <2>1. memory'[p] = Idle /\ \A q \in Proc \ {p} : memory'[q] = memory[q]
    BY <1>1, <1>3, EndsAt
  <2> QED  BY <1>1, <1>2, <1>3, <2>1, IdleIsNoted, ReadingKeepsNotes
<1>4. CASE /\ StillAsPlanned(p) /\ Write(m, "after") /\ Goes(p, "validate", <<>>)
           /\ journal' = [plan |-> m, by |-> p, side |-> "after", stamp |-> clock + 1]
           /\ Disturbs(p) /\ journal = None
  <2>1. memory'[p].pc = "validate" /\ \A q \in Proc \ {p} : memory'[q] = memory[q]
    BY <1>1, <1>4, Keeps
  <2>2. /\ PlanOK(m, clock) /\ m.pc \in Complete
        /\ \A f \in DOMAIN m.after : docs[f] = m.before[f] /\ f \notin linked
    BY <1>1, <1>4, AsPlannedFacts
  <2>3. journal'.plan = m /\ journal'.by = p  BY <1>4
  <2>4. /\ DOMAIN changed' = Proc /\ changed'[p] = changed[p]
        /\ \A q \in Proc \ {p} :
             changed'[q] = IF Staged(q) THEN "after staging" ELSE "before staging"
    BY <1>4 DEF Disturbs
  <2>w. Write(m, "after") /\ m.pc = "execute" /\ Noted(m, changed[p], docs, linked, mentions)
    BY <1>1, <1>2, <1>4 DEF At
  <2> HIDE DEF m
  <2>5. /\ SameContents(Updated(docs, m.after), Updated(docs', m.after))
        /\ SameContents(Updated(docs, m.before), Updated(docs', m.before))
    BY <1>1, <2>2, <2>w, WrittenContents
  <2>6. /\ m.request \in Requests /\ DOMAIN m.before = DOMAIN m.after
        /\ DOMAIN m.after \subseteq Path
    BY <1>1, <2>2, PlannedDocuments
  <2>7. SameContents(docs, Updated(docs, m.before))
    <3>1. \A f \in Path : Updated(docs, m.before)[f] = docs[f]
      BY <1>1, <2>2, <2>6 DEF Updated
    <3> QED  BY <3>1 DEF SameContents
  <2>8. JournalNoted(m, changed[p], docs', linked, mentions)
    <3>1. changed[p] # "after staging" => Accepts(m, Updated(docs, m.after), linked, mentions)
      BY <2>w DEF Noted, Staging
    <3>2. changed[p] # "after staging" => Accepts(m, Updated(docs', m.after), linked, mentions)
      BY <2>5, <2>6, <3>1, SameAccepted
    <3>3. /\ Identity(m.catalog.manifest, docs)
              = Identity(m.catalog.manifest, Updated(docs, m.before))
          /\ Identity(m.catalog.manifest, Updated(docs, m.before))
              = Identity(m.catalog.manifest, Updated(docs', m.before))
      BY <2>5, <2>7, SameCatalog
    <3>4. changed[p] = "not" => m.identity = Identity(m.catalog.manifest, docs)
      BY <2>w, StagingPcs DEF Noted
    <3>5. m.toml.manifest = m.catalog.manifest
      BY <2>2, <2>w DEF PlanOK, TomlOK, AfterManifest, AfterStage, Complete
    <3> QED  BY <3>2, <3>3, <3>4, <3>5 DEF JournalNoted
  <2>9. ASSUME NEW q \in Proc PROVE Noted(memory'[q], changed'[q], docs', linked, mentions)
    <3>1. CASE q = p  BY <2>1, <3>1, StagingPcs, NothingNoted
    <3>2. CASE q # p
      <4>1. Staging(memory[q]) => changed'[q] = "after staging"
        BY <2>4, <3>2 DEF Staging, Staged
      <4>2. changed'[q] # "not" /\ memory'[q] = memory[q]  BY <2>1, <2>4, <3>2
      <4> QED  BY <4>1, <4>2 DEF Noted
    <3> QED  BY <3>1, <3>2
  <2> QED  BY <1>1, <2>1, <2>3, <2>4, <2>8, <2>9, StagingPcs DEF NotedInv
<1> QED  BY <1>3, <1>4 DEF Execute

LEMMA RecoverKeepsNotes ==
  ASSUME ShapeInv, NotedInv, NEW side \in {"before", "after"}, Recover(side)
  PROVE  NotedInv'
<1> DEFINE m == journal.plan
           b == journal.by
<1>1. /\ FilesOK /\ clock \in Nat /\ JournalOK /\ AsWritten /\ journal # None
      /\ UNCHANGED <<linked, mentions, memory>> /\ Write(m, side) /\ Disturbs(b)
      /\ journal' = [journal EXCEPT !.side = side, !.stamp = clock + 1]
  BY DEF ShapeInv, FilesOK, Recover
<1>2. /\ \A q \in Proc : Noted(memory[q], changed[q], docs, linked, mentions)
      /\ memory[b].pc \notin Planning
      /\ JournalNoted(m, changed[b], docs, linked, mentions)
  BY <1>1 DEF NotedInv
<1>3. /\ PlanOK(m, clock) /\ m.pc \in Complete /\ journal'.plan = m /\ journal'.by = b
      /\ b \in Proc
  BY <1>1 DEF JournalOK, Complete
<1>4. \A f \in DOMAIN m.after : f \notin linked  BY <1>1, WrittenFilesAreUnlinked
<1>5. /\ DOMAIN changed' = Proc /\ changed'[b] = changed[b]
      /\ \A q \in Proc \ {b} :
           changed'[q] = IF Staged(q) THEN "after staging" ELSE "before staging"
  BY <1>1, <1>3 DEF Disturbs
<1>w. Write(m, side)  BY <1>1
<1> HIDE DEF m, b
<1>6. /\ SameContents(Updated(docs, m.after), Updated(docs', m.after))
      /\ SameContents(Updated(docs, m.before), Updated(docs', m.before))
      /\ m.request \in Requests
  BY <1>1, <1>3, <1>4, <1>w, WrittenContents, PlannedDocuments
<1>7. JournalNoted(m, changed[b], docs', linked, mentions)
  <2>1. changed[b] # "after staging" => Accepts(m, Updated(docs', m.after), linked, mentions)
    BY <1>2, <1>6, SameAccepted DEF JournalNoted
  <2>2. Identity(m.toml.manifest, Updated(docs, m.before))
          = Identity(m.toml.manifest, Updated(docs', m.before))
    BY <1>6, SameCatalog
  <2> QED  BY <1>2, <2>1, <2>2 DEF JournalNoted
<1>8. ASSUME NEW q \in Proc PROVE Noted(memory[q], changed'[q], docs', linked, mentions)
  <2>1. CASE q = b  BY <1>2, <2>1, NothingNoted
  <2>2. CASE q # b
    <3>s. changed'[q] = IF Staged(q) THEN "after staging" ELSE "before staging"
      BY <1>5, <2>2
    <3>1. Staging(memory[q]) => changed'[q] = "after staging"
      BY <3>s DEF Staging, Staged
    <3>2. changed'[q] # "not"  BY <3>s
    <3> QED  BY <3>1, <3>2 DEF Noted
  <2> QED  BY <2>1, <2>2
<1> QED  BY <1>1, <1>2, <1>3, <1>5, <1>7, <1>8 DEF NotedInv

LEMMA StepKeepsNotes ==
  ASSUME ShapeInv, NotedInv, [Next]_vars
  PROVE  NotedInv'
<1>0. DOMAIN memory = Proc /\ (JournalOK \/ journal = None)
  BY DEF ShapeInv, PlansOK
<1>s. ASSUME UNCHANGED <<docs, linked, mentions, memory, changed>>,
             journal' = journal \/ journal' = None
      PROVE  NotedInv'
  BY <1>s DEF NotedInv
<1>1. ASSUME NEW p \in Proc,
             \/ Give(p) \/ Register(p) \/ Move(p) \/ CaptureManifest(p)
             \/ LoadForCreate(p) \/ EnsureDirectory(p) \/ RecheckDestination(p)
      PROVE  NotedInv'
  BY <1>1, PlanningKeepsNotes
<1>2. ASSUME NEW p \in Proc, Crash(p) \/ Validate(p) PROVE NotedInv'
  <2>1. /\ UNCHANGED <<docs, linked, mentions, changed>> /\ (journal' = None \/ journal' = journal)
        /\ \E result : Ends(p, result)
    BY <1>2 DEF Crash, Validate, files
  <2>2. memory'[p] = Idle /\ \A q \in Proc \ {p} : memory'[q] = memory[q]
    BY <1>0, <2>1, EndsAt
  <2>3. DOMAIN changed = Proc  BY DEF NotedInv
  <2> QED  BY <1>0, <2>1, <2>2, <2>3, IdleIsNoted, ReadingKeepsNotes
<1>3. ASSUME NEW p \in Proc, UnlinkScaffoldTemporary(p) PROVE NotedInv'
  <2>1. memory'[p] = Idle /\ \A q \in Proc \ {p} : memory'[q] = memory[q]
    BY <1>0, <1>3, EndsAt DEF UnlinkScaffoldTemporary
  <2>2. SomethingElseChanges /\ UNCHANGED journal  BY <1>3 DEF UnlinkScaffoldTemporary
  <2> QED  BY <1>0, <2>1, <2>2, IdleIsNoted, DisturbanceKeepsNotes
<1>4. ASSUME NEW p \in Proc, LinkScaffold(p) PROVE NotedInv'
  <2>1. CASE SomethingElseChanges /\ Goes(p, "unlink", <<>>)
    <3>1. memory'[p].pc = "unlink" /\ \A q \in Proc \ {p} : memory'[q] = memory[q]
      BY <1>0, <2>1, Keeps
    <3>2. memory'[p].pc \notin Planning  BY <3>1, StagingPcs DEF Creating
    <3>3. SomethingElseChanges /\ UNCHANGED journal  BY <1>4, <2>1 DEF LinkScaffold
    <3> QED  BY <1>0, <3>1, <3>2, <3>3, DisturbanceKeepsNotes
  <2>2. CASE Ends(p, "refused") /\ UNCHANGED <<docs, linked, changed>>
    <3>1. memory'[p] = Idle /\ \A q \in Proc \ {p} : memory'[q] = memory[q]
      BY <1>0, <2>2, EndsAt
    <3>2. DOMAIN changed = Proc  BY DEF NotedInv
    <3>3. UNCHANGED <<journal, mentions>>  BY <1>4 DEF LinkScaffold
    <3> QED  BY <1>0, <2>2, <3>1, <3>2, <3>3, IdleIsNoted, ReadingKeepsNotes
  <2> QED  BY <1>4, <2>1, <2>2 DEF LinkScaffold
<1>5. ASSUME NEW p \in Proc, Execute(p) PROVE NotedInv'  BY <1>5, ExecuteKeepsNotes
<1>6. ASSUME NEW side \in {"before", "after"}, Recover(side) PROVE NotedInv'
  BY <1>6, RecoverKeepsNotes
<1>7. CASE Settle  BY <1>s, <1>7 DEF Settle, counters
<1>8. CASE People
  <2>1. SomethingElseChanges /\ UNCHANGED <<journal, memory>>
    BY <1>8 DEF People, EditDocument, DeleteDocument, MentionPath, EditManifest, Edit
  <2> QED  BY <1>0, <2>1, DisturbanceKeepsNotes
<1>9. CASE UNCHANGED vars  BY <1>s, <1>9 DEF vars, files
<1> QED
  BY <1>1, <1>2, <1>3, <1>4, <1>5, <1>6, <1>7, <1>8, <1>9 DEF Next, Create, Publish

LEMMA NotedInvariant == Spec => []NotedInv
<1>1. Init => NotedInv  BY IdleIsNoted DEF Init, NotedInv
<1>2. ShapeInv /\ NotedInv /\ [Next]_vars => NotedInv'  BY StepKeepsNotes
<1> QED  BY <1>1, <1>2, ShapeInvariant, PTL DEF Spec

\* What was staged is what is live: the validation accepts a plan that nobody
\* interfered with after it was staged, and the validation of its rollback finds
\* the Catalog of its load, if nobody interfered at all
\* (validateLiveContextMutation, validateRolledBackContextMutation).
THEOREM UndisturbedPlansAreSettled == Spec => []UndisturbedPlansSettle
<1>1. ShapeInv /\ ManifestInv /\ NotedInv => UndisturbedPlansSettle
  <2> SUFFICES ASSUME ShapeInv, ManifestInv, NotedInv, journal # None, AsWritten
               PROVE  /\ journal.side = "after" /\ changed[journal.by] # "after staging"
                           => LiveAsPlanned(journal.plan)
                      /\ journal.side = "before" /\ changed[journal.by] = "not"
                           => Identity(toml.manifest, docs) = journal.plan.identity
    BY DEF UndisturbedPlansSettle
  <2> DEFINE m == journal.plan
  <2>1. /\ JournalOK /\ FilesOK /\ clock \in Nat /\ PlanOK(m, clock) /\ m.pc \in Complete
        /\ toml.stamp = journal.stamp
    BY DEF ShapeInv, FilesOK, JournalOK, Complete, AsWritten
  <2>2. toml.manifest = SideManifest(m, journal.side)  BY <2>1 DEF ManifestInv
  <2>3. SameContents(Updated(docs, m[journal.side]), docs)  BY <2>1, AsWrittenContents
  <2>4. JournalNoted(m, changed[journal.by], docs, linked, mentions)  BY DEF NotedInv
  <2>5. m.request \in Requests /\ m.request.op \in {"register", "move"}
    BY <2>1, PlannedDocuments
  <2> HIDE DEF m
  <2>6. ASSUME journal.side = "after", changed[journal.by] # "after staging"
        PROVE  LiveAsPlanned(m)
    <3>1. toml.manifest = m.manifest_after  BY <2>2, <2>6 DEF SideManifest
    <3>2. Accepts(m, docs, linked, mentions)
      BY <2>3, <2>4, <2>5, <2>6, SameAccepted DEF JournalNoted
    <3>3. m.request.op = "register" => ContentAccepted(m.request.path)
      BY <3>2 DEF Accepts, ContentAccepted
    <3>4. m.request.op = "move" =>
            /\ ContentAccepted(m.request.to)
            /\ LinksTo(docs, m.request.path) = {}
            /\ Issues(docs) = m.issues
            /\ NowhereMentioned(m.request.path)
      BY <3>2 DEF Accepts, ContentAccepted, NowhereMentioned
    <3>5. LiveErrors = {} /\ Identity(toml.manifest, docs) = m.identity_after
      BY <3>1, <3>2 DEF Accepts, LiveErrors, Errors
    <3> QED  BY <2>5, <3>3, <3>4, <3>5 DEF LiveAsPlanned
  <2>7. ASSUME journal.side = "before", changed[journal.by] = "not"
        PROVE  Identity(toml.manifest, docs) = m.identity
    <3>1. toml.manifest = m.toml.manifest  BY <2>2, <2>7 DEF SideManifest
    <3>2. m.identity = Identity(m.toml.manifest, Updated(docs, m.before))
      BY <2>4, <2>7 DEF JournalNoted
    <3>3. Identity(m.toml.manifest, Updated(docs, m.before)) = Identity(m.toml.manifest, docs)
      BY <2>3, <2>7, SameCatalog
    <3> QED  BY <3>1, <3>2, <3>3
  <2> QED  BY <2>6, <2>7 DEF m
<1> QED  BY <1>1, ShapeInvariant, ManifestInvariant, NotedInvariant, PTL
-----------------------------------------------------------------------------
(***************************************************************************)
(* A move that the endpoints allow is not refused.                         *)
(***************************************************************************)
Moved(c, from, to) ==
  [source |-> c.source, at |-> c.at, path |-> Redirect(c.path, from, to),
   role |-> c.role, read_policy |-> c.read_policy]

\* What is registered, and at which path, after a move.
LEMMA ReplacedContexts ==
  ASSUME NEW manifest \in Manifest, manifest.parses,
         NEW from \in Path, NEW to \in Path, NEW paths, NEW moved,
         \A x \in AreaPaths(manifest) \cup ContextPaths(manifest) :
           x \in paths <=> Redirect(x, from, to) \in moved
  PROVE  RegisteredContexts(ReplacePath(manifest, from, to), moved)
           = {Moved(c, from, to) : c \in RegisteredContexts(manifest, paths)}
<1> DEFINE after == ReplacePath(manifest, from, to)
           R(c) == Moved(c, from, to)
           A(i) == [source |-> "area", at |-> i, path |-> manifest.areas[i].context,
                    role |-> "area", read_policy |-> "none"]
           C(i) == [source |-> "context", at |-> i, path |-> manifest.contexts[i].path,
                    role |-> manifest.contexts[i].role,
                    read_policy |-> manifest.contexts[i].read_policy]
           As == {j \in DOMAIN manifest.areas : manifest.areas[j].context \in paths}
           Cs == {j \in DOMAIN manifest.contexts :
                    /\ manifest.contexts[j].role # "unknown"
                    /\ manifest.contexts[j].path \in paths}
           A2(i) == [source |-> "area", at |-> i, path |-> after.areas[i].context,
                     role |-> "area", read_policy |-> "none"]
           C2(i) == [source |-> "context", at |-> i, path |-> after.contexts[i].path,
                     role |-> after.contexts[i].role,
                     read_policy |-> after.contexts[i].read_policy]
           As2 == {j \in DOMAIN after.areas : after.areas[j].context \in moved}
           Cs2 == {j \in DOMAIN after.contexts :
                     /\ after.contexts[j].role # "unknown"
                     /\ after.contexts[j].path \in moved}
<1>1. /\ after.parses
      /\ DOMAIN after.areas = DOMAIN manifest.areas
      /\ DOMAIN after.contexts = DOMAIN manifest.contexts
      /\ \A i \in DOMAIN manifest.areas :
           after.areas[i].context = Redirect(manifest.areas[i].context, from, to)
      /\ \A i \in DOMAIN manifest.contexts :
           after.contexts[i] = RedirectEntry(manifest.contexts[i], from, to)
  BY ReplacedManifest
<1>2. /\ \A i \in DOMAIN manifest.areas : manifest.areas[i].context \in AreaPaths(manifest)
      /\ \A i \in DOMAIN manifest.contexts :
           manifest.contexts[i].path \in ContextPaths(manifest)
  BY DEF AreaPaths, ContextPaths
<1>3. \A i \in DOMAIN manifest.contexts : manifest.contexts[i] \in Entry
  BY ManifestFields, Elements
<1>4. \A i \in DOMAIN manifest.contexts :
        /\ after.contexts[i].path = Redirect(manifest.contexts[i].path, from, to)
        /\ after.contexts[i].role = manifest.contexts[i].role
        /\ after.contexts[i].read_policy = manifest.contexts[i].read_policy
  BY <1>1, <1>3, RedirectedEntryFields
<1>5. RegisteredContexts(manifest, paths) = {A(i) : i \in As} \cup {C(i) : i \in Cs}
  BY DEF RegisteredContexts
<1>6. RegisteredContexts(after, moved) = {A2(i) : i \in As2} \cup {C2(i) : i \in Cs2}
  BY <1>1 DEF RegisteredContexts
<1> HIDE DEF after
<1>7. As2 = As /\ Cs2 = Cs  BY <1>1, <1>2, <1>4
<1>8. \A i \in As : A2(i) = R(A(i))  BY <1>1 DEF Moved
<1>9. \A i \in Cs : C2(i) = R(C(i))  BY <1>4 DEF Moved
<1> HIDE DEF A, C, A2, C2, As, Cs, As2, Cs2, R
<1>10. {A2(i) : i \in As2} \cup {C2(i) : i \in Cs2}
         = {R(c) : c \in {A(i) : i \in As} \cup {C(i) : i \in Cs}}
  BY <1>7, <1>8, <1>9
<1> QED  BY <1>5, <1>6, <1>10 DEF after, R

\* The documents as a move read them, with its plan over them: each is where it
\* is moved to, with the links redirected.
LEMMA StagedDocuments ==
  ASSUME NEW m, m.request \in Requests, m.request.op = "move", LoadOK(m), ReadOK(m),
         NEW documents, DOMAIN documents = Path,
         \A f \in Path :
           documents[f] = IF f \in DOMAIN m.read THEN m.read[f] ELSE Absent
  PROVE  LET from == m.request.path
             to == m.request.to
             staged == Updated(documents, AfterOf(m))
         IN  /\ DOMAIN m.read = m.catalog.files /\ ContextFiles(documents) = m.catalog.files
             /\ \A f \in m.catalog.files :
                  /\ documents[f] = m.read[f]
                  /\ staged[Redirect(f, from, to)].body = m.read[f].body
                  /\ staged[Redirect(f, from, to)].links
                       = {Redirect(t, from, to) : t \in m.read[f].links}
             /\ ContextFiles(staged) = (m.catalog.files \ {from}) \cup {to}
<1> DEFINE from == m.request.path
           to == m.request.to
           known == m.catalog.files
           over == AfterOf(m)
           staged == Updated(documents, over)
           R(x) == Redirect(x, from, to)
<1>1. from \in Path /\ to \in Path /\ from # to /\ known \subseteq Path
  BY RequestFields DEF LoadOK
<1>2. /\ m.read \in [known -> Doc] /\ \A f \in known : Exists(m.read[f])
      /\ DOMAIN m.read = known
  BY DEF ReadOK
<1>3. /\ from \in known /\ to \notin known
      /\ DOMAIN over = {from, to} \cup ReferringOf(m) /\ DOMAIN over \subseteq Path
      /\ ReferringOf(m) \subseteq known \ {from}
      /\ over[from] = Absent /\ over[to] = PatchLinks(m.read[from], from, to)
      /\ \A f \in ReferringOf(m) : over[f] = PatchLinks(m.read[f], from, to)
      /\ \A f \in DOMAIN over \ {from} : Exists(over[f])
  BY AfterDocuments
<1>4. \A f \in known \ {from} : f \notin ReferringOf(m) => from \notin m.read[f].links
  BY <1>2 DEF ReferringOf
<1>5. \A f \in known : documents[f] = m.read[f]  BY <1>1, <1>2
<1>6. \A f \in Path \ known : documents[f] = Absent  BY <1>2
<1>7. ContextFiles(documents) = known
  BY <1>1, <1>2, <1>5, <1>6, AbsentIsNoDocument DEF ContextFiles
<1> HIDE DEF over, known, from, to
<1>8. \A f \in Path : staged[f] = IF f \in DOMAIN over THEN over[f] ELSE documents[f]
  BY <1>3 DEF Updated
<1> HIDE DEF staged
<1>9. ASSUME NEW f \in known
      PROVE  /\ staged[R(f)].body = m.read[f].body
             /\ staged[R(f)].links = {R(t) : t \in m.read[f].links}
  <2>0. m.read[f] \in Doc /\ f \in Path  BY <1>1, <1>2, <1>9
  <2>1. /\ PatchLinks(m.read[f], from, to).body = m.read[f].body
        /\ PatchLinks(m.read[f], from, to).links = {R(t) : t \in m.read[f].links}
    <3> DEFINE doc == m.read[f]
    <3>1. doc \in Doc  BY <2>0
    <3> HIDE DEF doc
    <3>2. /\ PatchLinks(doc, from, to).body = doc.body
          /\ PatchLinks(doc, from, to).links = {R(t) : t \in doc.links}
      <4>1. from \in Path /\ to \in Path  BY <1>1
      <4> QED  BY <3>1, <4>1, PatchedDocument
    <3> QED  BY <3>2 DEF doc
  <2>2. CASE f = from
    <3>1. R(f) = to  BY <2>2 DEF Redirect
    <3>2. staged[to] = PatchLinks(m.read[f], from, to)  BY <1>1, <1>3, <1>8, <2>2
    <3> QED  BY <2>1, <3>1, <3>2
  <2>3. CASE f # from
    <3>1. R(f) = f  BY <2>3 DEF Redirect
    <3>2. CASE f \in ReferringOf(m)
      <4>1. staged[f] = PatchLinks(m.read[f], from, to)  BY <1>3, <1>8, <2>0, <3>2
      <4> QED  BY <2>1, <3>1, <4>1
    <3>3. CASE f \notin ReferringOf(m)
      <4>1. f \notin DOMAIN over  BY <1>3, <1>9, <2>3, <3>3
      <4>2. staged[f] = m.read[f]  BY <1>5, <1>8, <1>9, <2>0, <4>1
      <4>3. from \notin m.read[f].links  BY <1>4, <1>9, <2>3, <3>3
      <4>4. m.read[f].links = {R(t) : t \in m.read[f].links}  BY <4>3 DEF Redirect
      <4> QED  BY <3>1, <4>2, <4>4
    <3> QED  BY <3>2, <3>3
  <2> QED  BY <2>2, <2>3
<1>10. ContextFiles(staged) = (known \ {from}) \cup {to}
  <2>1. ~Exists(staged[from])  BY <1>1, <1>3, <1>8, AbsentIsNoDocument
  <2>2. Exists(staged[to])
    BY <1>1, <1>3, <1>8
  <2>3. \A f \in known \ {from} : Exists(staged[f])
    <3>1. SUFFICES ASSUME NEW f \in known \ {from} PROVE Exists(staged[f])  OBVIOUS
    <3>2. R(f) = f /\ f \in known  BY <3>1 DEF Redirect
    <3>3. staged[f].body = m.read[f].body  BY <1>9, <3>2
    <3> QED  BY <1>2, <3>2, <3>3 DEF Exists, known
  <2>4. \A f \in Path \ (known \cup {to}) : ~Exists(staged[f])
    BY <1>3, <1>6, <1>8, AbsentIsNoDocument
  <2> QED  BY <1>1, <2>1, <2>2, <2>3, <2>4 DEF ContextFiles
<1> QED  BY <1>2, <1>5, <1>7, <1>9, <1>10 DEF staged, over, known, from, to

\* With one owner at the source and none at the target, the owner is the one.
LEMMA OwnerFollows ==
  ASSUME NEW manifest \in Manifest, NEW paths, manifest.parses, paths \subseteq Path,
         ManifestErrors(manifest, paths) = {},
         NEW r \in Requests, r.op = "move", Endpoints(manifest, paths, r),
         NEW staged, linked = {},
         ContextFiles(staged) = (paths \ {r.path}) \cup {r.to}
  PROVE  SameOwner(manifest, ReplacePath(manifest, r.path, r.to), staged, r)
<1> DEFINE after == ReplacePath(manifest, r.path, r.to)
           R(x) == Redirect(x, r.path, r.to)
           S(c) == Moved(c, r.path, r.to)
           K(c) == [source |-> c.source, role |-> c.role, read_policy |-> c.read_policy]
           moved == (paths \ {r.path}) \cup {r.to}
           now == RegisteredContexts(manifest, paths)
           then == RegisteredContexts(after, moved)
<1>1. r.path \in Path /\ r.to \in Path /\ r.path # r.to  BY RequestFields
<1>0. r.path \in Path /\ r.to \in Path  BY <1>1
<1>2. r.path \in paths /\ r.to \notin paths
  BY RegisteredAmongFiles DEF Endpoints, SameKey
<1>3. AreaPaths(manifest) \cup ContextPaths(manifest) \subseteq paths
  BY ErrorFree, SoundPaths
<1>3a. \A x \in paths : R(x) \in moved  BY DEF Redirect
<1>4. then = {S(c) : c \in now}
  <2>1. \A x \in AreaPaths(manifest) \cup ContextPaths(manifest) :
          x \in paths <=> R(x) \in moved
    BY <1>3, <1>3a
  <2> HIDE DEF moved
  <2> QED  BY <1>0, <2>1, ReplacedContexts
<1>5. now = RegisteredContexts(manifest, Path)
  BY RegisteredAnyway
<1>6. RegisteredContexts(after, Path) = {S(c) : c \in now}
  <2>1. \A x \in AreaPaths(manifest) \cup ContextPaths(manifest) : x \in Path <=> R(x) \in Path
    BY <1>1, <1>3 DEF Redirect
  <2>2. RegisteredContexts(after, Path) = {S(c) : c \in RegisteredContexts(manifest, Path)}
    BY <1>0, <2>1, ReplacedContexts
  <2> QED  BY <1>5, <2>2
<1>7. Registered(after, staged) = then
  BY <1>2 DEF Registered, UsableFiles
<1>8. \A c \in now : c.path # r.to  BY <1>2, RegisteredAmongFiles
<1>9. \A c \in now : K(S(c)) = K(c) /\ S(c).path = R(c.path)  BY DEF Moved
<1>10. PICK own \in now : own.path = r.path /\ \A d \in now : d.path = r.path => d = own
  BY DEF Endpoints
<1> HIDE DEF after, S, K, now, then
<1>11. \A c \in now : (S(c).path = r.to <=> c.path = r.path) /\ S(c).path # r.path
  BY <1>1, <1>8, <1>9 DEF Redirect
<1>12. {K(c) : c \in {k \in RegisteredContexts(after, Path) : k.path = r.to}}
         = {K(c) : c \in {k \in RegisteredContexts(manifest, Path) : k.path = r.path}}
  <2>1. {k \in {S(c) : c \in now} : k.path = r.to} = {S(c) : c \in {k \in now : k.path = r.path}}
    BY <1>11
  <2>2. {K(c) : c \in {S(d) : d \in {k \in now : k.path = r.path}}}
          = {K(d) : d \in {k \in now : k.path = r.path}}
    BY <1>9
  <2> QED  BY <1>5, <1>6, <2>1, <2>2
<1>13. {c \in then : c.path = r.to} = {S(own)}
  BY <1>4, <1>10, <1>11
<1>14. ~\E c \in then : c.path = r.path  BY <1>4, <1>11
<1>15. \E c \in {k \in then : k.path = r.to} : {k \in then : k.path = r.to} = {c}
  BY <1>13
<1> QED  BY <1>7, <1>12, <1>14, <1>15 DEF SameOwner, after, K

\* A move of a document other than global.md, of which nothing changed since it
\* was read, is not refused by the staged Catalog: the patched manifest and the
\* patched links agree (assertContextMoveEndpoints, replaceContextManifestPath,
\* planContextMoveMarkdown, the staged load of context-move.ts:166).
THEOREM AllowedMovesAreStaged == Spec => []AllowedMovesStage
<1>1. ShapeInv => AllowedMovesStage
  <2> SUFFICES ASSUME ShapeInv, NEW p \in Proc, At(p, "stage"),
                      Request(p).op = "move", Request(p).path # Global,
                      toml = memory[p].toml,
                      \A f \in Path :
                        docs[f] = IF f \in DOMAIN memory[p].read THEN memory[p].read[f]
                                  ELSE Absent,
                      linked = {}, ContentValid(docs[Request(p).path])
               PROVE  StagedMoveAccepted(p)
    BY DEF AllowedMovesStage
  <2> DEFINE m == memory[p]
             r == m.request
             R(x) == Redirect(x, r.path, r.to)
             files_ == m.catalog.files
             staged == Updated(docs, AfterOf(m))
             moved == (files_ \ {r.path}) \cup {r.to}
             manifest == m.toml.manifest
             after == ReplacePath(manifest, r.path, r.to)
  <2>1. /\ r \in Requests /\ r.op = "move" /\ LoadOK(m) /\ ReadOK(m) /\ TomlOK(m, clock)
    BY DEF ShapeInv, PlansOK, PlanOK, At, Request, AfterLoad, AfterRead, AfterSource,
           AfterManifest
  <2>2. /\ r.path \in Path /\ r.to \in Path /\ ~SameKey(r.path, r.to) /\ r.path # r.to
        /\ r.path # Global
    BY <2>1, RequestFields DEF Request
  <2>3. /\ manifest \in Manifest /\ manifest.parses /\ ManifestErrors(manifest, files_) = {}
        /\ Collisions(files_) = {} /\ files_ \subseteq Path
        /\ Endpoints(manifest, files_, r)
    BY <2>1 DEF LoadOK, TomlOK, ValidManifest
  <2>4. DOMAIN docs = Path  BY DEF ShapeInv, FilesOK
  <2>5. /\ DOMAIN m.read = files_ /\ ContextFiles(docs) = files_
        /\ \A f \in files_ :
             /\ docs[f] = m.read[f]
             /\ staged[R(f)].body = m.read[f].body
             /\ staged[R(f)].links = {R(t) : t \in m.read[f].links}
        /\ ContextFiles(staged) = moved
    BY <2>1, <2>4, StagedDocuments
  <2>6. StagedMove(p) = staged /\ ManifestAfter(p) = after
    BY PlannedIsAfter DEF StagedMove, Overlay, ManifestAfter, Request
  <2>7. r.path \in files_ /\ r.to \notin files_
    BY <2>3, RegisteredAmongFiles DEF Endpoints, SameKey
  <2>8. ContentValid(docs[r.path])  BY DEF Request
  <2>8a. m.read \in [files_ -> Doc]  BY <2>1 DEF ReadOK
  <2> HIDE DEF m, r, staged, files_, manifest, after
  <2>9. Errors(after, staged) = {}
    <3>1. Relocates(files_, r.path, r.to)
      BY <2>2, <2>3 DEF Relocates, Endpoints
    <3>2. SoundManifest(manifest, files_)  BY <2>3, ErrorFree
    <3>3. ManifestErrors(after, moved) = {}
      BY <2>2, <2>3, <3>1, <3>2, ReplacedIsSound, ErrorFree DEF after
    <3>4. after.parses  BY <2>2, <2>3, ReplacedManifest DEF after
    <3>5. Collisions(moved) = {}
      BY <2>3, <3>1 DEF Collisions, Relocates, SameKey
    <3>6. moved \ linked = moved  OBVIOUS
    <3> HIDE DEF moved
    <3> QED  BY <2>5, <3>3, <3>4, <3>5, <3>6, CatalogErrorFree DEF Errors
  <2>10. SameOwner(manifest, after, staged, r)
    BY <2>1, <2>3, <2>5, OwnerFollows DEF after
  <2>11. ContentValid(staged[r.to])
    <3>1. R(r.path) = r.to  BY DEF Redirect
    <3>2. staged[r.to].body = docs[r.path].body  BY <2>5, <2>7, <3>1
    <3> QED  BY <2>8, <3>2 DEF ContentValid
  <2>12. \A g \in moved : \E f \in files_ : g = R(f)
    BY <2>2, <2>7 DEF Redirect
  <2>13. \A t : R(t) # r.path  BY <2>2 DEF Redirect
  <2>14. LinksTo(staged, r.path) = {}
    <3>1. SUFFICES ASSUME NEW g \in moved, r.path \in staged[g].links PROVE FALSE
      BY <2>5 DEF LinksTo
    <3>2. PICK f \in files_ : g = R(f)  BY <2>12, <3>1
    <3> QED  BY <2>5, <2>13, <3>1, <3>2
  <2> DEFINE known == [f \in Path |-> IF f \in files_ THEN docs[f] ELSE Absent]
             previous == {<<R(i[1]), R(i[2])>> : i \in Issues(known)}
  <2>15. Issues(staged) \subseteq previous
    <3>1. SUFFICES ASSUME NEW i \in Issues(staged) PROVE i \in previous  OBVIOUS
    <3>2. /\ i \in moved \X Path /\ i[2] \in staged[i[1]].links /\ ~Exists(staged[i[2]])
      BY <2>5, <3>1 DEF Issues, Missing
    <3>3. PICK f \in files_ : i[1] = R(f)  BY <2>12, <3>2
    <3>4. i[2] \in {R(t) : t \in m.read[f].links}  BY <2>5, <3>2, <3>3
    <3>5. PICK t \in m.read[f].links : i[2] = R(t)  BY <3>4
    <3>6. f \in Path /\ t \in Path  BY <2>3, <2>8a, <3>3, <3>5 DEF Doc
    <3>7. i[2] \notin moved
      <4>1. i[2] \in Path  BY <3>2
      <4> QED  BY <2>5, <3>2, <4>1 DEF ContextFiles
    <3>8. t \notin files_
      BY <3>5, <3>7 DEF Redirect
    <3>9. known[t] = Absent /\ known[f] = m.read[f]  BY <2>5, <3>6, <3>8
    <3>10. f \in ContextFiles(known)
      <4>1. f \in ContextFiles(docs)  BY <2>5
      <4>2. Exists(docs[f])  BY <4>1 DEF ContextFiles
      <4> QED  BY <2>5, <3>6, <3>9, <4>2 DEF ContextFiles
    <3> HIDE DEF known
    <3>11. <<f, t>> \in Issues(known)
      <4>1. <<f, t>> \in ContextFiles(known) \X Path  BY <3>6, <3>10
      <4>2. t \in known[f].links /\ Missing(known, t)
        BY <3>5, <3>9, AbsentIsNoDocument DEF Missing
      <4> QED  BY <4>1, <4>2 DEF Issues
    <3>12. i = <<R(f), R(t)>>  BY <3>2, <3>3, <3>5
    <3> QED  BY <3>11, <3>12
  <2> HIDE DEF known
  <2>16. Request(p) = r /\ memory[p].toml.manifest = manifest /\ memory[p].catalog.files = files_
    BY DEF Request, r, m, manifest, files_
  <2>17. /\ files_ \subseteq ContextFiles(docs)
         /\ Issues(staged) \subseteq
              {<<Redirect(i[1], r.path, r.to), Redirect(i[2], r.path, r.to)>> :
                 i \in Issues([f \in Path |-> IF f \in files_ THEN docs[f] ELSE Absent])}
    BY <2>5, <2>15 DEF known
  <2> QED
    BY <2>6, <2>9, <2>10, <2>11, <2>14, <2>16, <2>17 DEF StagedMoveAccepted
<1> QED  BY <1>1, ShapeInvariant, PTL
-----------------------------------------------------------------------------
(***************************************************************************)
(* The default selection after a move, and after a registration.           *)
(***************************************************************************)
Rooted(manifest, roots) ==
  roots \subseteq Path /\ \A p \in Path : ChildrenOf(manifest, p) \subseteq Path
ClosedUnder(manifest, S) == \A p \in S : ChildrenOf(manifest, p) \subseteq S

\* What is traversed is closed under the children, and is the least such set.
LEMMA TraverseIsClosed ==
  ASSUME NEW manifest, NEW roots, Rooted(manifest, roots)
  PROVE  /\ roots \subseteq Traverse(manifest, roots)
         /\ ClosedUnder(manifest, Traverse(manifest, roots))
         /\ Traverse(manifest, roots) \subseteq Path
<1> DEFINE known == roots \cup UNION {ChildrenOf(manifest, p) : p \in Path}
           Closed(S) == roots \subseteq S /\ \A p \in S : ChildrenOf(manifest, p) \subseteq S
           T == Traverse(manifest, roots)
<1>1. T = {p \in known : \A S \in SUBSET known : Closed(S) => p \in S}  BY DEF Traverse
<1>2. known \subseteq Path  BY DEF Rooted
<1>3. \A p \in known : ChildrenOf(manifest, p) \subseteq known  BY <1>2
<1> HIDE DEF T
<1>4. roots \subseteq T  BY <1>1
<1> HIDE DEF known
<1>5. ASSUME NEW p \in T, NEW c \in ChildrenOf(manifest, p) PROVE c \in T
  <2>1. p \in known /\ \A S \in SUBSET known : Closed(S) => p \in S  BY <1>1, <1>5
  <2>2. c \in known  BY <1>3, <1>5, <2>1
  <2>3. ASSUME NEW S \in SUBSET known, Closed(S) PROVE c \in S
    <3>1. p \in S  BY <2>1, <2>3
    <3> QED  BY <1>5, <2>3, <3>1
  <2> QED  BY <1>1, <2>2, <2>3
<1>6. T \subseteq Path  BY <1>1, <1>2
<1> QED  BY <1>4, <1>5, <1>6 DEF T, ClosedUnder

LEMMA TraverseIsLeast ==
  ASSUME NEW manifest, NEW roots, Rooted(manifest, roots),
         NEW S, roots \subseteq S, ClosedUnder(manifest, S)
  PROVE  Traverse(manifest, roots) \subseteq S
<1> DEFINE known == roots \cup UNION {ChildrenOf(manifest, p) : p \in Path}
           Closed(X) == roots \subseteq X /\ \A p \in X : ChildrenOf(manifest, p) \subseteq X
           K == {p \in known : p \in S}
<1>1. Traverse(manifest, roots) = {p \in known : \A X \in SUBSET known : Closed(X) => p \in X}
  BY DEF Traverse
<1>2. known \subseteq Path  BY DEF Rooted
<1>3. \A p \in known : ChildrenOf(manifest, p) \subseteq known  BY <1>2
<1>4. roots \subseteq K  OBVIOUS
<1> HIDE DEF known
<1>5. \A p \in K : ChildrenOf(manifest, p) \subseteq K  BY <1>3 DEF ClosedUnder
<1>6. K \in SUBSET known /\ Closed(K)  BY <1>4, <1>5
<1> HIDE DEF K, Closed
<1>7. \A p \in Traverse(manifest, roots) : p \in K  BY <1>1, <1>6
<1> QED  BY <1>7 DEF K

\* Two sets of roots are traversed one after the other.
LEMMA TraverseUnion ==
  ASSUME NEW manifest, NEW a, NEW b, Rooted(manifest, a \cup b)
  PROVE  Traverse(manifest, a \cup b) = Traverse(manifest, a) \cup Traverse(manifest, b)
<1> DEFINE A == Traverse(manifest, a)
           B == Traverse(manifest, b)
           C == Traverse(manifest, a \cup b)
<1>1. Rooted(manifest, a) /\ Rooted(manifest, b)  BY DEF Rooted
<1>2. /\ a \subseteq A /\ ClosedUnder(manifest, A)
      /\ b \subseteq B /\ ClosedUnder(manifest, B)
      /\ a \cup b \subseteq C /\ ClosedUnder(manifest, C)
  BY <1>1, TraverseIsClosed
<1>3. A \subseteq C /\ B \subseteq C
  <2>1. a \subseteq C /\ b \subseteq C  BY <1>2
  <2> HIDE DEF C
  <2> QED  BY <1>1, <1>2, <2>1, TraverseIsLeast
<1>4. C \subseteq A \cup B
  <2>1. a \cup b \subseteq A \cup B  BY <1>2
  <2>2. ClosedUnder(manifest, A \cup B)  BY <1>2 DEF ClosedUnder
  <2> HIDE DEF A, B
  <2> QED  BY <2>1, <2>2, TraverseIsLeast
<1> QED  BY <1>3, <1>4

UniqueEntries(manifest) ==
  \A i, j \in DOMAIN manifest.contexts :
    manifest.contexts[i].path = manifest.contexts[j].path => i = j

LEMMA SoundEntriesAreUnique ==
  ASSUME NEW manifest \in Manifest, NEW paths, SoundManifest(manifest, paths)
  PROVE  UniqueEntries(manifest)
  BY OneEntry DEF SoundManifest, UniqueEntries

\* The children are those of the entry.
LEMMA ChildrenByEntry ==
  ASSUME NEW manifest \in Manifest, UniqueEntries(manifest), NEW p
  PROVE  /\ (\A i \in DOMAIN manifest.contexts : manifest.contexts[i].path # p)
              => ChildrenOf(manifest, p) = {}
         /\ \A i \in DOMAIN manifest.contexts :
              manifest.contexts[i].path = p =>
                ChildrenOf(manifest, p) = ToSet(manifest.contexts[i].default_children)
         /\ ChildrenOf(manifest, p) \subseteq Path
<1> DEFINE entries == {i \in DOMAIN manifest.contexts : manifest.contexts[i].path = p}
<1>1. manifest.contexts \in Seq(Entry)  BY ManifestFields
<1>2. /\ DOMAIN manifest.contexts = 1..Len(manifest.contexts)
      /\ Len(manifest.contexts) \in Nat
      /\ \A i \in DOMAIN manifest.contexts :
           ToSet(manifest.contexts[i].default_children) \subseteq Path
  <2>0. \A i \in DOMAIN manifest.contexts : manifest.contexts[i] \in Entry
    BY <1>1, Elements
  <2>1. \A i \in DOMAIN manifest.contexts : manifest.contexts[i].default_children \in Seq(Path)
    BY <2>0 DEF Entry
  <2> QED  BY <1>1, <2>1, Elements
<1>3. ASSUME entries = {} PROVE ChildrenOf(manifest, p) = {}
  BY <1>3 DEF ChildrenOf
<1>4. ASSUME NEW i \in entries
      PROVE  ChildrenOf(manifest, p) = ToSet(manifest.contexts[i].default_children)
  <2>1. entries = {i}  BY <1>4 DEF UniqueEntries
  <2>2. i >= i  BY <1>2, <1>4
  <2>3. Max({i}) = i  BY <2>2 DEF Max
  <2> QED  BY <2>1, <2>3 DEF ChildrenOf
<1> QED  BY <1>2, <1>3, <1>4

LEMMA ManifestIsRooted ==
  ASSUME NEW manifest \in Manifest, UniqueEntries(manifest),
         NEW roots, roots \subseteq Path
  PROVE  Rooted(manifest, roots)
  BY ChildrenByEntry DEF Rooted

\* What starts the traversal is declared, and so is what it meets.
LEMMA TraversalIsDeclared ==
  ASSUME NEW manifest \in Manifest, NEW paths, SoundManifest(manifest, paths)
  PROVE  /\ Rooted(manifest, TraversalRoots(manifest))
         /\ TraversalRoots(manifest) \subseteq ContextPaths(manifest)
         /\ \A p : ChildrenOf(manifest, p)
                     \subseteq AreaPaths(manifest) \cup ContextPaths(manifest)
         /\ Traverse(manifest, TraversalRoots(manifest))
              \subseteq AreaPaths(manifest) \cup ContextPaths(manifest)
<1> DEFINE D == AreaPaths(manifest) \cup ContextPaths(manifest)
           roots == TraversalRoots(manifest)
<1>1. UniqueEntries(manifest)  BY SoundEntriesAreUnique
<1>2. \A i \in DOMAIN manifest.contexts :
        /\ manifest.contexts[i].path \in ContextPaths(manifest)
        /\ ToSet(manifest.contexts[i].default_children) \subseteq D
  BY SoundPaths
<1>3. roots \subseteq ContextPaths(manifest)  BY <1>2 DEF TraversalRoots, ToSet
<1>4. D \subseteq Path  BY ManifestParts DEF AreaPaths, ContextPaths
<1> HIDE DEF D, roots
<1>5. ASSUME NEW p PROVE ChildrenOf(manifest, p) \subseteq D
  <2>1. CASE \A i \in DOMAIN manifest.contexts : manifest.contexts[i].path # p
    BY <1>1, <2>1, ChildrenByEntry
  <2>2. CASE \E i \in DOMAIN manifest.contexts : manifest.contexts[i].path = p
    <3>1. PICK i \in DOMAIN manifest.contexts : manifest.contexts[i].path = p  BY <2>2
    <3>2. ChildrenOf(manifest, p) = ToSet(manifest.contexts[i].default_children)
      BY <1>1, <3>1, ChildrenByEntry
    <3> QED  BY <1>2, <3>2
  <2> QED  BY <2>1, <2>2
<1>6. roots \subseteq D  BY <1>3 DEF D
<1>7. Rooted(manifest, roots)  BY <1>1, <1>4, <1>6, ManifestIsRooted
<1>8. ClosedUnder(manifest, D)  BY <1>5 DEF ClosedUnder
<1>9. Traverse(manifest, roots) \subseteq D  BY <1>6, <1>7, <1>8, TraverseIsLeast
<1> QED  BY <1>3, <1>5, <1>7, <1>9 DEF D, roots

\* The children of a moved path are those it had, moved.
LEMMA ReplacedChildren ==
  ASSUME NEW manifest \in Manifest, NEW paths, SoundManifest(manifest, paths),
         NEW from, NEW to, Relocates(paths, from, to),
         NEW p, p # to
  PROVE  ChildrenOf(ReplacePath(manifest, from, to), Redirect(p, from, to))
           = {Redirect(c, from, to) : c \in ChildrenOf(manifest, p)}
<1> DEFINE after == ReplacePath(manifest, from, to)
           R(x) == Redirect(x, from, to)
<1>0. from \in Path /\ to \in Path /\ from # to /\ to \notin paths
  BY DEF Relocates, SameKey
<1>1. /\ after \in Manifest
      /\ DOMAIN after.contexts = DOMAIN manifest.contexts
      /\ \A i \in DOMAIN manifest.contexts :
           after.contexts[i] = RedirectEntry(manifest.contexts[i], from, to)
  BY <1>0, ReplacedManifest
<1>2. \A i \in DOMAIN manifest.contexts :
        manifest.contexts[i] \in Entry /\ manifest.contexts[i].path \in paths
  BY SoundPaths
<1>3. \A i \in DOMAIN manifest.contexts :
        after.contexts[i].path = R(manifest.contexts[i].path)
  BY <1>0, <1>1, <1>2, RedirectedEntryFields
<1>4. \A i \in DOMAIN manifest.contexts :
        Redirected(manifest.contexts[i].default_children,
                   after.contexts[i].default_children, from, to)
  BY <1>0, ReplacedSequences
<1>5. \A i \in DOMAIN manifest.contexts :
        ToSet(after.contexts[i].default_children)
          = {R(c) : c \in ToSet(manifest.contexts[i].default_children)}
  BY <1>4, RedirectedSets
<1>5a. SoundManifest(after, (paths \ {from}) \cup {to})  BY ReplacedIsSound
<1> HIDE DEF after
<1>6. UniqueEntries(manifest) /\ UniqueEntries(after)
  BY <1>1, <1>5a, SoundEntriesAreUnique
<1>7. \A i \in DOMAIN manifest.contexts :
        after.contexts[i].path = R(p) <=> manifest.contexts[i].path = p
  BY <1>0, <1>2, <1>3 DEF Redirect
<1>8. CASE \A i \in DOMAIN manifest.contexts : manifest.contexts[i].path # p
  <2>1. ChildrenOf(manifest, p) = {}  BY <1>6, <1>8, ChildrenByEntry
  <2>2. ChildrenOf(after, R(p)) = {}  BY <1>1, <1>6, <1>7, <1>8, ChildrenByEntry
  <2> QED  BY <2>1, <2>2 DEF after
<1>9. CASE \E i \in DOMAIN manifest.contexts : manifest.contexts[i].path = p
  <2>1. PICK i \in DOMAIN manifest.contexts : manifest.contexts[i].path = p  BY <1>9
  <2>2. ChildrenOf(manifest, p) = ToSet(manifest.contexts[i].default_children)
    BY <1>6, <2>1, ChildrenByEntry
  <2>3. ChildrenOf(after, R(p)) = ToSet(after.contexts[i].default_children)
    <3>1. i \in DOMAIN after.contexts /\ after.contexts[i].path = R(p)  BY <1>1, <1>7, <2>1
    <3> QED  BY <1>1, <1>6, <3>1, ChildrenByEntry
  <2> QED  BY <1>5, <2>1, <2>2, <2>3 DEF after
<1> QED  BY <1>8, <1>9

\* A move takes the default selection along.
LEMMA SelectionOfMove ==
  ASSUME NEW manifest \in Manifest, manifest.parses,
         NEW paths, SoundManifest(manifest, paths),
         NEW from, NEW to, Relocates(paths, from, to)
  PROVE  DefaultSelection(ReplacePath(manifest, from, to))
           = {Redirect(f, from, to) : f \in DefaultSelection(manifest)}
<1> DEFINE after == ReplacePath(manifest, from, to)
           R(x) == Redirect(x, from, to)
           roots == TraversalRoots(manifest)
           roots2 == TraversalRoots(after)
           T == Traverse(manifest, roots)
           T2 == Traverse(after, roots2)
           D == AreaPaths(manifest) \cup ContextPaths(manifest)
<1>0. from \in Path /\ to \in Path /\ from # to /\ from # Global /\ to \notin paths
  BY DEF Relocates, SameKey
<1>1. /\ after \in Manifest /\ after.parses
      /\ DOMAIN after.areas = DOMAIN manifest.areas
      /\ DOMAIN after.contexts = DOMAIN manifest.contexts
      /\ \A i \in DOMAIN manifest.areas :
           /\ after.areas[i].context = R(manifest.areas[i].context)
           /\ after.areas[i].default = manifest.areas[i].default
      /\ \A i \in DOMAIN manifest.contexts :
           after.contexts[i] = RedirectEntry(manifest.contexts[i], from, to)
  BY <1>0, ReplacedManifest
<1>2. \A i \in DOMAIN manifest.contexts :
        /\ after.contexts[i].path = R(manifest.contexts[i].path)
        /\ after.contexts[i].read_policy = manifest.contexts[i].read_policy
  BY <1>0, <1>1, SoundPaths, RedirectedEntryFields
<1>3. /\ Rooted(manifest, roots) /\ T \subseteq D
      /\ \A p : ChildrenOf(manifest, p) \subseteq D
  BY TraversalIsDeclared
<1>4. Rooted(after, roots2)
  <2>1. SoundManifest(after, (paths \ {from}) \cup {to})  BY ReplacedIsSound
  <2> HIDE DEF after
  <2> QED  BY <1>1, <2>1, TraversalIsDeclared
<1>5. D \subseteq paths  BY SoundPaths
<1>6. roots \subseteq T /\ ClosedUnder(manifest, T)  BY <1>3, TraverseIsClosed
<1>7. roots2 \subseteq T2 /\ ClosedUnder(after, T2)  BY <1>4, TraverseIsClosed
<1>8. \A p : p # to => ChildrenOf(after, R(p)) = {R(c) : c \in ChildrenOf(manifest, p)}
  BY ReplacedChildren
<1>9. roots2 = {R(x) : x \in roots}
  <2>1. roots = {manifest.contexts[i].path :
                   i \in {j \in DOMAIN manifest.contexts :
                            manifest.contexts[j].read_policy = "default"}}
    BY DEF TraversalRoots, ToSet
  <2>2. roots2 = {after.contexts[i].path :
                    i \in {j \in DOMAIN after.contexts :
                             after.contexts[j].read_policy = "default"}}
    BY DEF TraversalRoots, ToSet
  <2> HIDE DEF roots, roots2, after
  <2> QED  BY <1>1, <1>2, <2>1, <2>2
<1> HIDE DEF after, roots, roots2, T, T2, D
<1>10. \A p \in T : p # to  BY <1>0, <1>3, <1>5
<1>11. T2 \subseteq {R(x) : x \in T}
  <2> DEFINE S == {R(x) : x \in T}
  <2>1. roots2 \subseteq S  BY <1>6, <1>9
  <2>2. ASSUME NEW q \in S PROVE ChildrenOf(after, q) \subseteq S
    <3>1. PICK p \in T : q = R(p)  BY <2>2
    <3>2. ChildrenOf(after, q) = {R(c) : c \in ChildrenOf(manifest, p)}
      BY <1>8, <1>10, <3>1
    <3>3. ChildrenOf(manifest, p) \subseteq T  BY <1>6, <3>1 DEF ClosedUnder
    <3> QED  BY <3>2, <3>3
  <2>3. ClosedUnder(after, S)  BY <2>2 DEF ClosedUnder
  <2> HIDE DEF S
  <2>4. Traverse(after, roots2) \subseteq S  BY <1>4, <2>1, <2>3, TraverseIsLeast
  <2> QED  BY <2>4 DEF S, T2
<1>12. {R(x) : x \in T} \subseteq T2
  <2> DEFINE S == {x \in T : R(x) \in T2}
  <2>1. roots \subseteq S  BY <1>6, <1>7, <1>9
  <2>2. ASSUME NEW p \in S PROVE ChildrenOf(manifest, p) \subseteq S
    <3>1. p \in T /\ R(p) \in T2  BY <2>2
    <3>2. ChildrenOf(manifest, p) \subseteq T  BY <1>6, <3>1 DEF ClosedUnder
    <3>3. ChildrenOf(after, R(p)) \subseteq T2  BY <1>7, <3>1 DEF ClosedUnder
    <3>4. ChildrenOf(after, R(p)) = {R(c) : c \in ChildrenOf(manifest, p)}
      BY <1>8, <1>10, <3>1
    <3> QED  BY <3>2, <3>3, <3>4
  <2>3. ClosedUnder(manifest, S)  BY <2>2 DEF ClosedUnder
  <2> HIDE DEF S
  <2>4. Traverse(manifest, roots) \subseteq S  BY <1>3, <2>1, <2>3, TraverseIsLeast
  <2> QED  BY <2>4 DEF S, T
<1>13. T2 = {R(x) : x \in T}  BY <1>11, <1>12
<1>14. DirectSelection(after) = {R(x) : x \in DirectSelection(manifest)}
  <2>1. ToSet(DirectDefaults(after)) = {R(x) : x \in ToSet(DirectDefaults(manifest))}
    BY <1>0, ReplacedSequences, RedirectedSets DEF after
  <2> DEFINE defaults(m) == {a.context : a \in {b \in ToSet(m.areas) : b.default}}
  <2>2. \A m : defaults(m) = {m.areas[i].context : i \in {j \in DOMAIN m.areas : m.areas[j].default}}
    BY DEF ToSet
  <2> HIDE DEF defaults
  <2>3. defaults(after) = {R(x) : x \in defaults(manifest)}  BY <1>1, <2>2
  <2> QED  BY <2>1, <2>3 DEF DirectSelection, defaults
<1>15. DefaultSelection(after) = DirectSelection(after) \cup T2
  BY <1>1 DEF DefaultSelection, T2, roots2
<1>16. DefaultSelection(manifest) = DirectSelection(manifest) \cup T
  BY DEF DefaultSelection, T, roots
<1> QED  BY <1>13, <1>14, <1>15, <1>16 DEF after

\* A registration adds what it makes a default, and nothing else.
LEMMA SelectionOfRegistration ==
  ASSUME NEW manifest \in Manifest, manifest.parses,
         NEW paths, SoundManifest(manifest, paths),
         NEW r \in Requests, r.op = "register", r.path \notin RegisteredPaths(manifest)
  PROVE  LET after == AppendContext(manifest, r)
         IN  DefaultSelection(after) =
               DefaultSelection(manifest) \cup
                 (IF r.read_policy # "default" THEN {} ELSE Traverse(after, {r.path}))
<1> DEFINE e == EntryOf(r)
           after == AppendContext(manifest, r)
           roots == TraversalRoots(manifest)
           T == Traverse(manifest, roots)
           D == AreaPaths(manifest) \cup ContextPaths(manifest)
           n == Len(manifest.contexts) + 1
<1>1. e \in Entry /\ e.path = r.path /\ e.read_policy = r.read_policy
  BY RegisteredEntry DEF EntryOf
<1>1a. r.path \in Path  BY RequestFields
<1>2. /\ after \in Manifest /\ after.areas = manifest.areas
      /\ after.default_files = manifest.default_files /\ after.parses
      /\ after.contexts = Append(manifest.contexts, e)
  BY <1>1, AppendedManifest, AppendIsAppended
<1>3. manifest.contexts \in Seq(Entry)  BY ManifestFields
<1> HIDE DEF after, e
<1>4. /\ DOMAIN manifest.contexts = 1..Len(manifest.contexts) /\ n \in Nat
      /\ DOMAIN after.contexts = DOMAIN manifest.contexts \cup {n}
      /\ n \notin DOMAIN manifest.contexts
      /\ after.contexts[n] = e
      /\ \A i \in DOMAIN manifest.contexts : after.contexts[i] = manifest.contexts[i]
  BY <1>1, <1>2, <1>3
<1> HIDE DEF n
<1>5. /\ Rooted(manifest, roots) /\ T \subseteq D /\ roots \subseteq ContextPaths(manifest)
      /\ \A p : ChildrenOf(manifest, p) \subseteq D
  BY TraversalIsDeclared
<1>6. r.path \notin D  BY DeclaredSet
<1>7. UniqueEntries(manifest)  BY SoundEntriesAreUnique
<1>8. \A i \in DOMAIN manifest.contexts : manifest.contexts[i].path \in D
  BY DEF ContextPaths
<1>9. UniqueEntries(after)
  BY <1>1, <1>4, <1>6, <1>7, <1>8 DEF UniqueEntries
<1> HIDE DEF T, roots, D
<1>10. \A p : p # r.path => ChildrenOf(after, p) = ChildrenOf(manifest, p)
  <2>1. SUFFICES ASSUME NEW p, p # r.path
                 PROVE  ChildrenOf(after, p) = ChildrenOf(manifest, p)
    OBVIOUS
  <2>2. CASE \A i \in DOMAIN manifest.contexts : manifest.contexts[i].path # p
    <3>1. \A i \in DOMAIN after.contexts : after.contexts[i].path # p
      BY <1>1, <1>4, <2>1, <2>2
    <3>2. ChildrenOf(after, p) = {}  BY <1>2, <1>9, <3>1, ChildrenByEntry
    <3>3. ChildrenOf(manifest, p) = {}  BY <1>7, <2>2, ChildrenByEntry
    <3> QED  BY <3>2, <3>3
  <2>3. CASE \E i \in DOMAIN manifest.contexts : manifest.contexts[i].path = p
    <3>1. PICK i \in DOMAIN manifest.contexts : manifest.contexts[i].path = p  BY <2>3
    <3>2. i \in DOMAIN after.contexts /\ after.contexts[i] = manifest.contexts[i]
      BY <1>4, <3>1
    <3>3. ChildrenOf(after, p) = ToSet(after.contexts[i].default_children)
      BY <1>2, <1>9, <3>1, <3>2, ChildrenByEntry
    <3>4. ChildrenOf(manifest, p) = ToSet(manifest.contexts[i].default_children)
      BY <1>7, <3>1, ChildrenByEntry
    <3> QED  BY <3>2, <3>3, <3>4
  <2> QED  BY <2>2, <2>3
<1>11. ChildrenOf(manifest, r.path) = {}
  <2>1. \A i \in DOMAIN manifest.contexts : manifest.contexts[i].path # r.path
    BY <1>6, <1>8
  <2> QED  BY <1>7, <2>1, ChildrenByEntry
<1>12. roots \subseteq Path  BY <1>5 DEF Rooted
<1>13. \A s : s \subseteq Path => Rooted(after, s)  BY <1>2, <1>9, ManifestIsRooted
<1>14. Traverse(after, roots) = T
  <2>1. Rooted(after, roots)  BY <1>12, <1>13
  <2>2. roots \subseteq T /\ ClosedUnder(manifest, T)  BY <1>5, TraverseIsClosed DEF T
  <2>3. ClosedUnder(after, T)
    BY <1>5, <1>6, <1>10, <2>2 DEF ClosedUnder
  <2>4. Traverse(after, roots) \subseteq T  BY <2>1, <2>2, <2>3, TraverseIsLeast
  <2> DEFINE U == Traverse(after, roots)
  <2>5. roots \subseteq U /\ ClosedUnder(after, U)  BY <2>1, TraverseIsClosed
  <2> HIDE DEF U
  <2>6. ClosedUnder(manifest, U)
    BY <1>10, <1>11, <2>5 DEF ClosedUnder
  <2>7. T \subseteq U  BY <1>5, <2>5, <2>6, TraverseIsLeast DEF T
  <2> QED  BY <2>4, <2>7 DEF U
<1>15. DirectSelection(after) = DirectSelection(manifest)
  BY <1>2 DEF DirectSelection, DirectDefaults
<1>16. DefaultSelection(manifest) = DirectSelection(manifest) \cup T
  BY DEF DefaultSelection, T, roots
<1>17. DefaultSelection(after)
         = DirectSelection(after) \cup Traverse(after, TraversalRoots(after))
  BY <1>2 DEF DefaultSelection
<1>18. TraversalRoots(after)
         = roots \cup (IF r.read_policy # "default" THEN {} ELSE {r.path})
  <2>1. \A m : TraversalRoots(m) =
          {m.contexts[i].path : i \in {j \in DOMAIN m.contexts :
                                         m.contexts[j].read_policy = "default"}}
    BY DEF TraversalRoots, ToSet
  <2>2. roots = {manifest.contexts[i].path :
                   i \in {j \in DOMAIN manifest.contexts :
                            manifest.contexts[j].read_policy = "default"}}
    BY <2>1 DEF roots
  <2>3. TraversalRoots(after) =
          {after.contexts[i].path : i \in {j \in DOMAIN after.contexts :
                                             after.contexts[j].read_policy = "default"}}
    BY <2>1
  <2> QED  BY <1>1, <1>4, <2>2, <2>3
<1>19. CASE r.read_policy # "default"
  BY <1>14, <1>15, <1>16, <1>17, <1>18, <1>19 DEF after
<1>20. CASE r.read_policy = "default"
  <2>1. Rooted(after, roots \cup {r.path})  BY <1>1a, <1>12, <1>13
  <2>2. Traverse(after, roots \cup {r.path}) = Traverse(after, roots) \cup Traverse(after, {r.path})
    BY <2>1, TraverseUnion
  <2> QED  BY <1>14, <1>15, <1>16, <1>17, <1>18, <1>20, <2>2 DEF after
<1> QED  BY <1>19, <1>20

\* What a command writes where nothing was unfinished selects what was selected,
\* with what its registration makes a default, or with its path moved.
LEMMA StepKeepsSelection ==
  ASSUME ShapeInv, EditsInv, [Next]_vars, ByCommand, journal = None,
         toml'.manifest # toml.manifest
  PROVE  LET r == journal'.plan.request
             before == DefaultSelection(toml.manifest)
         IN  DefaultSelection(toml'.manifest) =
               IF r.op = "move" THEN {Redirect(f, r.path, r.to) : f \in before}
               ELSE before \cup
                    (IF r.read_policy # "default" THEN {}
                     ELSE Traverse(toml'.manifest, {r.path}))
<1>1. PICK p \in Proc : Execute(p)
  <2>1. toml' # toml  OBVIOUS
  <2>2. ~People  BY PeopleAreCounted DEF EditsInv, ByCommand
  <2>3. \A p \in Proc :
          ~(\/ Give(p) \/ Register(p) \/ Move(p) \/ CaptureManifest(p)
            \/ LoadForCreate(p) \/ EnsureDirectory(p) \/ RecheckDestination(p))
    BY <2>1, PlanningIsAlone DEF Alone
  <2>4. \A p \in Proc :
          ~(LinkScaffold(p) \/ UnlinkScaffoldTemporary(p) \/ Crash(p) \/ Validate(p))
    BY <2>1 DEF LinkScaffold, UnlinkScaffoldTemporary, Crash, Validate, files
  <2>5. ~Settle /\ \A side \in {"before", "after"} : ~Recover(side)
    BY DEF Settle, Recover
  <2>6. ~UNCHANGED vars  BY <2>1 DEF vars, files
  <2> QED  BY <2>2, <2>3, <2>4, <2>5, <2>6 DEF Next, Create, Publish
<1> DEFINE m == memory[p]
           r == m.request
           manifest == toml.manifest
           paths == m.catalog.files
<1>2. /\ Write(m, "after") /\ StillAsPlanned(p)
      /\ journal' = [plan |-> m, by |-> p, side |-> "after", stamp |-> clock + 1]
  BY <1>1 DEF Execute
<1>3. /\ r \in Requests /\ LoadOK(m) /\ TomlOK(m, clock) /\ StagedOK(m)
  BY <1>1 DEF Execute, At, ShapeInv, PlansOK, PlanOK, AfterLoad, AfterRead, AfterSource,
              AfterManifest, AfterStage, Complete
<1>4. journal'.plan.request = r /\ toml'.manifest = m.manifest_after  BY <1>2 DEF Write
<1>5. m.toml.manifest = manifest /\ m.catalog.manifest = manifest
  BY <1>2, <1>3 DEF StillAsPlanned, TomlOK
<1> HIDE DEF m
<1>6. toml'.manifest = ManifestOf(m) /\ r.op \in {"register", "move"}
  BY <1>3, <1>4 DEF StagedOK, LoadOK
<1>7. /\ manifest \in Manifest /\ manifest.parses /\ ManifestErrors(manifest, paths) = {}
  BY <1>3, <1>5 DEF LoadOK, ValidManifest
<1>8. SoundManifest(manifest, paths)  BY <1>7, ErrorFree
<1>9. CASE r.op = "move"
  <2>1. /\ r.path \in Path /\ r.to \in Path /\ r.path # r.to  BY <1>3, <1>9, RequestFields
  <2>2. r.path # Global  BY <1>3, <1>9 DEF StagedOK
  <2>3. \A f \in paths : ~SameKey(f, r.to)  BY <1>3, <1>9 DEF LoadOK, Endpoints
  <2>4. Relocates(paths, r.path, r.to)  BY <2>1, <2>2, <2>3 DEF Relocates
  <2>5. toml'.manifest = ReplacePath(manifest, r.path, r.to)
    BY <1>5, <1>6, <1>9 DEF ManifestOf
  <2> HIDE DEF r, manifest, paths
  <2>6. DefaultSelection(ReplacePath(manifest, r.path, r.to))
          = {Redirect(f, r.path, r.to) : f \in DefaultSelection(manifest)}
    BY <1>7, <1>8, <2>4, SelectionOfMove
  <2> QED  BY <1>4, <1>9, <2>5, <2>6 DEF r, manifest
<1>10. CASE r.op = "register"
  <2>1. r.path \notin RegisteredPaths(manifest)  BY <1>3, <1>5, <1>10 DEF LoadOK
  <2>2. toml'.manifest = AppendContext(manifest, r)
    BY <1>5, <1>6, <1>10 DEF ManifestOf
  <2>3. r.op # "move"  BY <1>10
  <2> HIDE DEF r, manifest, paths
  <2>4. DefaultSelection(AppendContext(manifest, r)) =
          DefaultSelection(manifest) \cup
            (IF r.read_policy # "default" THEN {}
             ELSE Traverse(AppendContext(manifest, r), {r.path}))
    BY <1>3, <1>7, <1>8, <1>10, <2>1, SelectionOfRegistration
  <2> QED  BY <1>4, <2>2, <2>3, <2>4 DEF manifest
<1> QED  BY <1>6, <1>9, <1>10

\* Only a registration as a default, or a path that is moved, changes what is
\* read by default: a registration adds what its entry leads to, a move takes the
\* selection along, path by path (selectDefaultContextPaths of what
\* appendContextManifestBlock and replaceContextManifestPath wrote).
THEOREM SelectionIsFollowed == Spec => SelectionFollows
<1>1. ASSUME ShapeInv, EditsInv, [Next]_vars
      PROVE  [ByCommand /\ journal = None /\ toml'.manifest # toml.manifest =>
                LET r == journal'.plan.request
                    before == DefaultSelection(toml.manifest)
                IN  DefaultSelection(toml'.manifest) =
                      IF r.op = "move" THEN {Redirect(f, r.path, r.to) : f \in before}
                      ELSE before \cup
                           (IF r.read_policy # "default" THEN {}
                            ELSE Traverse(toml'.manifest, {r.path}))]_vars
  <2> SUFFICES ASSUME ByCommand, journal = None, toml'.manifest # toml.manifest
               PROVE  LET r == journal'.plan.request
                          before == DefaultSelection(toml.manifest)
                      IN  DefaultSelection(toml'.manifest) =
                            IF r.op = "move" THEN {Redirect(f, r.path, r.to) : f \in before}
                            ELSE before \cup
                                 (IF r.read_policy # "default" THEN {}
                                  ELSE Traverse(toml'.manifest, {r.path}))
    OBVIOUS
  <2> QED  BY <1>1, StepKeepsSelection
<1> QED
  BY <1>1, ShapeInvariant, EditsInvariant, PTL DEF Spec, SelectionFollows
-----------------------------------------------------------------------------
=============================================================================
