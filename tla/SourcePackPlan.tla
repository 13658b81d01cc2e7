---------------------------- MODULE SourcePackPlan ----------------------------
(***************************************************************************)
(* What a Source Pack is made of: which files of the project it takes,     *)
(* which bundle each of them goes to, and which artifacts there are.       *)
(*                                                                         *)
(* A file of the project is a record:                                      *)
(*   name        its place in the order of paths                           *)
(*   code        it is a code file (its extension, its name)               *)
(*   excluded    its path is one that no export takes                      *)
(*   characters  its size, redacted                                        *)
(*   sensitive   it has a line to redact                                   *)
(*   tags, depth, areas, top   what it is classified by                    *)
(* A pattern is the set of the names that match it.                        *)
(***************************************************************************)
EXTENDS Integers, Sequences, FiniteSets, SequencesExt, FiniteSetsExt, Folds

MaximumPackFiles == 5
Modes == {"code-index", "source-pack", "code-bundles", "task-context"}

\* validateMaxPackFiles.
RequiredFiles(mode) ==
  CASE mode = "code-index" -> 2 [] mode = "task-context" -> 4 [] OTHER -> 3
LimitAccepted(mode, max) == max \in RequiredFiles(mode) .. MaximumPackFiles

\* scoreFor.
Weight ==
  [entry |-> 50, api |-> 35, cli |-> 32, worker |-> 30, contract |-> 28, ui |-> 24,
   test |-> 18, config |-> 12, oversized |-> -15]

\* What the numbers and tags of a file are.
SourceOK(file) ==
  /\ file.name \in Nat /\ file.characters \in Nat /\ file.depth \in Nat
  /\ file.tags \subseteq DOMAIN Weight /\ file.areas \subseteq Nat /\ file.top \in Nat
\* The files of a project.
ProjectOK(tree) == IsFiniteSet(tree) /\ \A file \in tree : SourceOK(file)

Score(file) ==
  MapThenSumSet(LAMBDA tag : Weight[tag], file.tags)
    + (IF file.depth < 20 THEN 20 - file.depth ELSE 0)

\* routingBucket: the first area, by name, that has the file; areas come before
\* the other buckets in the order of names.
Bucket(file) ==
  IF file.areas = {} THEN <<1, file.top>> ELSE <<0, Min(file.areas)>>

\* shouldIncludeCodeFile.
TakenAsCode(file) == file.code /\ ~file.excluded

\* collectCodeRecords.
CodeRecords(project, include, exclude) ==
  {file \in project : /\ TakenAsCode(file)
                      /\ file.name \notin exclude
                      /\ include = {} \/ file.name \in include}

\* collectContextArtifacts: a pattern counts for a task only.
ContextSources(project, mode, include) ==
  {file \in project : /\ ~file.code /\ ~file.excluded
                      /\ mode = "task-context" /\ include # {} => file.name \in include}

Earlier(a, b) == a[1] < b[1] \/ (a[1] = b[1] /\ a[2] < b[2])

\* sortedRecords.
Before(strategy, a, b) ==
  LET ByName == a.name < b.name
      ByScore == Score(a) > Score(b)
      SameScore == Score(a) = Score(b)
  IN  CASE strategy = "auto" ->
             \/ ByScore
             \/ SameScore /\ Earlier(Bucket(a), Bucket(b))
             \/ SameScore /\ Bucket(a) = Bucket(b) /\ ByName
        [] strategy = "topdir" ->
             \/ a.top < b.top
             \/ a.top = b.top /\ (ByScore \/ (SameScore /\ ByName))
        [] OTHER ->
             \/ Earlier(Bucket(a), Bucket(b))
             \/ Bucket(a) = Bucket(b) /\ (ByScore \/ (SameScore /\ ByName))

Characters(records) == MapThenSumSet(LAMBDA record : record.characters, records)

\* The one that comes last, in that order.
SortedLast(records, strategy) ==
  CHOOSE last \in records : \A record \in records : ~Before(strategy, last, record)

\* assignBundles and assignTaskBundles: each record goes where there is room for
\* it when those before it have gone, in the first bundle or in the second.
Add(budget, bundles, record) ==
  LET Fits(bundle) == Characters(bundle) + record.characters <= budget
  IN  IF Fits(bundles.first) THEN [bundles EXCEPT !.first = @ \cup {record}]
      ELSE IF Fits(bundles.second) THEN [bundles EXCEPT !.second = @ \cup {record}]
      ELSE [bundles EXCEPT !.omitted = @ \cup {record}]

Bundles(records, strategy, budget) ==
  MapThenFoldSet(LAMBDA record, bundles : Add(budget, bundles, record),
                 [first |-> {}, second |-> {}, omitted |-> {}],
                 LAMBDA record : record,
                 LAMBDA left : SortedLast(left, strategy),
                 records)

\* mutant: the manifest is not counted.
SlotsWithoutManifest(max, artifacts) == max - Len(artifacts)
\* What is left of the limit when the manifest has its place.
Slots(max, artifacts) == max - Len(artifacts) - 1

\* addDefaultBundles and addTaskArtifacts.
WithDefaultBundles(artifacts, max, bundles) ==
  artifacts
  \o (IF Slots(max, artifacts) >= 1 /\ bundles.first # {} THEN <<"core">> ELSE <<>>)
  \o (IF Slots(max, artifacts) >= 2 /\ bundles.second # {} THEN <<"extended">> ELSE <<>>)

WithTask(artifacts, max, bundles, task) ==
  LET taken == Append(artifacts, task)
  IN  taken
      \o (IF Slots(max, taken) >= 1 /\ bundles.second # {} THEN <<"support">> ELSE <<>>)

\* The artifacts of a pack but its manifest, in their order.
Artifacts(mode, max, bundles, task) ==
  CASE mode = "code-index"   -> <<"index">>
    [] mode = "source-pack"  -> WithDefaultBundles(<<"full", "index">>, max, bundles)
    [] mode = "code-bundles" -> WithDefaultBundles(<<"index">>, max, bundles)
    [] mode = "task-context" -> WithTask(<<"full", "index">>, max, bundles, task)
===============================================================================
