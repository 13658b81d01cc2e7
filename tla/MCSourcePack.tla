----------------------------- MODULE MCSourcePack -----------------------------
EXTENDS SourcePack, TLC

CONSTANTS p, q

\* Nothing tells the two commands apart.
Alike == Permutations({p, q})

File(name, code, characters, tags, area) ==
  [name |-> name, code |-> code, excluded |-> FALSE, characters |-> characters,
   sensitive |-> name = 2, tags |-> tags, depth |-> 2, areas |-> area, top |-> name \div 2]

\* Files for no bundle, for one, for two and for more than there is room for.
Large ==
  {File(1, TRUE, 2, {"entry"}, {}), File(2, TRUE, 2, {"api", "test"}, {1}),
   File(3, TRUE, 1, {"ui"}, {2}), File(4, TRUE, 2, {"oversized"}, {}),
   File(5, TRUE, 3, {"cli"}, {1, 2}), File(6, FALSE, 1, {}, {}),
   [File(7, TRUE, 1, {"entry"}, {}) EXCEPT !.excluded = TRUE]}
Trees == {Large, {File(6, FALSE, 1, {}, {})}}

OnlyProfile ==
  [demo |-> [code |-> {1, 2}, context |-> {6}, exclude |-> {1}, budget |-> 2]]

Request(mode, max, strategy) ==
  [mode |-> mode, max |-> max, task |-> "task a", profile |-> None, include |-> {},
   includeContext |-> {}, budget |-> 3, strategy |-> strategy, keep |-> 0,
   strict |-> FALSE, check |-> FALSE]

\* Packs that are written, the options of their plan, and those that are refused.
Written ==
  {Request("source-pack", 5, "auto"),
   [Request("task-context", 5, "area") EXCEPT !.keep = 1],
   [Request("task-context", 4, "topdir") EXCEPT !.task = "task b"]}
\* Every mode with every limit, accepted or not, and budgets from one file to most.
Strategies == <<"auto", "topdir", "area">>
Checked ==
  {[Request(m, n, Strategies[(n % 3) + 1]) EXCEPT !.check = TRUE, !.budget = n - 1] :
     m \in Modes, n \in {2, 3, 4, 6}}

Refused ==
  {[Request("source-pack", 5, "auto") EXCEPT !.strict = TRUE],
   [Request("source-pack", 5, "auto") EXCEPT !.profile = "missing"],
   [Request("code-bundles", 3, "config") EXCEPT !.profile = "demo", !.budget = None]}

\* Reports into `latest`, the manifest's own name included, and options that do
\* not go together.
Report(mode, output, check) == [mode |-> mode, output |-> output, check |-> check]
Reports ==
  {Report("full", "index", FALSE), Report("code", Manifest, FALSE),
   Report("code", "index", TRUE),
   [profile |-> "demo"] @@ Report("full", "index", FALSE),
   [output |-> "index"] @@ Request("source-pack", 5, "auto"),
   [Request("source-pack", 5, "auto") EXCEPT !.strategy = "size"]}

AllRequests == Written \cup Checked \cup Refused \cup Reports

\* Rounds of the tool, one with a note, one edited, one without a manifest.
Empty == [n \in Name |-> Absent]
Old == Text("export", 0)
Tools == ("index" :> Old) @@ (Manifest :> ManifestText("export", 0, TRUE, "index" :> Old))
              @@ Empty
Theirs == Text("people", 0)
OldRounds ==
  {<<[Tools EXCEPT !["core"] = Theirs], [Tools EXCEPT ![Manifest] = Absent]>>,
   <<[Tools EXCEPT !["index"] = Theirs], Tools>>}
===============================================================================
