-------------------------- MODULE MCContextAuthoring --------------------------
EXTENDS ContextAuthoring

\* "u.md" is not registered; "U.md", "new/d.md" and "new/D.md" do not exist.
Paths == {"global.md", "architecture.md", "main.md", "k.md", "d.md", "u.md",
          "U.md", "new/d.md", "new/D.md"}

LowerCase == [p \in Paths |-> CASE p = "U.md" -> "u.md"
                               [] p = "new/D.md" -> "new/d.md"
                               [] OTHER -> p]

ParentDirectory ==
  [p \in Paths |-> IF p \in {"new/d.md", "new/D.md"} THEN "new" ELSE "."]

\* architecture.md is declared, on demand, with a child; k.md is read by
\* default and brings d.md along.
Declared(defaults) ==
  [parses        |-> TRUE,
   areas         |-> <<[id |-> "main", context |-> "main.md", default |-> TRUE]>>,
   contexts      |->
     <<[path |-> "architecture.md", role |-> "domain",
        read_policy |-> "on-demand", default_children |-> <<"d.md">>],
       [path |-> "k.md", role |-> "contract", read_policy |-> "default",
        default_children |-> <<"d.md">>],
       [path |-> "d.md", role |-> "domain", read_policy |-> "on-demand",
        default_children |-> <<>>]>>,
   default_files |-> defaults,
   note          |-> 0]

\* As schema 4 left it, and as people write it.
Manifests == {Declared(<<>>), Declared(<<"architecture.md", "d.md">>)}
PlainManifest == {Declared(<<"d.md">>)}

Linking(f) ==
  CASE f = "k.md" -> {"d.md"} [] f = "d.md" -> {"k.md"} [] OTHER -> {}

Documents ==
  {[f \in Paths |-> IF f \in {"U.md", "new/d.md", "new/D.md"} THEN Absent
                    ELSE [body |-> "text", links |-> Linking(f), stamp |-> 0]]}

RegisterU == [op |-> "register", path |-> "u.md", role |-> "domain",
              read_policy |-> "default", default_children |-> <<"d.md">>]
MoveD == [op |-> "move", path |-> "d.md", to |-> "new/d.md"]
MoveToVariant == [op |-> "move", path |-> "d.md", to |-> "U.md"]
CreateNew == [op |-> "create", path |-> "new/d.md"]
CreateVariant == [op |-> "create", path |-> "new/D.md"]

AnyRequest == {RegisterU, MoveD, MoveToVariant, CreateNew, CreateVariant}
OnlyMove == {MoveD}
=============================================================================
