----------------------------- MODULE ManagedBlock -----------------------------
(***************************************************************************)
(* The block that `sync` keeps in AGENTS.md.  A text is a sequence of      *)
(* tokens: the markers of the current and of an earlier namespace, the     *)
(* instructions of this and of an earlier package, blank lines, and what   *)
(* people wrote.                                                           *)
(***************************************************************************)
EXTENDS Integers, SequencesExt

Namespace == {"ty-context", "legacy"}
Begin(ns) == <<"begin", ns>>
End(ns) == <<"end", ns>>
Core == <<"core", "current">>
OldCore == <<"core", "old">>
Blank == <<"blank", "">>
Text == <<"text", "">>
Token == {Begin(ns) : ns \in Namespace} \cup {End(ns) : ns \in Namespace}
           \cup {Core, OldCore, Blank, Text}

Block == <<Begin("ty-context"), Core, End("ty-context")>>

Positions(text, token) == {i \in DOMAIN text : text[i] = token}

TrimEnd(text) == SubSeq(text, 1, Max({0} \cup (DOMAIN text \ Positions(text, Blank))))

\* The namespaces of which a marker is there.
Present(text) ==
  {ns \in Namespace : Positions(text, Begin(ns)) \cup Positions(text, End(ns)) # {}}

\* One begin marker and, after it, one end marker.
WellFormed(text, ns) ==
  \E i, j \in DOMAIN text : /\ Positions(text, Begin(ns)) = {i}
                            /\ Positions(text, End(ns)) = {j}
                            /\ i < j

\* findManagedBlock: any namespace may be found, never two.
Search(text) ==
  IF \E ns \in Present(text) : ~WellFormed(text, ns) THEN "invalid"
  ELSE IF Cardinality(Present(text)) > 1 THEN "invalid"
  ELSE IF Present(text) = {} THEN "missing" ELSE "found"

\* The text before and after the block that was found.
Around(text) ==
  LET ns == CHOOSE n \in Present(text) : TRUE
      i == CHOOSE k \in Positions(text, Begin(ns)) : TRUE
      j == CHOOSE k \in Positions(text, End(ns)) : TRUE
  IN  [before |-> SubSeq(text, 1, i - 1), after |-> SubSeq(text, j + 1, Len(text))]

\* mutant: only the current namespace is looked for.
MergeOver(text) ==
  IF Search(text) = "found" /\ Present(text) = {"ty-context"}
  THEN Around(text).before \o Block \o Around(text).after
  ELSE IF TrimEnd(text) = <<>> THEN Block \o <<Blank>>
  ELSE TrimEnd(text) \o <<Blank>> \o Block \o <<Blank>>
\* mergeManagedBlock of a text that is not invalid.
Merge(text) ==
  IF Search(text) = "found"
  THEN Around(text).before \o Block \o Around(text).after
  ELSE IF TrimEnd(text) = <<>> THEN Block \o <<Blank>>
  ELSE TrimEnd(text) \o <<Blank>> \o Block \o <<Blank>>

\* The lines that are not of the block and not blank, each with its rank among them.
Theirs(text) ==
  LET kept == IF Search(text) = "found" THEN Around(text).before \o Around(text).after
              ELSE text
      lines == DOMAIN kept \ Positions(kept, Blank)
  IN  {<<Cardinality({j \in lines : j <= i}), kept[i]>> : i \in lines}
=============================================================================
