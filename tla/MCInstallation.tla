---------------------------- MODULE MCInstallation ----------------------------
EXTENDS Installation

\* As `init` writes it; of an earlier and a later version; with other entries.
Configs ==
  {[schema |-> s, startup |-> "managed"] : s \in {"current", "old", "newer"}}
  \cup {[schema |-> "current", startup |-> s] : s \in {"not managed", "unsupported"}}

\* No file, blank lines, a text that people wrote, every way to break the markers,
\* an old block.
Wrapped(ns) == <<Text, Begin(ns), OldCore, End(ns), Text>>
ShortTexts ==
  {<<>>, <<Blank>>, <<Text, Blank>>, Wrapped("ty-context"), Wrapped("legacy"),
   <<End("legacy"), Text, Begin("legacy")>>, Wrapped("legacy") \o Block,
   <<Begin("legacy"), Text, Begin("legacy"), End("legacy")>>}

TheirTexts ==
  {<<>>, <<Text, Blank, Text>>, <<Text, Begin("legacy"), Text, End("legacy")>>,
   <<Text>> \o Block}
=============================================================================
