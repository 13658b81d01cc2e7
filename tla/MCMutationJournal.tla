--------------------------- MODULE MCMutationJournal ---------------------------
EXTENDS MutationJournalProofs, TLC

CONSTANTS a1, a2, r1, t1

\* Two commands apply the same plan while one recovers.
Repeating == a1 :> "apply" @@ a2 :> "apply" @@ r1 :> "recover"

SamePlan == [p \in Proc |-> t1]

Alike == Permutations({a1, a2})
=============================================================================
