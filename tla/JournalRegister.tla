---------------------------- MODULE JournalRegister ----------------------------
(***************************************************************************)
(* What the journal storage promises to the transaction it serves: one     *)
(* journal, begun at sequence 0, advanced one sequence at a time, and then *)
(* gone.  It never goes back to an earlier sequence and never leaps from   *)
(* one transaction to another.                                             *)
(***************************************************************************)
EXTENDS Naturals

CONSTANTS
  Txn,       \* the transactions
  NoJournal  \* there is no journal

VARIABLE value  \* the latest journal: its transaction and its sequence

Init == value = NoJournal

Begin == /\ value = NoJournal
         /\ \E t \in Txn : value' = [txn |-> t, seq |-> 0]

Advance == /\ value # NoJournal
           /\ value' = [value EXCEPT !.seq = @ + 1]

Remove == /\ value # NoJournal
          /\ value' = NoJournal

Next == Begin \/ Advance \/ Remove

Spec == Init /\ [][Next]_value
=============================================================================
