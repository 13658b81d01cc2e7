---------------------------- MODULE AtomicMutation ----------------------------
(***************************************************************************)
(* What a Context mutation promises while nobody edits its files: they     *)
(* change side one at a time, in commit order on the way forward and in    *)
(* the reverse order on the way back, so that a prefix of them is always   *)
(* at its "after" side; and the transaction is over only when all of them  *)
(* are at one side.  The code makes no stronger promise: "File             *)
(* transactions are recoverable, not physically atomic across multiple     *)
(* files" (project_context/architecture.md:5).                             *)
(***************************************************************************)
EXTENDS Naturals

CONSTANT N  \* the number of files

VARIABLES
  applied,  \* the number of files at their "after" side
  outcome   \* "planned", "open", "completed", "rolled back" or "refused"

vars == <<applied, outcome>>

Init == applied = 0 /\ outcome = "planned"

Open == /\ outcome = "planned" /\ outcome' = "open"
        /\ UNCHANGED applied

Refuse == /\ outcome = "planned" /\ outcome' = "refused"
          /\ UNCHANGED applied

Publish == /\ outcome = "open" /\ applied < N
           /\ applied' = applied + 1
           /\ UNCHANGED outcome

Retract == /\ outcome = "open" /\ applied > 0
           /\ applied' = applied - 1
           /\ UNCHANGED outcome

Complete == /\ outcome = "open" /\ applied = N
            /\ outcome' = "completed"
            /\ UNCHANGED applied

RollBack == /\ outcome = "open" /\ applied = 0
            /\ outcome' = "rolled back"
            /\ UNCHANGED applied

Next == Open \/ Refuse \/ Publish \/ Retract \/ Complete \/ RollBack

Spec == Init /\ [][Next]_vars

\* A mutation that has no way back.
ForwardSpec == Init /\ [][Open \/ Publish \/ Complete]_vars
=============================================================================
