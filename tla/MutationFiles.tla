---------------------------- MODULE MutationFiles ----------------------------
(***************************************************************************)
(* What one file of a Context mutation looks like on disk, what the        *)
(* journal records of it, and how mutation-cas.ts decides from the two     *)
(* whether the file is at its "before" or its "after" side.                *)
(*                                                                         *)
(* A file state keeps of lstat and the bytes only what the decisions tell  *)
(* apart: the inode, a class of contents, the link count and the ctime.    *)
(* mode and bytes change together with `data`; size and mtime follow the   *)
(* inode's `data`.                                                         *)
(***************************************************************************)
EXTENDS Naturals

Side == {"before", "after"}

OppositeSide(s) == IF s = "before" THEN "after" ELSE "before"

\* old: the bytes read when the plan was made; new: the planned bytes;
\* foreign: bytes that somebody else wrote.
Data == {"absent", "old", "new", "foreign", "unrecorded"}

FileState == [ino : Nat, data : Data, nlink : 0..2, ctime : Nat]

Absent == [ino |-> 0, data |-> "absent", nlink |-> 0, ctime |-> 0]

\* A planned "after" that exists has bytes and no identity yet.
PlannedNew == [ino |-> 0, data |-> "new", nlink |-> 0, ctime |-> 0]

\* The null of published_before and published_after.
Unrecorded == [ino |-> 0, data |-> "unrecorded", nlink |-> 0, ctime |-> 0]

\* The null of temporary_state.
NoTemporary == [side |-> "none", state |-> Absent]

Exists(state) == state.data # "absent"

(***************************************************************************)
(* A change is the journal's entry for one file: its planned sides, the    *)
(* recorded temporary and the recorded published endpoints.                *)
(***************************************************************************)
SamePayload(state, expected) == state.data = expected.data

SameFileObject(state, expected) ==
  /\ Exists(state) /\ Exists(expected)
  /\ state.ino = expected.ino
  /\ state.data = expected.data

\* The one link left of a recorded pair of links.
IsOwnedDeletionRemainder(state, recorded) ==
  /\ state.nlink = 1
  /\ recorded.nlink = 2
  /\ SameFileObject(state, recorded)

\* mutant: a file with the recorded bytes is taken for the recorded file.
MatchesRecordedBytes(change, current, side) ==
  SamePayload(current, change.planned[side])

MatchesRecordedSide(change, current, side) ==
  \/ current = change.published[side]
  \/ Exists(change.planned[side]) /\ current = change.planned[side]
  \/ /\ side = "before"
     /\ ~Exists(change.planned[side])
     /\ change.published["after"] = Unrecorded
     /\ current = Absent

\* mutant: the tombstone of a file that is unlinked is not recognised.
TombstoneWhileLinked(current, temporary, prepared) ==
  IF Exists(current) /\ current = prepared.state /\ temporary = prepared.state
  THEN prepared.side ELSE "none"

OwnedDeletionTombstoneTransition(current, temporary, prepared) ==
  CASE /\ Exists(current)
       /\ current = prepared.state
       /\ temporary = prepared.state            -> prepared.side
    [] /\ ~Exists(current)
       /\ IsOwnedDeletionRemainder(temporary, prepared.state)
                                                -> OppositeSide(prepared.side)
    [] /\ ~Exists(temporary)
       /\ IsOwnedDeletionRemainder(current, prepared.state)
                                                -> prepared.side
    [] OTHER                                    -> "none"

OwnedReplacementTransition(change, current, temporary, prepared) ==
  IF /\ SamePayload(current, change.planned[prepared.side])
     /\ SameFileObject(current, prepared.state)
     /\ \/ ~Exists(temporary) /\ current.nlink = 1
        \/ /\ current.nlink = 2
           /\ temporary.nlink = 2
           /\ SameFileObject(current, temporary)
  THEN prepared.side
  ELSE "none"

OwnedTemporaryTransition(change, current, temporary) ==
  LET prepared == change.temporary
  IN  CASE prepared = NoTemporary     -> "none"
        [] prepared.state.nlink = 2   ->
             OwnedDeletionTombstoneTransition(current, temporary, prepared)
        [] prepared.state.nlink = 1   ->
             OwnedReplacementTransition(change, current, temporary, prepared)

HasUnrecordedTemporary(change, temporary) ==
  change.temporary = NoTemporary /\ Exists(temporary)

\* "none" stands for the code's "conflict".
MutationChangeDisposition(change, current, temporary) ==
  IF HasUnrecordedTemporary(change, temporary) THEN "unrecorded"
  ELSE IF MatchesRecordedSide(change, current, "before") THEN "before"
  ELSE IF MatchesRecordedSide(change, current, "after") THEN "after"
  ELSE OwnedTemporaryTransition(change, current, temporary)

\* mutant: a temporary of its own is not removed.
RemovableRemainder(change, current, temporary) ==
  /\ IsOwnedDeletionRemainder(temporary, change.temporary.state)
  /\ ~Exists(current)

\* What removeOwnedTemporary demands before it unlinks a temporary.
RemovableTemporary(change, current, temporary) ==
  LET prepared == change.temporary
  IN  /\ prepared # NoTemporary
      /\ \/ temporary = prepared.state
         \/ /\ temporary.nlink = 2 /\ current.nlink = 2
            /\ SameFileObject(current, temporary)
            /\ SamePayload(temporary, change.planned[prepared.side])
            /\ OwnedTemporaryTransition(change, current, temporary)
                 = prepared.side
         \/ /\ IsOwnedDeletionRemainder(temporary, prepared.state)
            /\ ~Exists(current)

\* prepareMutationTemporaryForRecovery keeps such a temporary.
ReusableTemporary(change, temporary, side) ==
  /\ Exists(change.planned[side])
  /\ change.temporary.side = side
  /\ \/ temporary = change.temporary.state
     \/ IsOwnedDeletionRemainder(temporary, change.temporary.state)

\* assertTemporaryReady, for a side whose file exists.
TemporaryReady(change, temporary, side) ==
  /\ change.temporary.side = side
  /\ \/ temporary = change.temporary.state /\ temporary.nlink = 1
     \/ IsOwnedDeletionRemainder(temporary, change.temporary.state)

\* assertDeletionTombstoneReady, for a deletion away from expectedSide.
DeletionTombstoneReady(change, current, temporary, expectedSide) ==
  /\ change.temporary.side = expectedSide
  /\ change.temporary.state.nlink = 2
  /\ current = change.temporary.state
  /\ temporary = change.temporary.state

\* captureDesiredEndpoint returns the current state or throws.
DesiredEndpointReached(change, current, temporary, side) ==
  /\ SamePayload(current, change.planned[side])
  /\ \/ OwnedTemporaryTransition(change, current, temporary) = side
     \/ current = change.published[side]
     \/ Exists(change.planned[side]) /\ current = change.planned[side]
=============================================================================
