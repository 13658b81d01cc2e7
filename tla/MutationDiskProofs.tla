-------------------------- MODULE MutationDiskProofs --------------------------
(***************************************************************************)
(* What holds of every disk that MutationDisk describes, and of what       *)
(* mutation-cas.ts concludes from a file and its temporary, whatever the   *)
(* plan: the facts that the proofs about MutationTransaction and about     *)
(* Retirement cite.                                                        *)
(***************************************************************************)
EXTENDS MutationDisk, TLAPS

\* A file as lstat shows it: nothing, or an inode with bytes and links.
OnDisk ==
  {s \in FileState : \/ s = Absent
                     \/ /\ s.data \in {"old", "new", "foreign"}
                        /\ s.ino > 0
                        /\ s.nlink \in {1, 2}}

\* The two names of f: a link count of two is that of the pair.
PairOK(f) ==
  /\ target[f].ino <= clock[f] /\ temporary[f].ino <= clock[f]
  /\ Linked(f) => target[f] = temporary[f] /\ target[f].nlink = 2
  /\ target[f].nlink = 2 => Linked(f)
  /\ temporary[f].nlink = 2 => Linked(f)

DiskOK(F) ==
  /\ target \in [F -> OnDisk]
  /\ temporary \in [F -> OnDisk]
  /\ clock \in [F -> Nat]
  /\ \A f \in F : PairOK(f)

\* What validateContextMutationJournal demands of the entry of a file.
ChangeOK(change) ==
  /\ \A s \in Side :
       /\ change.planned[s].data # "unrecorded"
       /\ change.published[s] = Unrecorded
            \/ SamePayload(change.published[s], change.planned[s])
  /\ change.temporary # NoTemporary =>
       /\ change.temporary.side \in Side
       /\ Exists(change.temporary.state)
       /\ SamePayload(change.temporary.state,
                      change.planned[change.temporary.side])
       /\ change.temporary.state.nlink \in {1, 2}
       /\ change.temporary.state.nlink = 2 =>
            ~Exists(change.planned[OppositeSide(change.temporary.side)])

\* The inodes that the entry of a file names.
Inodes(change) ==
  {change.planned[s].ino : s \in Side} \cup {change.published[s].ino : s \in Side}
    \cup {change.temporary.state.ino}
-----------------------------------------------------------------------------
(***************************************************************************)
(* The decisions.                                                          *)
(***************************************************************************)
LEMMA SideFacts ==
  /\ \A s : s \in Side <=> s = "before" \/ s = "after"
  /\ OppositeSide("before") = "after" /\ OppositeSide("after") = "before"
  /\ "none" \notin Side /\ "unrecorded" \notin Side
BY DEF Side, OppositeSide

LEMMA AbsentOnDisk ==
  /\ Absent \in OnDisk /\ ~Exists(Absent)
  /\ \A s \in OnDisk : ~Exists(s) <=> s = Absent
BY DEF OnDisk, Absent, Exists, FileState, Data

\* A file that the temporary accounts for has the bytes of the side it is at,
\* and is the inode of the temporary unless it is missing.
LEMMA OwnedTransition ==
  ASSUME NEW change, ChangeOK(change), NEW current \in OnDisk,
         NEW temp \in OnDisk, NEW s \in Side,
         OwnedTemporaryTransition(change, current, temp) = s
  PROVE  /\ change.temporary # NoTemporary
         /\ SamePayload(current, change.planned[s])
         /\ Exists(current) => current.ino = change.temporary.state.ino
<1> DEFINE prepared == change.temporary
<1>1. prepared # NoTemporary
  BY SideFacts DEF OwnedTemporaryTransition, NoTemporary, Absent
<1>2. CASE prepared.state.nlink = 2
  <2>1. OwnedDeletionTombstoneTransition(current, temp, prepared) = s
    BY <1>1, <1>2 DEF OwnedTemporaryTransition
  <2>2. CASE Exists(current) /\ current = prepared.state /\ temp = prepared.state
    BY <1>1, <2>1, <2>2 DEF OwnedDeletionTombstoneTransition, ChangeOK, SamePayload
  <2>3. CASE ~Exists(current) /\ IsOwnedDeletionRemainder(temp, prepared.state)
    <3>1. s = OppositeSide(prepared.side)
      BY <2>1, <2>3
      DEF OwnedDeletionTombstoneTransition, IsOwnedDeletionRemainder, SameFileObject
    <3> QED
      BY <1>1, <1>2, <2>3, <3>1 DEF ChangeOK, SamePayload, Exists
  <2>4. CASE Exists(current) /\ ~Exists(temp) /\ IsOwnedDeletionRemainder(current, prepared.state)
    <3>1. s = prepared.side
      BY <2>1, <2>4, <1>2 DEF OwnedDeletionTombstoneTransition, IsOwnedDeletionRemainder
    <3> QED
      BY <1>1, <2>4, <3>1 DEF ChangeOK, SamePayload, IsOwnedDeletionRemainder, SameFileObject
  <2> QED
    BY <2>1, <2>2, <2>3, <2>4, SideFacts
    DEF OwnedDeletionTombstoneTransition, IsOwnedDeletionRemainder, SameFileObject
<1>3. CASE prepared.state.nlink = 1
  BY <1>1, <1>3, SideFacts
  DEF OwnedTemporaryTransition, OwnedReplacementTransition, SamePayload, SameFileObject
<1> QED
  BY <1>1, <1>2, <1>3 DEF ChangeOK

\* The disposition of a file is true of its bytes: a file that is taken to be at
\* a side has the planned bytes of the side, and it is an inode that the journal
\* names or it is missing (mutationChangeDisposition, mutation-cas.ts).
LEMMA DispositionSound ==
  ASSUME NEW change, ChangeOK(change), NEW current \in OnDisk,
         NEW temp \in OnDisk, NEW s \in Side,
         MutationChangeDisposition(change, current, temp) = s
  PROVE  /\ SamePayload(current, change.planned[s])
         /\ Exists(current) => current.ino \in Inodes(change)
<1>1. CASE MatchesRecordedSide(change, current, s)
  <2>1. current # Unrecorded
    BY DEF OnDisk, Unrecorded, Absent
  <2> QED
    BY <1>1, <2>1
    DEF MatchesRecordedSide, ChangeOK, Inodes, SamePayload, Exists, Absent
<1>2. CASE OwnedTemporaryTransition(change, current, temp) = s
  BY <1>2, OwnedTransition DEF Inodes
<1> QED
  BY <1>1, <1>2, SideFacts DEF MutationChangeDisposition

\* The same of the endpoint that is confirmed (captureDesiredEndpoint).
LEMMA EndpointSound ==
  ASSUME NEW change, ChangeOK(change), NEW current \in OnDisk,
         NEW temp \in OnDisk, NEW s \in Side,
         DesiredEndpointReached(change, current, temp, s)
  PROVE  /\ SamePayload(current, change.planned[s])
         /\ Exists(current) => current.ino \in Inodes(change)
<1>1. CASE OwnedTemporaryTransition(change, current, temp) = s
  BY <1>1, OwnedTransition DEF Inodes
<1> QED
  BY <1>1 DEF DesiredEndpointReached, Inodes
-----------------------------------------------------------------------------
(***************************************************************************)
(* Files that a command without an edit meets: the decisions about each of *)
(* them are the ones that its entry in the journal asks for.               *)
(***************************************************************************)
Differ(change) == change.planned["before"].data # change.planned["after"].data

\* The file is as the journal has it at a side, under this name alone.
StandsAt(change, current, s) ==
  current.nlink <= 1 /\ MatchesRecordedSide(change, current, s)

\* What is left of a recorded pair of names, the planned file being gone.
Remains(change, current, temp) ==
  IsOwnedDeletionRemainder(temp, change.temporary.state) /\ ~Exists(current)

\* The journal knows the temporary that is there.
Accounted(change, current, temp) ==
  Exists(temp) =>
    /\ change.temporary # NoTemporary
    /\ temp = change.temporary.state \/ Remains(change, current, temp)

\* The file at side s is linked to its tombstone, and the journal knows it; or
\* the tombstone was dropped again.
HeldAt(change, current, temp, s) ==
  /\ change.temporary.side = s /\ change.temporary.state.nlink = 2
  /\ current = change.temporary.state /\ temp = change.temporary.state

ReleasedAt(change, current, temp, s) ==
  /\ change.temporary.side = s
  /\ IsOwnedDeletionRemainder(current, change.temporary.state)
  /\ temp = Absent

\* The file was put at side s by means of the recorded temporary, which has no
\* second name any more.
PublishedAt(change, current, temp, s) ==
  current.nlink <= 1 /\ OwnedTemporaryTransition(change, current, temp) = s

\* A recorded temporary that can be put in the place of the file.
PreparedAt(change, current, temp, s) ==
  /\ change.temporary.side = s
  /\ \/ temp = change.temporary.state /\ temp.nlink = 1
     \/ Remains(change, current, temp)

LEMMA MatchSound ==
  ASSUME NEW change, ChangeOK(change), NEW current \in OnDisk, NEW s \in Side,
         MatchesRecordedSide(change, current, s)
  PROVE  SamePayload(current, change.planned[s])
<1>1. current # Unrecorded
  BY DEF OnDisk, Unrecorded, Absent
<1> QED  BY <1>1 DEF MatchesRecordedSide, ChangeOK, SamePayload, Exists, Absent

LEMMA MatchDisposition ==
  ASSUME NEW change, ChangeOK(change), Differ(change), NEW current \in OnDisk,
         NEW temp, NEW s \in Side, MatchesRecordedSide(change, current, s),
         Exists(temp) => change.temporary # NoTemporary
  PROVE  MutationChangeDisposition(change, current, temp) = s
<1>1. \A t \in Side : MatchesRecordedSide(change, current, t) => t = s
  BY MatchSound, SideFacts DEF Differ, SamePayload
<1> QED  BY <1>1, SideFacts DEF MutationChangeDisposition, HasUnrecordedTemporary

LEMMA TransitionDisposition ==
  ASSUME NEW change, ChangeOK(change), Differ(change), NEW current \in OnDisk,
         NEW temp \in OnDisk, NEW s \in Side,
         OwnedTemporaryTransition(change, current, temp) = s
  PROVE  MutationChangeDisposition(change, current, temp) = s
<1>1. /\ change.temporary # NoTemporary
      /\ SamePayload(current, change.planned[s])
  BY OwnedTransition
<1>2. \A t \in Side : MatchesRecordedSide(change, current, t) => t = s
  BY <1>1, MatchSound, SideFacts DEF Differ, SamePayload
<1> QED  BY <1>1, <1>2, SideFacts DEF MutationChangeDisposition, HasUnrecordedTemporary

LEMMA HeldFacts ==
  ASSUME NEW change, ChangeOK(change), NEW current \in OnDisk,
         NEW temp \in OnDisk, NEW s \in Side, HeldAt(change, current, temp, s)
  PROVE  /\ OwnedTemporaryTransition(change, current, temp) = s
         /\ change.temporary # NoTemporary /\ Exists(current)
         /\ Exists(change.planned[s]) /\ ~Exists(change.planned[OppositeSide(s)])
<1>1. change.temporary # NoTemporary
  BY SideFacts DEF HeldAt, NoTemporary
<1>2. Exists(change.temporary.state)  BY <1>1 DEF ChangeOK
<1> QED
  BY <1>1, <1>2 DEF HeldAt, OwnedTemporaryTransition, OwnedDeletionTombstoneTransition,
    ChangeOK, SamePayload, Exists

LEMMA ReleasedFacts ==
  ASSUME NEW change, ChangeOK(change), NEW current \in OnDisk,
         NEW temp \in OnDisk, NEW s \in Side, ReleasedAt(change, current, temp, s)
  PROVE  /\ OwnedTemporaryTransition(change, current, temp) = s
         /\ change.temporary # NoTemporary /\ Exists(current) /\ current.nlink = 1
         /\ Exists(change.planned[s]) /\ ~Exists(change.planned[OppositeSide(s)])
<1>1. change.temporary # NoTemporary
  BY SideFacts DEF ReleasedAt, NoTemporary
<1>2. /\ change.temporary.state.nlink = 2 /\ current.nlink = 1
      /\ SameFileObject(current, change.temporary.state) /\ temp = Absent
  BY DEF ReleasedAt, IsOwnedDeletionRemainder
<1>3. current # change.temporary.state  BY <1>2
<1>4. ~Exists(temp) /\ Exists(current)  BY <1>2, AbsentOnDisk DEF SameFileObject
<1>5. OwnedTemporaryTransition(change, current, temp) = s
  BY <1>1, <1>2, <1>3, <1>4
  DEF ReleasedAt, OwnedTemporaryTransition, OwnedDeletionTombstoneTransition
<1>6. ~Exists(change.planned[OppositeSide(s)])  BY <1>1, <1>2 DEF ReleasedAt, ChangeOK
<1>7. Exists(change.planned[s])  
  BY <1>1, <1>2 DEF ReleasedAt, ChangeOK, SamePayload, Exists
<1> QED  BY <1>1, <1>2, <1>4, <1>5, <1>6, <1>7

\* The recorded temporary is in the place of the file, and has no other name.
LEMMA PublishedFacts ==
  ASSUME NEW change, ChangeOK(change), NEW current \in OnDisk,
         NEW s \in Side, change.temporary # NoTemporary, change.temporary.side = s,
         SameFileObject(current, change.temporary.state), current.nlink = 1
  PROVE  PublishedAt(change, current, Absent, s)
<1>1. ~Exists(Absent) /\ Exists(current) /\ current # Absent
  BY AbsentOnDisk DEF SameFileObject
<1>2. SamePayload(current, change.planned[s])
  BY DEF ChangeOK, SamePayload, SameFileObject
<1>3. CASE change.temporary.state.nlink = 1
  BY <1>1, <1>2, <1>3 DEF PublishedAt, OwnedTemporaryTransition, OwnedReplacementTransition
<1>4. CASE change.temporary.state.nlink = 2
  <2>1. current # change.temporary.state  BY <1>4
  <2> QED
    BY <1>1, <1>4, <2>1 DEF PublishedAt, OwnedTemporaryTransition, IsOwnedDeletionRemainder,
      OwnedDeletionTombstoneTransition
<1> QED  BY <1>3, <1>4 DEF ChangeOK

\* The file is gone, and its tombstone is left.
LEMMA UnlinkedFacts ==
  ASSUME NEW change, ChangeOK(change), NEW temp \in OnDisk, NEW s \in Side,
         change.temporary # NoTemporary, change.temporary.side = OppositeSide(s),
         IsOwnedDeletionRemainder(temp, change.temporary.state)
  PROVE  PublishedAt(change, Absent, temp, s)
<1>1. ~Exists(Absent) /\ Absent.nlink = 0  BY AbsentOnDisk DEF Absent
<1>2. s = OppositeSide(OppositeSide(s))  BY SideFacts
<1> QED
  BY <1>1, <1>2 DEF PublishedAt, OwnedTemporaryTransition, IsOwnedDeletionRemainder,
    OwnedDeletionTombstoneTransition

\* What the comparisons find is reached, but for a creation that was not begun.
LEMMA EndpointReached ==
  ASSUME NEW change, ChangeOK(change), NEW current \in OnDisk,
         NEW temp \in OnDisk, NEW s \in Side,
         \/ MatchesRecordedSide(change, current, s)
         \/ OwnedTemporaryTransition(change, current, temp) = s,
         \/ s = "after" \/ Exists(change.planned[s])
         \/ change.published["after"] # Unrecorded
         \/ current = change.published[s]
  PROVE  DesiredEndpointReached(change, current, temp, s)
<1>1. SamePayload(current, change.planned[s])  BY MatchSound, OwnedTransition
<1> QED  BY <1>1 DEF DesiredEndpointReached, MatchesRecordedSide

\* An accounted temporary that is not the planned file's second name is the
\* command's to remove or to use.
LEMMA AccountedTemporary ==
  ASSUME NEW change, ChangeOK(change), NEW current \in OnDisk,
         NEW temp \in OnDisk, Exists(temp), Accounted(change, current, temp)
  PROVE  /\ change.temporary # NoTemporary
         /\ RemovableTemporary(change, current, temp)
         /\ \A s : ReusableTemporary(change, temp, s) /\ temp.nlink = 1
                     => PreparedAt(change, current, temp, s)
BY DEF Accounted, Remains, RemovableTemporary, ReusableTemporary, PreparedAt,
     IsOwnedDeletionRemainder
-----------------------------------------------------------------------------
(***************************************************************************)
(* The file system calls.                                                  *)
(***************************************************************************)
\* Only the names of f change.
OnlyAt(F, f) ==
  /\ \A g \in F \ {f} : /\ target'[g] = target[g]
                        /\ temporary'[g] = temporary[g]
                        /\ clock'[g] = clock[g]
  /\ clock'[f] = clock[f] + 1

\* The pair of names can become s and t, and does.
PairCanBe(f, s, t) ==
  /\ s \in OnDisk /\ t \in OnDisk
  /\ s.ino <= clock[f] + 1 /\ t.ino <= clock[f] + 1
  /\ Exists(s) /\ Exists(t) /\ s.ino = t.ino => s = t /\ s.nlink = 2
  /\ s.nlink = 2 => Exists(s) /\ Exists(t) /\ s.ino = t.ino
  /\ t.nlink = 2 => Exists(s) /\ Exists(t) /\ s.ino = t.ino

PairBecomes(f, s, t) ==
  /\ target' = [target EXCEPT ![f] = s]
  /\ temporary' = [temporary EXCEPT ![f] = t]
  /\ Tick(f)

LEMMA PairStep ==
  ASSUME NEW F, DiskOK(F), NEW f \in F, NEW s, NEW t,
         PairCanBe(f, s, t), PairBecomes(f, s, t)
  PROVE  /\ DiskOK(F)' /\ OnlyAt(F, f)
         /\ target'[f] = s /\ temporary'[f] = t
<1>1. /\ target'[f] = s /\ temporary'[f] = t /\ clock'[f] = clock[f] + 1
      /\ \A g \in F \ {f} : /\ target'[g] = target[g]
                            /\ temporary'[g] = temporary[g]
                            /\ clock'[g] = clock[g]
      /\ target' \in [F -> OnDisk] /\ temporary' \in [F -> OnDisk]
      /\ clock' \in [F -> Nat]
  BY DEF DiskOK, Tick, PairCanBe, PairBecomes
<1>2. ASSUME NEW g \in F PROVE PairOK(g)'
  <2>1. CASE g = f
    BY <1>1, <2>1 DEF PairCanBe, PairOK, Linked
  <2>2. CASE g # f
    BY <1>1, <2>2 DEF DiskOK, PairOK, Linked
  <2> QED
    BY <2>1, <2>2
<1> QED
  BY <1>1, <1>2 DEF DiskOK, OnlyAt

LEMMA PairAt ==
  ASSUME NEW F, DiskOK(F), NEW f \in F
  PROVE  /\ target[f] \in OnDisk /\ temporary[f] \in OnDisk /\ clock[f] \in Nat
         /\ PairOK(f)
BY DEF DiskOK

LEMMA SameAt ==
  ASSUME NEW F, DiskOK(F), NEW f \in F
  PROVE  /\ target = [target EXCEPT ![f] = target[f]]
         /\ temporary = [temporary EXCEPT ![f] = temporary[f]]
BY DEF DiskOK

\* A step that calls nothing.
LEMMA DiskKept ==
  ASSUME NEW F, DiskOK(F), target' = target, temporary' = temporary, clock' = clock
  PROVE  DiskOK(F)'
BY DEF DiskOK, PairOK, Linked, Exists

LEMMA RelinkedOnDisk ==
  ASSUME NEW F, DiskOK(F), NEW f \in F, NEW s \in OnDisk, Exists(s),
         NEW links \in {1, 2}
  PROVE  /\ Relinked(f, s, links) \in OnDisk /\ Exists(Relinked(f, s, links))
         /\ Relinked(f, s, links).ino = s.ino
         /\ Relinked(f, s, links).data = s.data
         /\ Relinked(f, s, links).nlink = links
<1>1. /\ s \in FileState /\ s.ino > 0 /\ s.data \in {"old", "new", "foreign"}
      /\ clock[f] \in Nat
  BY DEF DiskOK, OnDisk, Absent, Exists
<1>2. links \in 0..2 /\ clock[f] + 1 \in Nat
  BY <1>1
<1>3. /\ Relinked(f, s, links).ino = s.ino
      /\ Relinked(f, s, links).data = s.data
      /\ Relinked(f, s, links).nlink = links
      /\ Relinked(f, s, links) \in FileState
  BY <1>1, <1>2 DEF Relinked, FileState
<1> QED
  BY <1>1, <1>3 DEF OnDisk, Exists

LEMMA FreshOnDisk ==
  ASSUME NEW F, DiskOK(F), NEW f \in F, NEW data \in {"old", "new", "foreign"}
  PROVE  /\ Fresh(f, data) \in OnDisk /\ Exists(Fresh(f, data))
         /\ Fresh(f, data).ino = clock[f] + 1
         /\ Fresh(f, data).data = data /\ Fresh(f, data).nlink = 1
BY DEF DiskOK, Fresh, OnDisk, FileState, Data, Exists

\* unlink(temporary): a target that was its other name keeps inode and bytes.
LEMMA UnlinkTemporaryEffect ==
  ASSUME NEW F, DiskOK(F), NEW f \in F, UnlinkTemporary(f)
  PROVE  /\ DiskOK(F)' /\ OnlyAt(F, f)
         /\ temporary'[f] = Absent
         /\ target'[f].ino = target[f].ino
         /\ target'[f].data = target[f].data
         /\ IF Linked(f) THEN target'[f] = Relinked(f, target[f], 1)
            ELSE target'[f] = target[f]
<1> USE PairAt, RelinkedOnDisk, FreshOnDisk, AbsentOnDisk
<1>1. CASE Linked(f)
  <2>1. PairCanBe(f, Relinked(f, target[f], 1), Absent)
    BY <1>1 DEF PairCanBe, PairOK, Linked, Absent, OnDisk, FileState
  <2>2. PairBecomes(f, Relinked(f, target[f], 1), Absent)
    BY <1>1, SameAt DEF UnlinkTemporary, PairBecomes
  <2> QED
    BY <1>1, <2>1, <2>2, PairStep DEF Linked
<1>2. CASE ~Linked(f)
  <2>1. PairCanBe(f, target[f], Absent)
    BY <1>2 DEF PairCanBe, PairOK, Linked, Absent, OnDisk, FileState
  <2>2. PairBecomes(f, target[f], Absent)
    BY <1>2, SameAt DEF UnlinkTemporary, PairBecomes
  <2> QED
    BY <1>2, <2>1, <2>2, PairStep DEF Linked
<1> QED
  BY <1>1, <1>2

\* unlink(target): the same with the names exchanged.
LEMMA UnlinkTargetEffect ==
  ASSUME NEW F, DiskOK(F), NEW f \in F, UnlinkTarget(f)
  PROVE  /\ DiskOK(F)' /\ OnlyAt(F, f)
         /\ target'[f] = Absent
         /\ temporary'[f].ino = temporary[f].ino
         /\ temporary'[f].data = temporary[f].data
         /\ IF Linked(f) THEN temporary'[f] = Relinked(f, temporary[f], 1)
            ELSE temporary'[f] = temporary[f]
<1> USE PairAt, RelinkedOnDisk, FreshOnDisk, AbsentOnDisk
<1>1. CASE Linked(f)
  <2>1. PairCanBe(f, Absent, Relinked(f, temporary[f], 1))
    BY <1>1 DEF PairCanBe, PairOK, Linked, Absent, OnDisk, FileState
  <2>2. PairBecomes(f, Absent, Relinked(f, temporary[f], 1))
    BY <1>1, SameAt DEF UnlinkTarget, PairBecomes
  <2> QED
    BY <1>1, <2>1, <2>2, PairStep DEF Linked
<1>2. CASE ~Linked(f)
  <2>1. PairCanBe(f, Absent, temporary[f])
    BY <1>2 DEF PairCanBe, PairOK, Linked, Absent, OnDisk, FileState
  <2>2. PairBecomes(f, Absent, temporary[f])
    BY <1>2, SameAt DEF UnlinkTarget, PairBecomes
  <2> QED
    BY <1>2, <2>1, <2>2, PairStep DEF Linked
<1> QED
  BY <1>1, <1>2

\* link: both names are the inode of `state`, which is at one of them now.
LEMMA LinkBothEffect ==
  ASSUME NEW F, DiskOK(F), NEW f \in F, NEW state \in OnDisk, Exists(state),
         state.ino <= clock[f], LinkBoth(f, state)
  PROVE  /\ DiskOK(F)' /\ OnlyAt(F, f)
         /\ target'[f] = Relinked(f, state, 2)
         /\ temporary'[f] = Relinked(f, state, 2)
         /\ target'[f].ino = state.ino /\ target'[f].data = state.data
<1> USE PairAt, RelinkedOnDisk, FreshOnDisk, AbsentOnDisk
<1>1. PairCanBe(f, Relinked(f, state, 2), Relinked(f, state, 2))
  BY DEF PairCanBe, PairOK, Linked, Absent, OnDisk, FileState
<1>2. PairBecomes(f, Relinked(f, state, 2), Relinked(f, state, 2))
  BY SameAt DEF LinkBoth, PairBecomes
<1> QED
  BY <1>1, <1>2, PairStep

\* rename(temporary, target).
LEMMA RenameTemporaryEffect ==
  ASSUME NEW F, DiskOK(F), NEW f \in F, Exists(temporary[f]), RenameTemporary(f)
  PROVE  /\ DiskOK(F)' /\ OnlyAt(F, f)
         /\ target'[f] = Relinked(f, temporary[f], 1)
         /\ target'[f].data = temporary[f].data
         /\ temporary'[f] = Absent
<1> USE PairAt, RelinkedOnDisk, FreshOnDisk, AbsentOnDisk
<1>1. PairCanBe(f, Relinked(f, temporary[f], 1), Absent)
  BY DEF PairCanBe, PairOK, Linked, Absent, OnDisk, FileState
<1>2. PairBecomes(f, Relinked(f, temporary[f], 1), Absent)
  BY SameAt DEF RenameTemporary, PairBecomes
<1> QED
  BY <1>1, <1>2, PairStep

\* A temporary is created where there is none.
LEMMA CreateTemporaryEffect ==
  ASSUME NEW F, DiskOK(F), NEW f \in F, NEW data \in {"old", "new", "foreign"},
         temporary[f] = Absent, CreateTemporary(f, data)
  PROVE  /\ DiskOK(F)' /\ OnlyAt(F, f)
         /\ temporary'[f] = Fresh(f, data)
         /\ target'[f] = target[f]
<1> USE PairAt, RelinkedOnDisk, FreshOnDisk, AbsentOnDisk
<1>1. PairCanBe(f, target[f], Fresh(f, data))
  BY DEF PairCanBe, PairOK, Linked, Absent, OnDisk, FileState
<1>2. PairBecomes(f, target[f], Fresh(f, data))
  BY SameAt DEF CreateTemporary, PairBecomes
<1> QED
  BY <1>1, <1>2, PairStep

\* Somebody puts an inode of their own at f.
LEMMA PutFileEffect ==
  ASSUME NEW F, DiskOK(F), NEW f \in F, NEW data \in {"old", "new", "foreign"},
         PutFile(f, data)
  PROVE  /\ DiskOK(F)' /\ OnlyAt(F, f)
         /\ target'[f] = Fresh(f, data)
         /\ temporary'[f].ino = temporary[f].ino
         /\ temporary'[f].data = temporary[f].data
         /\ IF Linked(f) THEN temporary'[f] = Relinked(f, temporary[f], 1)
            ELSE temporary'[f] = temporary[f]
<1> USE PairAt, RelinkedOnDisk, FreshOnDisk, AbsentOnDisk
<1>1. CASE Linked(f)
  <2>1. PairCanBe(f, Fresh(f, data), Relinked(f, temporary[f], 1))
    BY <1>1 DEF PairCanBe, PairOK, Linked, Absent, OnDisk, FileState
  <2>2. PairBecomes(f, Fresh(f, data), Relinked(f, temporary[f], 1))
    BY <1>1, SameAt DEF PutFile, PairBecomes
  <2> QED
    BY <1>1, <2>1, <2>2, PairStep DEF Linked
<1>2. CASE ~Linked(f)
  <2>1. PairCanBe(f, Fresh(f, data), temporary[f])
    BY <1>2 DEF PairCanBe, PairOK, Linked, Absent, OnDisk, FileState
  <2>2. PairBecomes(f, Fresh(f, data), temporary[f])
    BY <1>2, SameAt DEF PutFile, PairBecomes
  <2> QED
    BY <1>2, <2>1, <2>2, PairStep DEF Linked
<1> QED
  BY <1>1, <1>2

\* Somebody writes into the file that is at f.
LEMMA WriteIntoEffect ==
  ASSUME NEW F, DiskOK(F), NEW f \in F, Exists(target[f]), WriteInto(f)
  PROVE  /\ DiskOK(F)' /\ OnlyAt(F, f)
         /\ target'[f].ino = target[f].ino /\ target'[f].data = "foreign"
         /\ target'[f].nlink = target[f].nlink
         /\ IF Linked(f) THEN temporary'[f] = target'[f]
            ELSE temporary'[f] = temporary[f]
<1> USE PairAt, RelinkedOnDisk, FreshOnDisk, AbsentOnDisk
<1> DEFINE written == [target[f] EXCEPT !.data = "foreign", !.ctime = clock[f] + 1]
<1>a. /\ target[f] \in FileState /\ target[f].ino > 0 /\ target[f].nlink \in {1, 2}
      /\ clock[f] + 1 \in Nat /\ "foreign" \in Data
  BY DEF OnDisk, Exists, Data
<1>b. /\ written.ino = target[f].ino /\ written.nlink = target[f].nlink
      /\ written.data = "foreign" /\ written \in FileState
  BY <1>a DEF FileState
<1>0. /\ written \in OnDisk /\ Exists(written)
      /\ written.ino = target[f].ino /\ written.nlink = target[f].nlink
      /\ written.data = "foreign"
  BY <1>a, <1>b DEF OnDisk, Exists
<1> HIDE DEF written
<1>1. CASE Linked(f)
  <2>1. PairCanBe(f, written, written)
    BY <1>1, <1>0 DEF PairCanBe, PairOK, Linked, Absent, OnDisk, FileState
  <2>2. PairBecomes(f, written, written)
    BY <1>1, SameAt DEF WriteInto, PairBecomes, PairOK, written
  <2> QED
    BY <1>1, <2>1, <2>2, <1>0, PairStep DEF Linked
<1>2. CASE ~Linked(f)
  <2>1. PairCanBe(f, written, temporary[f])
    BY <1>2, <1>0 DEF PairCanBe, PairOK, Linked, Absent, OnDisk, FileState
  <2>2. PairBecomes(f, written, temporary[f])
    BY <1>2, SameAt DEF WriteInto, PairBecomes, PairOK, written
  <2> QED
    BY <1>2, <2>1, <2>2, <1>0, PairStep DEF Linked
<1> QED
  BY <1>1, <1>2
=============================================================================
