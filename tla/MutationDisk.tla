----------------------------- MODULE MutationDisk -----------------------------
(***************************************************************************)
(* The planned files and their temporaries on disk, and the file system    *)
(* calls of mutation-cas.ts and of the people who edit the files.  Both    *)
(* MutationTransaction and Retirement work on such a disk.                 *)
(***************************************************************************)
EXTENDS MutationFiles

VARIABLES
  target,      \* target[f]: the planned file itself
  temporary,   \* temporary[f]: the file at its temporary path
  clock        \* clock[f]: the last inode number and ctime handed out for f

(***************************************************************************)
(* The file system calls.  Two links of one inode always show the same     *)
(* state, so a change of one is a change of the other.                     *)
(***************************************************************************)
Tick(f) == clock' = [clock EXCEPT ![f] = @ + 1]

Fresh(f, data) ==
  [ino |-> clock[f] + 1, data |-> data, nlink |-> 1, ctime |-> clock[f] + 1]

Relinked(f, state, links) ==
  [state EXCEPT !.nlink = links, !.ctime = clock[f] + 1]

Linked(f) == /\ Exists(target[f]) /\ Exists(temporary[f])
             /\ target[f].ino = temporary[f].ino

UnlinkTemporary(f) ==
  /\ temporary' = [temporary EXCEPT ![f] = Absent]
  /\ target' = IF Linked(f)
               THEN [target EXCEPT ![f] = Relinked(f, @, 1)]
               ELSE target
  /\ Tick(f)

UnlinkTarget(f) ==
  /\ target' = [target EXCEPT ![f] = Absent]
  /\ temporary' = IF Linked(f)
                  THEN [temporary EXCEPT ![f] = Relinked(f, @, 1)]
                  ELSE temporary
  /\ Tick(f)

\* link(temporary, target) or link(target, temporary): both names, one inode.
LinkBoth(f, state) ==
  /\ target' = [target EXCEPT ![f] = Relinked(f, state, 2)]
  /\ temporary' = [temporary EXCEPT ![f] = Relinked(f, state, 2)]
  /\ Tick(f)

RenameTemporary(f) ==
  /\ target' = [target EXCEPT ![f] = Relinked(f, temporary[f], 1)]
  /\ temporary' = [temporary EXCEPT ![f] = Absent]
  /\ Tick(f)

\* A temporary is created and has `data`.
CreateTemporary(f, data) ==
  /\ temporary' = [temporary EXCEPT ![f] = Fresh(f, data)]
  /\ Tick(f)
  /\ UNCHANGED target

(***************************************************************************)
(* What other people's programs do to the file at f.                       *)
(***************************************************************************)
\* An inode of their own: a new file, or an editor's write-and-rename.
PutFile(f, data) ==
  /\ target' = [target EXCEPT ![f] = Fresh(f, data)]
  /\ temporary' = IF Linked(f)
                  THEN [temporary EXCEPT ![f] = Relinked(f, @, 1)]
                  ELSE temporary
  /\ Tick(f)

\* Bytes written into the file that is there.
WriteInto(f) ==
  LET written(state) == [state EXCEPT !.data = "foreign",
                                      !.ctime = clock[f] + 1]
  IN  /\ target' = [target EXCEPT ![f] = written(@)]
      /\ temporary' = IF Linked(f)
                      THEN [temporary EXCEPT ![f] = written(@)]
                      ELSE temporary
      /\ Tick(f)
=============================================================================
