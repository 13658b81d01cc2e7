------------------------- MODULE MutationJournalProofs -------------------------
(***************************************************************************)
(* The journal on disk, for any commands, any transactions and any number  *)
(* of faults: it is a register (JournalRegister), it stays readable, a     *)
(* read without the lock tells a journal that there was, and complete and  *)
(* rollback work on the journal they have read.                            *)
(*                                                                         *)
(* JournalInv says what the directory looks like, snapshots of consecutive *)
(* sequences and at most one temporary, and how it stands to the command   *)
(* under the lock at each point of a publication or a removal.             *)
(* IdentityInv says why an inode that was once superseded is not met       *)
(* again, ReadingInv what a command knows that reads without the lock.     *)
(***************************************************************************)
EXTENDS MutationJournal, Integers, FiniteSetTheorems, TLAPS

Sequence == 0..MaxSequence

\* The snapshots of the sequences lo to hi.
Run(lo, hi) == {Snapshot(s) : s \in lo..hi}

IsRun(d, lo, hi) == /\ lo \in Nat /\ hi \in Sequence \cup {-1}
                    /\ Snapshots(d) = Run(lo, hi)

\* What is at the names of a directory.
NamesOK(d) ==
  \A n \in DOMAIN d :
    /\ n = Snapshot(n.seq) \/ n = Temporary(n.seq, n.uuid)
    /\ n.seq \in Sequence /\ n.uuid \in Nat
    /\ d[n] \in Ino /\ d[n].seq = n.seq

\* The snapshots form a chain, and one publication is open at most.
DirectoryOK(d) ==
  /\ IsFiniteSet(DOMAIN d)
  /\ NamesOK(d)
  /\ \E lo \in 0..MaxSequence + 1, hi \in Sequence \cup {-1} : IsRun(d, lo, hi)
  /\ \A n, m \in Snapshots(d) : d[n].txn = d[m].txn
  /\ \A t, u \in Temporaries(d) : t = u
-----------------------------------------------------------------------------
(***************************************************************************)
(* What is done to a directory.                                            *)
(***************************************************************************)
LEMMA RunOldestNewest ==
  ASSUME NEW lo \in Int, NEW hi \in Int, lo <= hi
  PROVE  /\ Oldest(Run(lo, hi)) = Snapshot(lo)
         /\ Newest(Run(lo, hi)) = Snapshot(hi)
<1>1. /\ Snapshot(lo) \in Run(lo, hi)
      /\ \A m \in Run(lo, hi) : Snapshot(lo).seq <= m.seq
  BY DEF Run, Snapshot
<1>2. /\ Snapshot(hi) \in Run(lo, hi)
      /\ \A m \in Run(lo, hi) : Snapshot(hi).seq >= m.seq
  BY DEF Run, Snapshot
<1>3. \A n \in Run(lo, hi) : (\A m \in Run(lo, hi) : n.seq <= m.seq) => n = Snapshot(lo)
  BY <1>1 DEF Run, Snapshot
<1>4. \A n \in Run(lo, hi) : (\A m \in Run(lo, hi) : n.seq >= m.seq) => n = Snapshot(hi)
  BY <1>2 DEF Run, Snapshot
<1>5. Oldest(Run(lo, hi)) = Snapshot(lo)
  BY <1>1, <1>3 DEF Oldest
<1>6. Newest(Run(lo, hi)) = Snapshot(hi)
  BY <1>2, <1>4 DEF Newest
<1> QED
  BY <1>5, <1>6

\* The journal of a directory is in its newest snapshot.
LEMMA JournalOfRun ==
  ASSUME NEW d, NamesOK(d), NEW lo, NEW hi, IsRun(d, lo, hi)
  PROVE  /\ lo > hi => Snapshots(d) = {} /\ JournalIn(d) = NoJournal
         /\ lo <= hi =>
              /\ Snapshot(hi) \in Snapshots(d)
              /\ Newest(Snapshots(d)) = Snapshot(hi)
              /\ d[Snapshot(hi)] \in Ino
              /\ JournalIn(d) = [txn |-> d[Snapshot(hi)].txn, seq |-> hi]
              /\ JournalIn(d) # NoJournal
<1> USE LimitAssumption
<1>0. lo \in Int /\ hi \in Int
  BY DEF IsRun, Sequence
<1>1. ASSUME lo > hi PROVE Snapshots(d) = {} /\ JournalIn(d) = NoJournal
  <2>1. Run(lo, hi) = {}
    BY <1>0, <1>1 DEF Run
  <2> QED
    BY <2>1 DEF IsRun, JournalIn
<1>2. ASSUME lo <= hi
      PROVE  /\ Snapshot(hi) \in Snapshots(d)
             /\ Newest(Snapshots(d)) = Snapshot(hi)
             /\ d[Snapshot(hi)] \in Ino
             /\ JournalIn(d) = [txn |-> d[Snapshot(hi)].txn, seq |-> hi]
             /\ JournalIn(d) # NoJournal
  <2>1. Snapshot(hi) \in Snapshots(d)
    BY <1>0, <1>2 DEF IsRun, Run
  <2>2. Newest(Snapshots(d)) = Snapshot(hi)
    BY <1>0, <1>2, RunOldestNewest DEF IsRun
  <2>3. Snapshot(hi) \in DOMAIN d /\ Snapshot(hi).seq = hi
    BY <2>1 DEF Snapshots, Snapshot
  <2>4. d[Snapshot(hi)] \in Ino /\ d[Snapshot(hi)].seq = hi
    BY <2>3 DEF NamesOK
  <2>5. JournalIn(d) = [txn |-> d[Snapshot(hi)].txn, seq |-> hi]
    BY <2>1, <2>2, <2>4 DEF JournalIn
  <2>6. [txn |-> d[Snapshot(hi)].txn, seq |-> hi] \in [txn : Txn, seq : 0..MaxSequence]
    BY <2>4 DEF Ino
  <2> QED
    BY <2>1, <2>2, <2>4, <2>5, <2>6, NoJournalAssumption
<1> QED
  BY <1>1, <1>2

LEMMA KindsDiffer ==
  /\ \A d : Snapshots(d) \cap Temporaries(d) = {}
  /\ \A s : Snapshot(s).kind = "snapshot" /\ Snapshot(s).seq = s
  /\ \A s, u : /\ Temporary(s, u).kind = "temporary" /\ Temporary(s, u).seq = s
               /\ Temporary(s, u).uuid = u
  /\ \A s : Snapshot(s).uuid = 0
BY DEF Snapshots, Temporaries, Snapshot, Temporary

\* A temporary is unlinked: the journal stays.
LEMMA WithoutTemporary ==
  ASSUME NEW d, DirectoryOK(d), NEW t \in Temporaries(d)
  PROVE  /\ DirectoryOK(Without(d, t))
         /\ Temporaries(Without(d, t)) = {}
         /\ Snapshots(Without(d, t)) = Snapshots(d)
         /\ JournalIn(Without(d, t)) = JournalIn(d)
<1> DEFINE e == Without(d, t)
<1>1. DOMAIN e = DOMAIN d \ {t} /\ \A n \in DOMAIN e : e[n] = d[n]
  BY DEF Without
<1> HIDE DEF e
<1>2. Temporaries(e) = {}
  BY <1>1 DEF Temporaries, DirectoryOK
<1>3. Snapshots(e) = Snapshots(d)
  BY <1>1 DEF Snapshots, Temporaries
<1>4. IsFiniteSet(DOMAIN e)
  BY <1>1, FS_Subset DEF DirectoryOK
<1>5. NamesOK(e)
  BY <1>1 DEF DirectoryOK, NamesOK
<1>6. DirectoryOK(e)
  <2>1. \A n \in Snapshots(e) : n \in Snapshots(d) /\ e[n] = d[n]
    BY <1>1, <1>3 DEF Snapshots
  <2> QED
    BY <2>1, <1>2, <1>3, <1>4, <1>5 DEF DirectoryOK, IsRun
<1>7. JournalIn(e) = JournalIn(d)
  <2>1. PICK lo, hi : IsRun(d, lo, hi)
    BY DEF DirectoryOK
  <2>2. NamesOK(d) /\ lo \in Int /\ hi \in Int
    BY <2>1, LimitAssumption DEF DirectoryOK, IsRun, Sequence
  <2>3. IsRun(e, lo, hi)
    BY <2>1, <1>3 DEF IsRun
  <2>4. CASE lo > hi
    BY <2>1, <2>2, <2>3, <2>4, <1>5, JournalOfRun
  <2>5. CASE lo <= hi
    <3>1. Snapshot(hi) \in Snapshots(e)
      BY <2>3, <2>5, <1>5, JournalOfRun
    <3>2. e[Snapshot(hi)] = d[Snapshot(hi)]
      BY <3>1, <1>1 DEF Snapshots
    <3> QED
      BY <2>1, <2>2, <2>3, <2>5, <3>2, <1>5, JournalOfRun
  <2> QED
    BY <2>2, <2>4, <2>5
<1> QED
  BY <1>2, <1>3, <1>6, <1>7 DEF e

\* A temporary is written where there is none: the journal stays.
LEMMA WithTemporary ==
  ASSUME NEW d, DirectoryOK(d), Temporaries(d) = {},
         NEW s \in Sequence, NEW u \in Nat, NEW ino \in Ino, ino.seq = s
  PROVE  LET e == With(d, Temporary(s, u), ino)
         IN /\ DirectoryOK(e)
            /\ Temporaries(e) = {Temporary(s, u)}
            /\ e[Temporary(s, u)] = ino
            /\ Snapshots(e) = Snapshots(d)
            /\ JournalIn(e) = JournalIn(d)
<1> DEFINE t == Temporary(s, u)
           e == With(d, t, ino)
<1>1. DOMAIN e = DOMAIN d \cup {t} /\ e[t] = ino
  BY DEF With
<1>2. t \notin DOMAIN d
  BY KindsDiffer DEF Temporaries
<1>3. \A n \in DOMAIN d : e[n] = d[n]
  BY <1>2 DEF With
<1>4. t.kind = "temporary" /\ t.seq = s /\ t.uuid = u
  BY KindsDiffer
<1> HIDE DEF e
<1>5. Temporaries(e) = {t}
  BY <1>1, <1>4 DEF Temporaries
<1>6. Snapshots(e) = Snapshots(d)
  BY <1>1, <1>4 DEF Snapshots
<1>7. IsFiniteSet(DOMAIN e)
  BY <1>1, FS_AddElement DEF DirectoryOK
<1>8. NamesOK(e)
  BY <1>1, <1>3, <1>4 DEF DirectoryOK, NamesOK
<1>9. DirectoryOK(e)
  <2>1. \A n \in Snapshots(e) : n \in Snapshots(d) /\ e[n] = d[n]
    BY <1>3, <1>6 DEF Snapshots
  <2> QED
    BY <2>1, <1>5, <1>6, <1>7, <1>8 DEF DirectoryOK, IsRun
<1>10. JournalIn(e) = JournalIn(d)
  <2>1. PICK lo, hi : IsRun(d, lo, hi)
    BY DEF DirectoryOK
  <2>2. NamesOK(d) /\ lo \in Int /\ hi \in Int
    BY <2>1, LimitAssumption DEF DirectoryOK, IsRun, Sequence
  <2>3. IsRun(e, lo, hi)
    BY <2>1, <1>6 DEF IsRun
  <2>4. CASE lo > hi
    BY <2>1, <2>2, <2>3, <2>4, <1>8, JournalOfRun
  <2>5. CASE lo <= hi
    <3>1. Snapshot(hi) \in Snapshots(d)
      BY <2>1, <2>2, <2>5, JournalOfRun
    <3>2. e[Snapshot(hi)] = d[Snapshot(hi)]
      BY <3>1, <1>3 DEF Snapshots
    <3> QED
      BY <2>1, <2>2, <2>3, <2>5, <3>2, <1>8, JournalOfRun
  <2> QED
    BY <2>2, <2>4, <2>5
<1> QED
  BY <1>1, <1>5, <1>6, <1>9, <1>10 DEF e

\* The next snapshot is linked: it is the journal.
LEMMA WithSnapshot ==
  ASSUME NEW d, DirectoryOK(d), NEW s \in Sequence, NEW ino \in Ino, ino.seq = s,
         \/ JournalIn(d) = NoJournal
         \/ JournalIn(d) = [txn |-> ino.txn, seq |-> s - 1]
  PROVE  LET e == With(d, Snapshot(s), ino)
         IN /\ DirectoryOK(e)
            /\ Temporaries(e) = Temporaries(d)
            /\ \A t \in Temporaries(d) : e[t] = d[t]
            /\ JournalIn(e) = [txn |-> ino.txn, seq |-> s]
<1> DEFINE n == Snapshot(s)
           e == With(d, n, ino)
<1>1. DOMAIN e = DOMAIN d \cup {n} /\ e[n] = ino
  BY DEF With
<1>2. n.kind = "snapshot" /\ n.seq = s /\ n.uuid = 0
  BY KindsDiffer
<1>3. \A m \in DOMAIN e \ {n} : e[m] = d[m]
  BY <1>1 DEF With
<1> HIDE DEF e
<1>4. Temporaries(e) = Temporaries(d) /\ \A t \in Temporaries(d) : e[t] = d[t]
  BY <1>1, <1>2, <1>3 DEF Temporaries
<1>5. Snapshots(e) = Snapshots(d) \cup {n}
  BY <1>1, <1>2 DEF Snapshots
<1>6. IsFiniteSet(DOMAIN e)
  BY <1>1, FS_AddElement DEF DirectoryOK
<1>7. NamesOK(e)
  <2> SUFFICES ASSUME NEW m \in DOMAIN e
               PROVE  /\ m = Snapshot(m.seq) \/ m = Temporary(m.seq, m.uuid)
                      /\ m.seq \in Sequence /\ m.uuid \in Nat
                      /\ e[m] \in Ino /\ e[m].seq = m.seq
    BY DEF NamesOK
  <2>1. CASE m = n
    BY <2>1, <1>1, <1>2
  <2>2. CASE m # n
    BY <2>2, <1>1, <1>3 DEF DirectoryOK, NamesOK
  <2> QED
    BY <2>1, <2>2
<1>8. PICK lo, hi : IsRun(d, lo, hi)
  BY DEF DirectoryOK
<1>9. NamesOK(d) /\ lo \in Nat /\ hi \in Int /\ s \in Nat /\ s <= MaxSequence
  BY <1>8, LimitAssumption DEF DirectoryOK, IsRun, Sequence
<1>10. \E l \in 0..MaxSequence : IsRun(e, l, s)
  <2>1. CASE lo > hi
    <3>1. Snapshots(d) = {}
      BY <2>1, <1>8, <1>9, JournalOfRun
    <3>2. Run(s, s) = {n}
      BY <1>9 DEF Run
    <3>3. IsRun(e, s, s)
      BY <3>1, <3>2, <1>5, <1>9 DEF IsRun
    <3> QED
      BY <3>3, <1>9 DEF Sequence
  <2>2. CASE lo <= hi
    <3>1. JournalIn(d) = [txn |-> d[Snapshot(hi)].txn, seq |-> hi] /\ JournalIn(d) # NoJournal
      BY <2>2, <1>8, <1>9, JournalOfRun
    <3>2. JournalIn(d) = [txn |-> ino.txn, seq |-> s - 1]
      BY <3>1
    <3>3. hi = s - 1
      BY <3>1, <3>2
    <3>4. Run(lo, s) = Run(lo, hi) \cup {n}
      BY <3>3, <2>2, <1>9 DEF Run
    <3>5. IsRun(e, lo, s)
      BY <3>4, <1>5, <1>8, <1>9 DEF IsRun
    <3> QED
      BY <3>3, <3>5, <2>2, <1>9, LimitAssumption
  <2> QED
    BY <2>1, <2>2, <1>9
<1>11. DirectoryOK(e)
  <2>1. PICK l \in 0..MaxSequence : IsRun(e, l, s)
    BY <1>10
  <2>2. l \in 0..MaxSequence + 1
    BY LimitAssumption
  <2>3. \A t, u \in Temporaries(e) : t = u
    BY <1>4 DEF DirectoryOK
  <2>4. \A m \in Snapshots(d) : d[m].txn = ino.txn
    <3>1. CASE lo > hi
      BY <3>1, <1>8, <1>9, JournalOfRun
    <3>2. CASE lo <= hi
      <4>1. /\ JournalIn(d) = [txn |-> d[Snapshot(hi)].txn, seq |-> hi]
            /\ JournalIn(d) # NoJournal /\ Snapshot(hi) \in Snapshots(d)
        BY <3>2, <1>8, <1>9, JournalOfRun
      <4>2. d[Snapshot(hi)].txn = ino.txn
        BY <4>1
      <4> QED
        BY <4>1, <4>2 DEF DirectoryOK
    <3> QED
      BY <3>1, <3>2, <1>9
  <2>5. \A m \in Snapshots(e) : e[m].txn = ino.txn
    BY <2>4, <1>1, <1>3, <1>5 DEF Snapshots
  <2> QED
    BY <2>1, <2>2, <2>3, <2>5, <1>6, <1>7 DEF DirectoryOK
<1>12. JournalIn(e) = [txn |-> ino.txn, seq |-> s]
  <2>1. PICK l \in 0..MaxSequence : IsRun(e, l, s)
    BY <1>10
  <2>2. n \in Run(l, s)
    BY <2>1, <1>5 DEF IsRun
  <2>3. l <= s
    BY <2>2, <1>9 DEF Run
  <2> QED
    BY <2>1, <2>3, <1>1, <1>7, JournalOfRun
<1> QED
  BY <1>4, <1>11, <1>12 DEF e

\* The first of several snapshots is unlinked: the journal stays.
LEMMA WithoutOldest ==
  ASSUME NEW d, DirectoryOK(d), NEW x, NEW s, JournalIn(d) = [txn |-> x, seq |-> s],
         JournalIn(d) # NoJournal,
         {n \in Snapshots(d) : n.seq < s} # {}
  PROVE  LET e == Without(d, Oldest({n \in Snapshots(d) : n.seq < s}))
         IN /\ DirectoryOK(e)
            /\ Temporaries(e) = Temporaries(d)
            /\ JournalIn(e) = JournalIn(d)
<1> DEFINE old == {n \in Snapshots(d) : n.seq < s}
           e == Without(d, Oldest(old))
<1>1. PICK lo, hi : IsRun(d, lo, hi)
  BY DEF DirectoryOK
<1>2. NamesOK(d) /\ lo \in Nat /\ hi \in Int
  BY <1>1, LimitAssumption DEF DirectoryOK, IsRun, Sequence
<1>3. lo <= hi /\ s = hi
  <2>1. lo <= hi
    BY <1>1, <1>2, JournalOfRun
  <2>2. JournalIn(d) = [txn |-> d[Snapshot(hi)].txn, seq |-> hi]
    BY <1>1, <1>2, <2>1, JournalOfRun
  <2> QED
    BY <2>1, <2>2
<1>4. old = Run(lo, hi - 1)
  BY <1>1, <1>2, <1>3 DEF IsRun, Run, Snapshot
<1>5. lo <= hi - 1
  <2>1. PICK n \in old : TRUE
    OBVIOUS
  <2>2. PICK k \in lo..hi - 1 : n = Snapshot(k)
    BY <2>1, <1>4 DEF Run
  <2> QED
    BY <2>2, <1>2
<1>6. Oldest(old) = Snapshot(lo)
  <2>1. lo \in Int /\ hi - 1 \in Int
    BY <1>2
  <2>2. Oldest(Run(lo, hi - 1)) = Snapshot(lo)
    BY <2>1, <1>5, RunOldestNewest
  <2> QED
    BY <2>2, <1>4
<1>7. DOMAIN e = DOMAIN d \ {Snapshot(lo)} /\ \A n \in DOMAIN e : e[n] = d[n]
  BY <1>6 DEF Without
<1> HIDE DEF e
<1>8. Temporaries(e) = Temporaries(d)
  BY <1>7, KindsDiffer DEF Temporaries
<1>9. Snapshots(e) = Run(lo + 1, hi)
  <2>1. Snapshots(e) = Snapshots(d) \ {Snapshot(lo)}
    BY <1>7 DEF Snapshots
  <2>2. Run(lo + 1, hi) = Run(lo, hi) \ {Snapshot(lo)}
    BY <1>2, <1>3 DEF Run, Snapshot
  <2> QED
    BY <2>1, <2>2, <1>1 DEF IsRun
<1>10. NamesOK(e)
  BY <1>2, <1>7 DEF NamesOK
<1>11. IsFiniteSet(DOMAIN e)
  BY <1>7, FS_Subset DEF DirectoryOK
<1>12. IsRun(e, lo + 1, hi)
  BY <1>1, <1>2, <1>9 DEF IsRun
<1>13. DirectoryOK(e)
  <2>1. lo + 1 \in 0..MaxSequence + 1 /\ hi \in Sequence \cup {-1}
    BY <1>1, <1>2, <1>5, LimitAssumption DEF IsRun, Sequence
  <2>2. \A t, u \in Temporaries(e) : t = u
    BY <1>8 DEF DirectoryOK
  <2>3. \A n \in Snapshots(e) : n \in Snapshots(d) /\ e[n] = d[n]
    BY <1>7 DEF Snapshots
  <2> QED
    BY <2>1, <2>2, <2>3, <1>10, <1>11, <1>12 DEF DirectoryOK
<1>14. JournalIn(e) = JournalIn(d)
  <2>1. Snapshot(hi) \in Snapshots(e)
    BY <1>2, <1>5, <1>10, <1>12, JournalOfRun
  <2>2. e[Snapshot(hi)] = d[Snapshot(hi)]
    BY <2>1, <1>7 DEF Snapshots
  <2> QED
    BY <2>2, <1>1, <1>2, <1>3, <1>5, <1>10, <1>12, JournalOfRun
<1> QED
  BY <1>8, <1>13, <1>14 DEF e

\* With none before it the journal is the only snapshot.
LEMMA OnlySnapshot ==
  ASSUME NEW d, DirectoryOK(d), NEW x, NEW s, JournalIn(d) = [txn |-> x, seq |-> s],
         JournalIn(d) # NoJournal,
         {n \in Snapshots(d) : n.seq < s} = {}
  PROVE  \A n, m \in Snapshots(d) : n = m
<1>1. PICK lo, hi : IsRun(d, lo, hi)
  BY DEF DirectoryOK
<1>2. NamesOK(d) /\ lo \in Nat /\ hi \in Int
  BY <1>1, LimitAssumption DEF DirectoryOK, IsRun, Sequence
<1>3. lo <= hi
  BY <1>1, <1>2, JournalOfRun
<1>4. s = hi
  <2>1. JournalIn(d) = [txn |-> d[Snapshot(hi)].txn, seq |-> hi]
    BY <1>1, <1>2, <1>3, JournalOfRun
  <2> QED
    BY <2>1
<1>5. \A k \in lo..hi : Snapshot(k) \in Snapshots(d) /\ Snapshot(k).seq = k
  BY <1>1, KindsDiffer DEF IsRun, Run
<1>6. \A k \in lo..hi : k = hi
  BY <1>2, <1>4, <1>5
<1> QED
  BY <1>1, <1>6 DEF IsRun, Run

\* The only snapshot is unlinked: the journal is gone.
LEMMA WithoutOnly ==
  ASSUME NEW d, DirectoryOK(d), NEW m \in Snapshots(d),
         \A n \in Snapshots(d) : n = m
  PROVE  LET e == Without(d, m)
         IN /\ DirectoryOK(e)
            /\ Temporaries(e) = Temporaries(d)
            /\ Snapshots(e) = {}
            /\ JournalIn(e) = NoJournal
<1> DEFINE e == Without(d, m)
<1>1. DOMAIN e = DOMAIN d \ {m} /\ \A n \in DOMAIN e : e[n] = d[n]
  BY DEF Without
<1> HIDE DEF e
<1>2. Snapshots(e) = {} /\ Temporaries(e) = Temporaries(d)
  BY <1>1 DEF Snapshots, Temporaries
<1>3. IsFiniteSet(DOMAIN e)
  BY <1>1, FS_Subset DEF DirectoryOK
<1>4. NamesOK(e)
  BY <1>1 DEF DirectoryOK, NamesOK
<1>5. IsRun(e, 0, -1)
  <2>1. Run(0, -1) = {}
    BY DEF Run
  <2> QED
    BY <2>1, <1>2 DEF IsRun
<1>6. DirectoryOK(e)
  <2>1. 0 \in 0..MaxSequence + 1
    BY LimitAssumption
  <2> QED
    BY <2>1, <1>2, <1>3, <1>4, <1>5 DEF DirectoryOK
<1> QED
  BY <1>2, <1>6 DEF e, JournalIn

\* There is no journal, or it is one.
LEMMA JournalType ==
  ASSUME NEW d, DirectoryOK(d)
  PROVE  JournalIn(d) \in [txn : Txn, seq : Sequence] \cup {NoJournal}
<1>1. PICK lo, hi : IsRun(d, lo, hi)
  BY DEF DirectoryOK
<1>2. NamesOK(d) /\ lo \in Int /\ hi \in Sequence \cup {-1}
  BY <1>1, LimitAssumption DEF DirectoryOK, IsRun, Sequence
<1>3. lo \in Nat /\ hi \in Int
  BY <1>1, <1>2, LimitAssumption DEF IsRun, Sequence
<1>4. CASE lo > hi
  BY <1>1, <1>2, <1>4, JournalOfRun
<1>5. CASE lo <= hi
  BY <1>1, <1>2, <1>3, <1>5, JournalOfRun DEF Ino
<1> QED
  BY <1>3, <1>4, <1>5
-----------------------------------------------------------------------------
(***************************************************************************)
(* The inductive invariant.                                                *)
(***************************************************************************)
UnderLock == {"match", "publish", "write", "link", "unlink temporary",
              "supersede", "work", "remove"}

LockOK ==
  /\ holder \in Proc \cup {Nobody}
  /\ pc \in [Proc -> Pc]
  /\ DOMAIN expected = Proc
  /\ \A p \in Proc : pc[p] \in UnderLock <=> holder = p

\* The journal that p is bound to, and the one it publishes.
BoundTo(p) == IF expected[p] = NoJournal THEN NoJournal
              ELSE [txn |-> expected[p].ino.txn, seq |-> expected[p].ino.seq]
Successor(p) == [txn |-> TxnOf(p), seq |-> NextSequence(p)]

BindingOK(p) == /\ expected[p] = NoJournal \/ expected[p].ino \in Ino
                /\ NextSequence(p) <= MaxSequence

\* How the directory stands while p publishes or removes.
PhaseOK(p) ==
  /\ pc[p] \in {"write", "link", "unlink temporary", "supersede"} => BindingOK(p)
  /\ pc[p] \in {"write", "link"} => Journal = BoundTo(p)
  /\ pc[p] \in {"unlink temporary", "supersede"} => Journal = Successor(p)
  /\ pc[p] = "write" => Temporaries(dir) = {}
  /\ pc[p] \in {"link", "unlink temporary"} =>
       /\ Temporaries(dir) = {Temporary(NextSequence(p), stamp)}
       /\ dir[Temporary(NextSequence(p), stamp)] =
            [txn |-> TxnOf(p), seq |-> NextSequence(p), stamp |-> stamp]
  /\ pc[p] \in {"work", "remove"} => \A n, m \in Snapshots(dir) : n = m

JournalInv == /\ DirectoryOK(dir)
              /\ stamp \in Nat
              /\ LockOK
              /\ \A p \in Proc : PhaseOK(p)

LEMMA InitJournalInv == Init => JournalInv /\ Journal = NoJournal
<1> SUFFICES ASSUME Init PROVE JournalInv /\ Journal = NoJournal
  OBVIOUS
<1>1. DOMAIN dir = {} /\ Snapshots(dir) = {} /\ Temporaries(dir) = {}
  BY DEF Init, Snapshots, Temporaries
<1>2. IsRun(dir, 0, -1)
  BY <1>1 DEF IsRun, Run
<1>3. DirectoryOK(dir)
  BY <1>1, <1>2, FS_EmptySet, LimitAssumption DEF DirectoryOK, NamesOK
<1>4. LockOK
  BY CommandAssumption DEF Init, LockOK, UnderLock, Pc
<1>5. \A p \in Proc : PhaseOK(p)
  BY DEF Init, PhaseOK
<1>6. Journal = NoJournal
  BY <1>1 DEF Journal, JournalIn
<1> QED
  BY <1>3, <1>4, <1>5, <1>6 DEF Init, JournalInv

\* Only the command under the lock is in one of the phases.
LEMMA PhaseOfHolder ==
  ASSUME LockOK, \A p \in Proc : holder = p => PhaseOK(p)
  PROVE  \A p \in Proc : PhaseOK(p)
BY DEF LockOK, PhaseOK, UnderLock

\* Who has the lock is who is at a step under the lock.
LEMMA LockStep == LockOK /\ [Next]_vars => LockOK'
<1> SUFFICES ASSUME LockOK, [Next]_vars PROVE LockOK'
  OBVIOUS
<1> USE CommandAssumption DEF LockOK
<1>0. CASE UNCHANGED vars
  BY <1>0 DEF vars
<1>1. ASSUME NEW p \in Proc, Step(p) PROVE LockOK'
  <2> USE DEF Pc, UnderLock, At, Goto
  <2>1. CASE List(p)
    BY <2>1 DEF List
  <2>2. CASE Examine(p)
    BY <2>2 DEF Examine, End
  <2>3. CASE CheckLinks(p)
    BY <2>3 DEF CheckLinks, End
  <2>4. CASE ReadSnapshot(p)
    BY <2>4 DEF ReadSnapshot, End
  <2>5. CASE UseJournal(p)
    BY <2>5 DEF UseJournal, End
  <2>6. CASE Acquire(p)
    <3>1. CASE holder = Nobody
      <4>1. /\ holder' = p /\ expected' = expected
            /\ \E l \in {"publish", "match"} : pc' = [pc EXCEPT ![p] = l]
        BY <2>6, <3>1 DEF Acquire
      <4> QED
        BY <3>1, <4>1
    <3>2. CASE holder # Nobody
      BY <2>6, <3>2 DEF Acquire, End
    <3> QED
      BY <3>1, <3>2
  <2>7. CASE Match(p)
    BY <2>7 DEF Match, Locked, Release, End
  <2>8. CASE Refuse(p)
    BY <2>8 DEF Refuse, Locked, Release, End
  <2>9. CASE Confirm(p)
    BY <2>9 DEF Confirm, Locked, Release, End
  <2>10. CASE CleanTemporary(p)
    BY <2>10 DEF CleanTemporary, Locked
  <2>11. CASE WriteTemporary(p)
    BY <2>11 DEF WriteTemporary, Locked
  <2>12. CASE LinkTemporary(p)
    BY <2>12 DEF LinkTemporary, Locked
  <2>13. CASE UnlinkTemporary(p)
    BY <2>13 DEF UnlinkTemporary, Locked
  <2>14. CASE RemoveSuperseded(p)
    BY <2>14 DEF RemoveSuperseded, Locked
  <2>15. CASE ReadBack(p)
    BY <2>15 DEF ReadBack, Locked
  <2>16. CASE Work(p)
    BY <2>16 DEF Work, Locked
  <2>17. CASE RemoveSnapshot(p)
    BY <2>17 DEF RemoveSnapshot, Locked
  <2>18. CASE Finish(p)
    BY <2>18 DEF Finish, Locked, Release, End
  <2> QED
    BY <1>1, <2>1, <2>2, <2>3, <2>4, <2>5, <2>6, <2>7, <2>8, <2>9, <2>10,
       <2>11, <2>12, <2>13, <2>14, <2>15, <2>16, <2>17, <2>18 DEF Step
<1>2. ASSUME NEW p \in Proc, Fail(p) PROVE LockOK'
  BY <1>2 DEF Fail, End, Goto, Pc, UnderLock
<1>3. ASSUME NEW p \in Proc, LinkFails(p) PROVE LockOK'
  BY <1>3 DEF LinkFails, Locked, At, Release, End, Goto, Pc, UnderLock
<1>4. CASE ManualRecovery
  BY <1>4 DEF ManualRecovery
<1> QED
  BY <1>0, <1>1, <1>2, <1>3, <1>4 DEF Next

\* The directory stays, and so does the command under the lock, or it is at a
\* step where nothing is asked of the directory.
LEMMA QuietStep ==
  ASSUME JournalInv, LockOK', UNCHANGED disk,
         \A q \in Proc : holder' = q =>
           \/ pc'[q] \in {"match", "publish"}
           \/ pc'[q] = pc[q] /\ expected'[q] = expected[q]
  PROVE  JournalInv' /\ Journal' = Journal
<1>1. dir' = dir /\ stamp' = stamp
  BY DEF disk
<1>2. Journal' = Journal
  BY <1>1 DEF Journal
<1>3. ASSUME NEW q \in Proc, holder' = q PROVE PhaseOK(q)'
  <2>1. CASE pc'[q] \in {"match", "publish"}
    BY <2>1 DEF PhaseOK
  <2>2. CASE pc'[q] = pc[q] /\ expected'[q] = expected[q]
    BY <2>2, <1>1, <1>2
       DEF JournalInv, PhaseOK, BindingOK, BoundTo, Successor, TxnOf, NextSequence
  <2> QED
    BY <1>3, <2>1, <2>2
<1>4. \A q \in Proc : PhaseOK(q)'
  BY <1>3 DEF LockOK, PhaseOK, UnderLock
<1> QED
  BY <1>1, <1>2, <1>4 DEF JournalInv

LEMMA ReadingStep ==
  ASSUME JournalInv, LockOK', NEW p \in Proc,
         \/ List(p) \/ Examine(p) \/ CheckLinks(p) \/ ReadSnapshot(p)
         \/ UseJournal(p)
  PROVE  JournalInv' /\ Journal' = Journal
<1> USE CommandAssumption DEF LockOK, At, Goto
<1>1. /\ UNCHANGED disk /\ holder' = holder
      /\ pc[p] \in {"start", "stat", "read"}
      /\ \A q \in Proc \ {p} : pc'[q] = pc[q] /\ expected'[q] = expected[q]
  <2>1. CASE List(p)
    BY <2>1 DEF List, JournalInv
  <2>2. CASE Examine(p)
    BY <2>2 DEF Examine, End, JournalInv
  <2>3. CASE CheckLinks(p)
    BY <2>3 DEF CheckLinks, End, JournalInv
  <2>4. CASE ReadSnapshot(p)
    BY <2>4 DEF ReadSnapshot, End, JournalInv
  <2>5. CASE UseJournal(p)
    BY <2>5 DEF UseJournal, End, JournalInv
  <2> QED
    BY <2>1, <2>2, <2>3, <2>4, <2>5
<1>2. holder # p
  BY <1>1 DEF JournalInv, UnderLock
<1> QED
  BY <1>1, <1>2, QuietStep

LEMMA LockingStep ==
  ASSUME JournalInv, LockOK', NEW p \in Proc,
         \/ Acquire(p) \/ Match(p) \/ Refuse(p) \/ Finish(p) \/ Fail(p)
  PROVE  JournalInv' /\ Journal' = Journal
<1> USE CommandAssumption DEF LockOK, At, Goto
<1>1. /\ UNCHANGED disk
      /\ \A q \in Proc \ {p} : holder' = q =>
           holder = q /\ pc'[q] = pc[q] /\ expected'[q] = expected[q]
      /\ holder' = p => pc'[p] \in {"match", "publish"}
  <2>1. CASE Acquire(p)
    BY <2>1 DEF Acquire, End, JournalInv, UnderLock
  <2>2. CASE Match(p)
    BY <2>2 DEF Match, Locked, Release, End, JournalInv
  <2>3. CASE Refuse(p)
    BY <2>3 DEF Refuse, Locked, Release, End, JournalInv
  <2>4. CASE Finish(p)
    BY <2>4 DEF Finish, Locked, Release, End, JournalInv
  <2>5. CASE Fail(p)
    BY <2>5 DEF Fail, Locked, Release, End, JournalInv
  <2> QED
    BY <2>1, <2>2, <2>3, <2>4, <2>5
<1> QED
  BY <1>1, QuietStep

\* A name of the directory has finitely many links.
LEMMA LatestIsBinding ==
  ASSUME DirectoryOK(dir)
  PROVE  /\ Latest = NoJournal => Journal = NoJournal
         /\ Latest # NoJournal =>
              /\ Latest.ino \in Ino
              /\ Journal = [txn |-> Latest.ino.txn, seq |-> Latest.ino.seq]
<1>1. CASE Snapshots(dir) = {}
  BY <1>1 DEF Latest, Journal, JournalIn
<1>2. CASE Snapshots(dir) # {}
  <2>1. PICK lo, hi : IsRun(dir, lo, hi)
    BY DEF DirectoryOK
  <2>2. NamesOK(dir) /\ lo \in Int /\ hi \in Int
    BY <2>1, LimitAssumption DEF DirectoryOK, IsRun, Sequence
  <2>3. lo <= hi
    BY <1>2, <2>1, <2>2, JournalOfRun
  <2>4. Newest(Snapshots(dir)) = Snapshot(hi) /\ dir[Snapshot(hi)] \in Ino
    BY <2>1, <2>2, <2>3, JournalOfRun
  <2> DEFINE i == dir[Snapshot(hi)]
  <2>5. Links(i) \in Nat
    <3>1. IsFiniteSet({n \in DOMAIN dir : dir[n] = i})
      BY FS_Subset DEF DirectoryOK
    <3> QED
      BY <3>1, FS_CardinalityType DEF Links
  <2>6. Latest = [ino |-> i, links |-> Links(i)]
    BY <1>2, <2>4 DEF Latest, Lstat
  <2>7. Latest \in [ino : Ino, links : Nat]
    BY <2>4, <2>5, <2>6
  <2>8. Latest # NoJournal
    BY <2>7, NoJournalAssumption
  <2>9. Journal = [txn |-> i.txn, seq |-> i.seq]
    BY <1>2, <2>4 DEF Journal, JournalIn
  <2> QED
    BY <2>4, <2>6, <2>8, <2>9
<1> QED
  BY <1>1, <1>2

LEMMA SuccessorType ==
  ASSUME NEW p \in Proc, BindingOK(p)
  PROVE  /\ TxnOf(p) \in Txn /\ NextSequence(p) \in Sequence
         /\ Successor(p) # NoJournal
         /\ expected[p] # NoJournal => BoundTo(p) # NoJournal
<1>1. TxnOf(p) \in Txn /\ NextSequence(p) \in Sequence
  BY CommandAssumption, LimitAssumption
     DEF BindingOK, TxnOf, NextSequence, Ino, Sequence
<1>2. Successor(p) # NoJournal
  BY <1>1, NoJournalAssumption DEF Successor, Sequence
<1>3. expected[p] # NoJournal => BoundTo(p) # NoJournal
  BY NoJournalAssumption DEF BindingOK, BoundTo, Ino
<1> QED
  BY <1>1, <1>2, <1>3

LEMMA ConfirmStep ==
  ASSUME JournalInv, LockOK', NEW p \in Proc, Confirm(p)
  PROVE  JournalInv' /\ Journal' = Journal
<1>1. CASE Publishable(p)
  <2>1. /\ dir' = dir /\ stamp' = stamp /\ holder' = p
        /\ pc'[p] = "write" /\ expected' = expected
        /\ Temporaries(dir) = {}
    BY <1>1 DEF Confirm, Locked, At, Goto, disk, JournalInv, LockOK
  <2>2. Journal' = Journal
    BY <2>1 DEF Journal
  <2>3. Journal = BoundTo(p) /\ BindingOK(p)
    BY <1>1, LatestIsBinding DEF Publishable, BoundTo, BindingOK, JournalInv
  <2>4. PhaseOK(p)'
    BY <2>1, <2>2, <2>3 DEF PhaseOK, BoundTo, BindingOK, NextSequence
  <2>5. \A q \in Proc : PhaseOK(q)'
    BY <2>1, <2>4 DEF LockOK, PhaseOK, UnderLock
  <2> QED
    BY <2>1, <2>2, <2>5 DEF JournalInv
<1>2. CASE ~ Publishable(p)
  <2>1. UNCHANGED disk /\ holder' = Nobody
    BY <1>2 DEF Confirm, Release
  <2> QED
    BY <2>1, CommandAssumption, QuietStep
<1> QED
  BY <1>1, <1>2

LEMMA WorkStep ==
  ASSUME JournalInv, LockOK', NEW p \in Proc, Work(p)
  PROVE  JournalInv' /\ Journal' = Journal
<1>1. /\ dir' = dir /\ stamp' = stamp /\ holder' = p /\ pc[p] = "work"
      /\ pc'[p] \in {"publish", "remove"} /\ expected' = expected
  BY DEF Work, Locked, At, Goto, disk, JournalInv, LockOK
<1>2. Journal' = Journal
  BY <1>1 DEF Journal
<1>3. PhaseOK(p)'
  BY <1>1 DEF PhaseOK, JournalInv
<1>4. \A q \in Proc : PhaseOK(q)'
  BY <1>1, <1>3 DEF LockOK, PhaseOK, UnderLock
<1> QED
  BY <1>1, <1>2, <1>4 DEF JournalInv

LEMMA ReadBackStep ==
  ASSUME JournalInv, LockOK', NEW p \in Proc, ReadBack(p)
  PROVE  JournalInv' /\ Journal' = Journal
<1>1. /\ dir' = dir /\ stamp' = stamp /\ holder' = p /\ pc[p] = "supersede"
      /\ pc'[p] = "work" /\ Superseded(p) = {}
  BY DEF ReadBack, Locked, At, Goto, disk, JournalInv, LockOK
<1>2. Journal' = Journal
  BY <1>1 DEF Journal
<1>3. Journal = Successor(p) /\ BindingOK(p)
  BY <1>1 DEF PhaseOK, JournalInv
<1>4. Successor(p) # NoJournal
  BY <1>3, SuccessorType
<1>5. {n \in Snapshots(dir) : n.seq < NextSequence(p)} = {}
  BY <1>1 DEF Superseded
<1>6. \A n, m \in Snapshots(dir) : n = m
  BY <1>3, <1>4, <1>5, OnlySnapshot DEF JournalInv, Successor, Journal
<1>7. PhaseOK(p)'
  BY <1>1, <1>6 DEF PhaseOK
<1>8. \A q \in Proc : PhaseOK(q)'
  BY <1>1, <1>7 DEF LockOK, PhaseOK, UnderLock
<1> QED
  BY <1>1, <1>2, <1>8 DEF JournalInv

LEMMA CleanTemporaryStep ==
  ASSUME JournalInv, LockOK', NEW p \in Proc, CleanTemporary(p)
  PROVE  JournalInv' /\ Journal' = Journal
<1>1. PICK t \in Temporaries(dir) : dir' = Without(dir, t) /\ stamp' = stamp
  BY DEF CleanTemporary, Unlink
<1>2. DirectoryOK(dir') /\ Journal' = Journal
  BY <1>1, WithoutTemporary DEF JournalInv, Journal
<1>3. pc' = pc /\ pc[p] = "publish" /\ holder' = p
  BY DEF CleanTemporary, Locked, At
<1>4. \A q \in Proc : PhaseOK(q)'
  BY <1>3 DEF LockOK, PhaseOK, UnderLock
<1> QED
  BY <1>1, <1>2, <1>4 DEF JournalInv

LEMMA ManualRecoveryStep ==
  ASSUME JournalInv, LockOK', ManualRecovery
  PROVE  JournalInv' /\ Journal' = Journal
<1>1. PICK t \in Temporaries(dir) : dir' = Without(dir, t) /\ stamp' = stamp
  BY DEF ManualRecovery, Unlink
<1>2. DirectoryOK(dir') /\ Journal' = Journal
  BY <1>1, WithoutTemporary DEF JournalInv, Journal
<1>3. \A q \in Proc : PhaseOK(q)'
  BY CommandAssumption DEF ManualRecovery, LockOK, PhaseOK, UnderLock
<1> QED
  BY <1>1, <1>2, <1>3 DEF JournalInv

LEMMA WriteTemporaryStep ==
  ASSUME JournalInv, LockOK', NEW p \in Proc, WriteTemporary(p)
  PROVE  JournalInv' /\ Journal' = Journal
<1> DEFINE s == NextSequence(p)
           u == stamp + 1
           ino == [txn |-> TxnOf(p), seq |-> s, stamp |-> u]
<1>1. /\ dir' = With(dir, Temporary(s, u), ino) /\ stamp' = u
      /\ pc[p] = "write" /\ pc'[p] = "link" /\ holder' = p /\ expected' = expected
  BY DEF WriteTemporary, Place, Locked, At, Goto, JournalInv, LockOK
<1>2. BindingOK(p) /\ Journal = BoundTo(p) /\ Temporaries(dir) = {}
  BY <1>1 DEF JournalInv, PhaseOK
<1>3. s \in Sequence /\ u \in Nat /\ ino \in Ino /\ ino.seq = s
  BY <1>2, SuccessorType DEF JournalInv, Ino, Sequence
<1>4. /\ DirectoryOK(dir') /\ Journal' = Journal
      /\ Temporaries(dir') = {Temporary(s, u)}
      /\ dir'[Temporary(s, u)] = ino
  BY <1>1, <1>2, <1>3, WithTemporary DEF JournalInv, Journal
<1>5. PhaseOK(p)'
  BY <1>1, <1>2, <1>4 DEF PhaseOK, BindingOK, BoundTo, NextSequence, TxnOf
<1>6. \A q \in Proc : PhaseOK(q)'
  BY <1>1, <1>5 DEF LockOK, PhaseOK, UnderLock
<1> QED
  BY <1>1, <1>3, <1>4, <1>6 DEF JournalInv

LEMMA OwnTemporaryIs ==
  ASSUME NEW s, NEW u, u = stamp, Temporaries(dir) = {Temporary(s, u)}
  PROVE  OwnTemporary = Temporary(s, u)
BY KindsDiffer DEF OwnTemporary

\* The one step that begins or advances the journal.
LEMMA LinkTemporaryStep ==
  ASSUME JournalInv, LockOK', NEW p \in Proc, LinkTemporary(p)
  PROVE  /\ JournalInv'
         /\ Journal = BoundTo(p) /\ Journal' = Successor(p) /\ BindingOK(p)
<1> DEFINE s == NextSequence(p)
           t == Temporary(s, stamp)
<1>1. /\ pc[p] = "link" /\ pc'[p] = "unlink temporary" /\ holder' = p
      /\ expected' = expected /\ stamp' = stamp
      /\ dir' = With(dir, Snapshot(s), dir[OwnTemporary])
  BY DEF LinkTemporary, Place, Locked, At, Goto, JournalInv, LockOK
<1>2. /\ BindingOK(p) /\ Journal = BoundTo(p) /\ Temporaries(dir) = {t}
      /\ dir[t] = [txn |-> TxnOf(p), seq |-> s, stamp |-> stamp]
  BY <1>1 DEF JournalInv, PhaseOK
<1>3. OwnTemporary = t
  BY <1>2, OwnTemporaryIs
<1>4. s \in Sequence /\ dir[t] \in Ino /\ dir[t].seq = s /\ dir[t].txn = TxnOf(p)
  BY <1>2, SuccessorType DEF JournalInv, Ino, Sequence
<1>5. \/ Journal = NoJournal
      \/ Journal = [txn |-> TxnOf(p), seq |-> s - 1]
  <2>1. CASE expected[p] = NoJournal
    BY <2>1, <1>2 DEF BoundTo
  <2>2. CASE expected[p] # NoJournal
    <3>1. expected[p].ino \in Ino
      BY <2>2, <1>2 DEF BindingOK
    <3>2. s = expected[p].ino.seq + 1 /\ expected[p].ino.seq \in Int
      BY <2>2, <3>1, LimitAssumption DEF NextSequence, Ino
    <3>3. Journal = [txn |-> expected[p].ino.txn, seq |-> s - 1]
      BY <2>2, <3>2, <1>2 DEF BoundTo
    <3> QED
      BY <2>2, <3>3 DEF TxnOf
  <2> QED
    BY <2>1, <2>2
<1>6. /\ DirectoryOK(dir')
      /\ Temporaries(dir') = {t} /\ dir'[t] = dir[t]
      /\ Journal' = Successor(p)
  <2> DEFINE e == With(dir, Snapshot(s), dir[t])
  <2>1. DirectoryOK(dir)
    BY DEF JournalInv
  <2>2. /\ DirectoryOK(e)
        /\ Temporaries(e) = Temporaries(dir)
        /\ \A n \in Temporaries(dir) : e[n] = dir[n]
        /\ JournalIn(e) = [txn |-> dir[t].txn, seq |-> s]
    <3>1. \/ JournalIn(dir) = NoJournal
          \/ JournalIn(dir) = [txn |-> dir[t].txn, seq |-> s - 1]
      BY <1>4, <1>5 DEF Journal
    <3> HIDE DEF s, t, e
    <3>2. LET f == With(dir, Snapshot(s), dir[t])
          IN /\ DirectoryOK(f)
             /\ Temporaries(f) = Temporaries(dir)
             /\ \A n \in Temporaries(dir) : f[n] = dir[n]
             /\ JournalIn(f) = [txn |-> dir[t].txn, seq |-> s]
      BY <2>1, <1>4, <3>1, WithSnapshot
    <3> QED
      BY <3>2 DEF e
  <2>3. dir' = e
    BY <1>1, <1>3
  <2> HIDE DEF e
  <2> QED
    BY <2>2, <2>3, <1>2, <1>4 DEF Journal, Successor
<1>7. PhaseOK(p)'
  BY <1>1, <1>2, <1>6 DEF PhaseOK, BindingOK, Successor, NextSequence, TxnOf
<1>8. \A q \in Proc : PhaseOK(q)'
  BY <1>1, <1>7 DEF LockOK, PhaseOK, UnderLock
<1> QED
  BY <1>1, <1>2, <1>6, <1>8 DEF JournalInv

LEMMA UnlinkTemporaryStep ==
  ASSUME JournalInv, LockOK', NEW p \in Proc, UnlinkTemporary(p)
  PROVE  JournalInv' /\ Journal' = Journal
<1>1. /\ pc[p] = "unlink temporary" /\ pc'[p] = "supersede" /\ holder' = p
      /\ expected' = expected /\ stamp' = stamp
      /\ dir' = Without(dir, OwnTemporary)
  BY DEF UnlinkTemporary, Unlink, Locked, At, Goto, JournalInv, LockOK
<1>2. /\ BindingOK(p) /\ Journal = Successor(p)
      /\ Temporaries(dir) = {Temporary(NextSequence(p), stamp)}
  BY <1>1 DEF JournalInv, PhaseOK
<1>3. OwnTemporary \in Temporaries(dir)
  BY <1>2, OwnTemporaryIs
<1>4. DirectoryOK(dir') /\ Journal' = Journal
  BY <1>1, <1>3, WithoutTemporary DEF JournalInv, Journal
<1>5. PhaseOK(p)'
  BY <1>1, <1>2, <1>4 DEF PhaseOK, BindingOK, Successor, NextSequence, TxnOf
<1>6. \A q \in Proc : PhaseOK(q)'
  BY <1>1, <1>5 DEF LockOK, PhaseOK, UnderLock
<1> QED
  BY <1>1, <1>4, <1>6 DEF JournalInv

LEMMA LinkFailsStep ==
  ASSUME JournalInv, LockOK', NEW p \in Proc, LinkFails(p)
  PROVE  JournalInv' /\ Journal' = Journal
<1>1. /\ pc[p] = "link" /\ holder' = Nobody /\ stamp' = stamp
      /\ dir' = Without(dir, OwnTemporary)
  BY DEF LinkFails, Unlink, Locked, At, Release
<1>2. Temporaries(dir) = {Temporary(NextSequence(p), stamp)}
  BY <1>1 DEF JournalInv, PhaseOK
<1>3. OwnTemporary \in Temporaries(dir)
  BY <1>2, OwnTemporaryIs
<1>4. DirectoryOK(dir') /\ Journal' = Journal
  BY <1>1, <1>3, WithoutTemporary DEF JournalInv, Journal
<1>5. \A q \in Proc : PhaseOK(q)'
  BY <1>1, CommandAssumption DEF LockOK, PhaseOK, UnderLock
<1> QED
  BY <1>1, <1>4, <1>5 DEF JournalInv

LEMMA RemoveSupersededStep ==
  ASSUME JournalInv, LockOK', NEW p \in Proc, RemoveSuperseded(p)
  PROVE  JournalInv' /\ Journal' = Journal
<1> DEFINE old == {n \in Snapshots(dir) : n.seq < NextSequence(p)}
<1>1. /\ pc[p] = "supersede" /\ pc' = pc /\ holder' = p
      /\ expected' = expected /\ stamp' = stamp
      /\ old # {} /\ dir' = Without(dir, Oldest(old))
  BY DEF RemoveSuperseded, Superseded, Unlink, Locked, At
<1>2. BindingOK(p) /\ Journal = Successor(p) /\ Journal # NoJournal
  BY <1>1, SuccessorType DEF JournalInv, PhaseOK
<1>3. DirectoryOK(dir') /\ Journal' = Journal
  BY <1>1, <1>2, WithoutOldest DEF JournalInv, Journal, Successor
<1>4. PhaseOK(p)'
  BY <1>1, <1>2, <1>3 DEF PhaseOK, BindingOK, Successor, NextSequence, TxnOf
<1>5. \A q \in Proc : PhaseOK(q)'
  BY <1>1, <1>4 DEF LockOK, PhaseOK, UnderLock
<1> QED
  BY <1>1, <1>3, <1>5 DEF JournalInv

\* The one step that ends the journal: the snapshot removed is the only one.
LEMMA RemoveSnapshotStep ==
  ASSUME JournalInv, LockOK', NEW p \in Proc, RemoveSnapshot(p)
  PROVE  JournalInv' /\ Journal' = NoJournal
<1>1. /\ pc[p] = "remove" /\ pc' = pc /\ holder' = p /\ stamp' = stamp
      /\ Snapshots(dir) # {} /\ dir' = Without(dir, Newest(Snapshots(dir)))
  BY DEF RemoveSnapshot, Unlink, Locked, At
<1>2. PICK m \in Snapshots(dir) : \A n \in Snapshots(dir) : n = m
  BY <1>1 DEF JournalInv, PhaseOK
<1>3. Newest(Snapshots(dir)) = m
  <2>1. m.seq \in Int
    BY LimitAssumption DEF JournalInv, DirectoryOK, NamesOK, Snapshots, Sequence
  <2>2. m.seq >= m.seq
    BY <2>1
  <2>3. \A n \in Snapshots(dir) : m.seq >= n.seq
    BY <2>2, <1>2
  <2> QED
    BY <2>3, <1>2 DEF Newest
<1>4. DirectoryOK(dir') /\ Journal' = NoJournal /\ Snapshots(dir') = {}
  BY <1>1, <1>2, <1>3, WithoutOnly DEF JournalInv, Journal
<1>5. PhaseOK(p)'
  BY <1>1, <1>4 DEF PhaseOK
<1>6. \A q \in Proc : PhaseOK(q)'
  BY <1>1, <1>5 DEF LockOK, PhaseOK, UnderLock
<1> QED
  BY <1>1, <1>4, <1>6 DEF JournalInv
-----------------------------------------------------------------------------
(***************************************************************************)
(* The theorems.                                                           *)
(***************************************************************************)
LEMMA JournalStep ==
  JournalInv /\ [Next]_vars => JournalInv' /\ [Register!Next]_Journal
<1> SUFFICES ASSUME JournalInv, [Next]_vars
             PROVE  JournalInv' /\ [Register!Next]_Journal
  OBVIOUS
<1>0. LockOK'
  BY LockStep DEF JournalInv
<1>1. CASE UNCHANGED vars
  <2>1. JournalInv' /\ Journal' = Journal
    BY <1>0, <1>1, QuietStep DEF vars
  <2> QED
    BY <2>1
<1>2. ASSUME NEW p \in Proc, Step(p) PROVE JournalInv' /\ [Register!Next]_Journal
  <2>1. CASE List(p) \/ Examine(p) \/ CheckLinks(p) \/ ReadSnapshot(p) \/ UseJournal(p)
    BY <2>1, <1>0, ReadingStep
  <2>2. CASE Acquire(p) \/ Match(p) \/ Refuse(p) \/ Finish(p)
    BY <2>2, <1>0, LockingStep
  <2>3. CASE Confirm(p)
    BY <2>3, <1>0, ConfirmStep
  <2>4. CASE CleanTemporary(p)
    BY <2>4, <1>0, CleanTemporaryStep
  <2>5. CASE WriteTemporary(p)
    BY <2>5, <1>0, WriteTemporaryStep
  <2>6. CASE LinkTemporary(p)
    <3>1. /\ JournalInv' /\ BindingOK(p)
          /\ Journal = BoundTo(p) /\ Journal' = Successor(p)
      BY <2>6, <1>0, LinkTemporaryStep
    <3>2. CASE expected[p] = NoJournal
      <4>1. Journal = NoJournal /\ Journal' = [txn |-> Plan[p], seq |-> 0]
        BY <3>1, <3>2 DEF BoundTo, Successor, TxnOf, NextSequence
      <4>2. Register!Begin
        BY <4>1, CommandAssumption DEF Register!Begin
      <4> QED
        BY <3>1, <4>2 DEF Register!Next
    <3>3. CASE expected[p] # NoJournal
      <4>1. Journal # NoJournal
        BY <3>1, <3>3, SuccessorType
      <4>2. Journal' = [Journal EXCEPT !.seq = @ + 1]
        BY <3>1, <3>3 DEF BoundTo, Successor, TxnOf, NextSequence
      <4>3. Register!Advance
        BY <4>1, <4>2 DEF Register!Advance
      <4> QED
        BY <3>1, <4>3 DEF Register!Next
    <3> QED
      BY <3>2, <3>3
  <2>7. CASE UnlinkTemporary(p)
    BY <2>7, <1>0, UnlinkTemporaryStep
  <2>8. CASE RemoveSuperseded(p)
    BY <2>8, <1>0, RemoveSupersededStep
  <2>9. CASE ReadBack(p)
    BY <2>9, <1>0, ReadBackStep
  <2>10. CASE Work(p)
    BY <2>10, <1>0, WorkStep
  <2>11. CASE RemoveSnapshot(p)
    <3>1. JournalInv' /\ Journal' = NoJournal
      BY <2>11, <1>0, RemoveSnapshotStep
    <3>2. Journal = NoJournal \/ Register!Remove
      BY <3>1 DEF Register!Remove
    <3> QED
      BY <3>1, <3>2 DEF Register!Next
  <2> QED
    BY <1>2, <2>1, <2>2, <2>3, <2>4, <2>5, <2>6, <2>7, <2>8, <2>9, <2>10, <2>11
       DEF Step
<1>3. ASSUME NEW p \in Proc, Fail(p) PROVE JournalInv' /\ [Register!Next]_Journal
  BY <1>3, <1>0, LockingStep
<1>4. ASSUME NEW p \in Proc, LinkFails(p) PROVE JournalInv' /\ [Register!Next]_Journal
  BY <1>4, <1>0, LinkFailsStep
<1>5. CASE ManualRecovery
  BY <1>5, <1>0, ManualRecoveryStep
<1> QED
  BY <1>1, <1>2, <1>3, <1>4, <1>5 DEF Next

\* The directory holds a chain of consecutive snapshots and at most one
\* temporary, whoever died where, and a command under the lock publishes or
\* removes the journal that it is bound to.
THEOREM JournalInvariant == Spec => []JournalInv
<1>1. Init => JournalInv
  BY InitJournalInv
<1>2. JournalInv /\ [Next]_vars => JournalInv'
  BY JournalStep
<1> QED
  BY <1>1, <1>2, PTL DEF Spec

\* The files on disk implement the register: the journal is begun at sequence
\* 0, advances by one, and goes away, whatever dies or fails in between.
THEOREM JournalIsRegister == Spec => ImplementsJournalRegister
<1>1. Init => Register!Init
  BY InitJournalInv DEF Register!Init
<1>2. JournalInv /\ [Next]_vars => [Register!Next]_Journal
  BY JournalStep
<1> QED
  BY <1>1, <1>2, JournalInvariant, PTL
     DEF Spec, ImplementsJournalRegister, Register!Spec
-----------------------------------------------------------------------------
(***************************************************************************)
(* A journal stays readable.                                               *)
(***************************************************************************)
\* An inode at a snapshot's name has that link, and maybe the temporary's.
LEMMA NamesOfSnapshot ==
  ASSUME DirectoryOK(dir), NEW n \in Snapshots(dir), NEW m \in DOMAIN dir,
         dir[m] = dir[n], m # n
  PROVE  m \in Temporaries(dir) /\ m.seq = n.seq
<1>1. m.seq = n.seq
  BY DEF DirectoryOK, NamesOK, Snapshots
<1>2. n = Snapshot(n.seq)
  BY KindsDiffer DEF DirectoryOK, NamesOK, Snapshots
<1>3. m = Temporary(m.seq, m.uuid)
  BY <1>1, <1>2 DEF DirectoryOK, NamesOK
<1> QED
  BY <1>1, <1>3, KindsDiffer DEF Temporaries

LEMMA LinksAreSafe ==
  ASSUME DirectoryOK(dir), \A t \in Temporaries(dir) : Links(dir[t]) = 2
  PROVE  SafeLinks(Present)
<1>1. /\ DOMAIN Present = DOMAIN dir
      /\ Snapshots(Present) = Snapshots(dir) /\ Temporaries(Present) = Temporaries(dir)
      /\ \A n \in DOMAIN dir : Present[n] = [ino |-> dir[n], links |-> Links(dir[n])]
  BY DEF Present, Lstat, Snapshots, Temporaries
<1> HIDE DEF Present
<1>2. \A t \in Temporaries(dir), n \in Snapshots(dir) :
        Owned(Present, t, n) <=> dir[t] = dir[n]
  <2> SUFFICES ASSUME NEW t \in Temporaries(dir), NEW n \in Snapshots(dir)
               PROVE  Owned(Present, t, n) <=> dir[t] = dir[n]
    OBVIOUS
  <2>1. t \in DOMAIN dir /\ n \in DOMAIN dir /\ Links(dir[t]) = 2
    BY DEF Temporaries, Snapshots
  <2>2. ASSUME dir[t] = dir[n] PROVE t.seq = n.seq
    BY <2>1, <2>2 DEF DirectoryOK, NamesOK
  <2> QED
    BY <2>1, <2>2, <1>1 DEF Owned
<1>3. ASSUME NEW n \in Snapshots(dir)
      PROVE  \/ Present[n].links = 1
             \/ Cardinality({t \in Temporaries(dir) : Owned(Present, t, n)}) = 1
  <2>1. n \in DOMAIN dir
    BY DEF Snapshots
  <2>2. CASE \E t \in Temporaries(dir) : dir[t] = dir[n]
    <3>1. PICK t \in Temporaries(dir) : dir[t] = dir[n]
      BY <2>2
    <3>2. {u \in Temporaries(dir) : Owned(Present, u, n)} = {t}
      BY <3>1, <1>2 DEF DirectoryOK
    <3> QED
      BY <3>2, FS_Singleton
  <2>3. CASE ~ \E t \in Temporaries(dir) : dir[t] = dir[n]
    <3>1. {m \in DOMAIN dir : dir[m] = dir[n]} = {n}
      BY <2>1, <2>3, NamesOfSnapshot
    <3>2. Links(dir[n]) = 1
      BY <3>1, FS_Singleton DEF Links
    <3> QED
      BY <3>2, <2>1, <1>1
  <2> QED
    BY <2>2, <2>3
<1>4. ASSUME NEW t \in Temporaries(dir)
      PROVE  Cardinality({n \in Snapshots(dir) : Owned(Present, t, n)}) = 1
  <2>1. t \in DOMAIN dir
    BY DEF Temporaries
  <2>2. {m \in DOMAIN dir : dir[m] = dir[t]} # {t}
    <3>1. Cardinality({t}) = 1
      BY FS_Singleton
    <3>2. Cardinality({m \in DOMAIN dir : dir[m] = dir[t]}) = 2
      BY DEF Links
    <3> QED
      BY <3>1, <3>2
  <2>3. PICK n \in DOMAIN dir : dir[n] = dir[t] /\ n # t
    BY <2>1, <2>2
  <2>4. n \in Snapshots(dir)
    <3>1. n \notin Temporaries(dir)
      BY <2>3 DEF DirectoryOK
    <3> QED
      BY <3>1, KindsDiffer DEF DirectoryOK, NamesOK, Snapshots, Temporaries
  <2>5. ASSUME NEW m \in Snapshots(dir), dir[m] = dir[t], m # n PROVE FALSE
    <3>1. m \in DOMAIN dir /\ dir[m] = dir[n]
      BY <2>3, <2>5 DEF Snapshots
    <3>2. m \in Temporaries(dir)
      BY <3>1, <2>4, <2>5, NamesOfSnapshot
    <3> QED
      BY <3>2, <2>5, KindsDiffer
  <2>6. {m \in Snapshots(dir) : Owned(Present, t, m)} = {n}
    BY <1>2, <2>3, <2>4, <2>5
  <2> QED
    BY <2>6, FS_Singleton
<1> QED
  BY <1>1, <1>3, <1>4 DEF SafeLinks

LEMMA ChainIsReadable == DirectoryOK(dir) => ChainSurvives
<1> SUFFICES ASSUME DirectoryOK(dir), \A t \in Temporaries(dir) : Links(dir[t]) = 2
             PROVE  Readable
  BY DEF ChainSurvives
<1>1. SafeLinks(Present)
  BY LinksAreSafe
<1>2. ASSUME NEW n \in Snapshots(dir), n # Oldest(Snapshots(dir))
      PROVE  LET m == Snapshot(n.seq - 1)
             IN m \in DOMAIN dir /\ Follows(<<Lstat(m)>>, n, dir[n])
  <2>1. PICK lo, hi : IsRun(dir, lo, hi)
    BY DEF DirectoryOK
  <2>2. PICK k \in lo..hi : n = Snapshot(k)
    BY <2>1 DEF IsRun, Run
  <2>3. lo \in Int /\ hi \in Int /\ k \in Int /\ lo <= hi /\ n.seq = k
    BY <2>1, <2>2, LimitAssumption, KindsDiffer DEF IsRun, Sequence
  <2>4. k # lo
    BY <1>2, <2>1, <2>2, <2>3, RunOldestNewest DEF IsRun
  <2> DEFINE m == Snapshot(k - 1)
  <2>5. m \in Snapshots(dir)
    BY <2>1, <2>2, <2>3, <2>4 DEF IsRun, Run
  <2>6. m \in DOMAIN dir /\ n \in DOMAIN dir /\ m.seq = k - 1
    BY <2>5, KindsDiffer DEF Snapshots
  <2>7. dir[m].seq = k - 1 /\ dir[n].seq = k /\ dir[n].txn = dir[m].txn
    BY <2>3, <2>5, <2>6 DEF DirectoryOK, NamesOK
  <2> HIDE DEF m
  <2>8. Follows(<<Lstat(m)>>, n, dir[n])
    BY <2>3, <2>7 DEF Follows, Lstat
  <2> QED
    BY <2>3, <2>6, <2>8 DEF m
<1> QED
  BY <1>1, <1>2 DEF Readable

\* A journal is readable after every crash, if no temporary is left that was
\* not linked.
THEOREM JournalReadable == Spec => []ChainSurvives
<1>1. JournalInv => ChainSurvives
  BY ChainIsReadable DEF JournalInv
<1> QED
  BY <1>1, JournalInvariant, PTL
-----------------------------------------------------------------------------
(***************************************************************************)
(* A command that recovers works on the inode it read.  The stamps order   *)
(* the inodes; once the newest snapshot is another than a command has read *)
(* it is never that one again.                                             *)
(***************************************************************************)
\* The stamps of the inodes that were ever at a snapshot's name.
Linked == IF \E p \in Proc : pc[p] = "link" THEN stamp - 1 ELSE stamp

Known == {s \in [ino : Ino, links : Nat] : s.ino.stamp <= Linked}

\* The newest snapshot is not the inode i and will not be.
Spent(i) == Snapshots(dir) # {} => dir[Newest(Snapshots(dir))].stamp > i.stamp

Waiting == {"wait", "match"}

IdentityInv ==
  /\ \A n \in Snapshots(dir) : dir[n].stamp <= Linked
  /\ chain \in [Proc -> Seq(Known)]
  /\ \A p \in Proc : pc[p] \in Waiting => expected[p] \in Known \cup {NoJournal}
  /\ \A p \in overtaken :
       /\ p \in Proc
       /\ pc[p] \in Waiting \/ (Op[p] = "apply" /\ pc[p] \in UnderLock)
       /\ pc[p] \in Waiting => expected[p] = NoJournal \/ Spent(expected[p].ino)

LEMMA InitIdentityInv == Init => IdentityInv
<1> SUFFICES ASSUME Init PROVE IdentityInv
  OBVIOUS
<1>1. Snapshots(dir) = {}
  BY DEF Init, Snapshots
<1>2. <<>> \in Seq(Known)
  OBVIOUS
<1> QED
  BY <1>1, <1>2 DEF Init, IdentityInv, Waiting

\* What a step does to the directory, if it does not write, link or remove.
LEMMA DiskStep ==
  ASSUME JournalInv, [Next]_vars
  PROVE  \/ /\ dir' = dir /\ stamp' = stamp
            /\ \A q \in Proc : pc'[q] = "link" => pc[q] = "link"
         \/ /\ \E t \in Temporaries(dir) : dir' = Without(dir, t)
            /\ stamp' = stamp
            /\ \A q \in Proc : pc'[q] = "link" => pc[q] = "link"
         \/ \E p \in Proc : \/ WriteTemporary(p) \/ LinkTemporary(p)
                            \/ RemoveSuperseded(p) \/ RemoveSnapshot(p)
<1> USE DEF JournalInv, LockOK, At, Goto
<1>1. CASE UNCHANGED vars
  BY <1>1 DEF vars, disk
<1>2. ASSUME NEW p \in Proc,
             \/ List(p) \/ Examine(p) \/ CheckLinks(p) \/ ReadSnapshot(p)
             \/ UseJournal(p) \/ Acquire(p) \/ Match(p) \/ Refuse(p) \/ Confirm(p)
             \/ ReadBack(p) \/ Work(p) \/ Finish(p) \/ Fail(p)
      PROVE  /\ dir' = dir /\ stamp' = stamp
             /\ \A q \in Proc : pc'[q] = "link" => pc[q] = "link"
  <2> USE DEF disk, End, Release, Locked
  <2>1. CASE List(p)
    BY <2>1 DEF List
  <2>2. CASE Examine(p)
    BY <2>2 DEF Examine
  <2>3. CASE CheckLinks(p)
    BY <2>3 DEF CheckLinks
  <2>4. CASE ReadSnapshot(p)
    BY <2>4 DEF ReadSnapshot
  <2>5. CASE UseJournal(p)
    BY <2>5 DEF UseJournal
  <2>6. CASE Acquire(p)
    BY <2>6 DEF Acquire
  <2>7. CASE Match(p)
    BY <2>7 DEF Match
  <2>8. CASE Refuse(p)
    BY <2>8 DEF Refuse
  <2>9. CASE Confirm(p)
    BY <2>9 DEF Confirm
  <2>10. CASE ReadBack(p)
    BY <2>10 DEF ReadBack
  <2>11. CASE Work(p)
    BY <2>11 DEF Work
  <2>12. CASE Finish(p)
    BY <2>12 DEF Finish
  <2>13. CASE Fail(p)
    BY <2>13 DEF Fail
  <2> QED
    BY <1>2, <2>1, <2>2, <2>3, <2>4, <2>5, <2>6, <2>7, <2>8, <2>9, <2>10,
       <2>11, <2>12, <2>13
<1>3. ASSUME NEW p \in Proc, CleanTemporary(p)
      PROVE  /\ \E t \in Temporaries(dir) : dir' = Without(dir, t)
             /\ stamp' = stamp
             /\ \A q \in Proc : pc'[q] = "link" => pc[q] = "link"
  BY <1>3 DEF CleanTemporary, Unlink
<1>4. ASSUME NEW p \in Proc, UnlinkTemporary(p) \/ LinkFails(p)
      PROVE  /\ \E t \in Temporaries(dir) : dir' = Without(dir, t)
             /\ stamp' = stamp
             /\ \A q \in Proc : pc'[q] = "link" => pc[q] = "link"
  <2>1. /\ pc[p] \in {"link", "unlink temporary"}
        /\ dir' = Without(dir, OwnTemporary) /\ stamp' = stamp
        /\ pc' \in {[pc EXCEPT ![p] = "supersede"], [pc EXCEPT ![p] = "ended"]}
    BY <1>4 DEF UnlinkTemporary, LinkFails, Locked, Unlink, Release, End
  <2>2. Temporaries(dir) = {Temporary(NextSequence(p), stamp)}
    BY <2>1 DEF PhaseOK
  <2>3. OwnTemporary \in Temporaries(dir)
    BY <2>2, OwnTemporaryIs
  <2> QED
    BY <2>1, <2>3
<1>5. CASE ManualRecovery
  BY <1>5 DEF ManualRecovery, Unlink
<1> QED
  BY <1>1, <1>2, <1>3, <1>4, <1>5 DEF Next, Step

LEMMA NewestOfJournal ==
  ASSUME NEW d, DirectoryOK(d), NEW x, NEW s, JournalIn(d) = [txn |-> x, seq |-> s],
         JournalIn(d) # NoJournal
  PROVE  Snapshot(s) \in Snapshots(d) /\ Newest(Snapshots(d)) = Snapshot(s)
<1>1. PICK lo, hi : IsRun(d, lo, hi)
  BY DEF DirectoryOK
<1>2. NamesOK(d) /\ lo \in Nat /\ hi \in Int
  BY <1>1, LimitAssumption DEF DirectoryOK, IsRun, Sequence
<1>3. lo <= hi
  BY <1>1, <1>2, JournalOfRun
<1>4. JournalIn(d) = [txn |-> d[Snapshot(hi)].txn, seq |-> hi]
  BY <1>1, <1>2, <1>3, JournalOfRun
<1>5. s = hi
  BY <1>4
<1> QED
  BY <1>1, <1>2, <1>3, <1>5, JournalOfRun

LEMMA NewestIsOne ==
  ASSUME NEW d, DirectoryOK(d), Snapshots(d) # {}
  PROVE  Newest(Snapshots(d)) \in Snapshots(d)
<1>1. PICK lo, hi : IsRun(d, lo, hi)
  BY DEF DirectoryOK
<1>2. NamesOK(d) /\ lo \in Nat /\ hi \in Int
  BY <1>1, LimitAssumption DEF DirectoryOK, IsRun, Sequence
<1>3. lo <= hi
  BY <1>1, <1>2, JournalOfRun
<1> QED
  BY <1>1, <1>2, <1>3, JournalOfRun

\* The newest snapshot changes only when an inode never seen at a snapshot's
\* name becomes it, or when there is none any more.
LEMMA NewestStep ==
  ASSUME JournalInv, JournalInv', [Next]_vars,
         \A n \in Snapshots(dir) : dir[n].stamp <= Linked
  PROVE  /\ Linked \in Int /\ Linked' \in Int /\ Linked <= Linked'
         /\ \A n \in Snapshots(dir)' : dir'[n].stamp <= Linked'
         /\ \/ Snapshots(dir)' = {}
            \/ /\ Snapshots(dir)' # {}
               /\ dir'[Newest(Snapshots(dir)')].stamp > Linked
            \/ /\ Snapshots(dir)' # {} /\ Snapshots(dir) # {}
               /\ dir'[Newest(Snapshots(dir)')] = dir[Newest(Snapshots(dir))]
               /\ Journal' = Journal
<1>0. stamp \in Nat /\ stamp' \in Nat
  BY DEF JournalInv
<1>1. Linked \in Int /\ Linked' \in Int
  BY <1>0 DEF Linked
<1>2. CASE /\ dir' = dir /\ stamp' = stamp
           /\ \A q \in Proc : pc'[q] = "link" => pc[q] = "link"
  <2>1. Linked <= Linked'
    BY <1>0, <1>2 DEF Linked
  <2>2. \A n \in Snapshots(dir) : dir[n].stamp <= Linked'
    <3>1. \A n \in Snapshots(dir) : dir[n].stamp \in Int
      BY DEF JournalInv, DirectoryOK, NamesOK, Snapshots, Ino
    <3> QED
      BY <3>1, <2>1, <1>1
  <2> QED
    BY <2>1, <2>2, <1>1, <1>2 DEF Journal
<1>3. CASE /\ \E t \in Temporaries(dir) : dir' = Without(dir, t)
           /\ stamp' = stamp
           /\ \A q \in Proc : pc'[q] = "link" => pc[q] = "link"
  <2>1. Linked <= Linked'
    BY <1>0, <1>3 DEF Linked
  <2>2. PICK t \in Temporaries(dir) : dir' = Without(dir, t)
    BY <1>3
  <2>3. Snapshots(dir)' = Snapshots(dir) /\ Journal' = Journal
    BY <2>2, WithoutTemporary DEF JournalInv, Journal
  <2>4. \A n \in Snapshots(dir) : dir'[n] = dir[n]
    BY <2>2, KindsDiffer DEF Without, Snapshots
  <2>5. \A n \in Snapshots(dir) : dir[n].stamp \in Int
    BY DEF JournalInv, DirectoryOK, NamesOK, Snapshots, Ino
  <2>6. Snapshots(dir) # {} => Newest(Snapshots(dir)) \in Snapshots(dir)
    BY NewestIsOne DEF JournalInv
  <2> QED
    BY <2>1, <2>3, <2>4, <2>5, <2>6, <1>1
<1>4. ASSUME NEW p \in Proc, WriteTemporary(p)
      PROVE  /\ Linked' = Linked
             /\ Snapshots(dir)' = Snapshots(dir) /\ Journal' = Journal
             /\ \A n \in Snapshots(dir) : dir'[n] = dir[n]
  <2> DEFINE s == NextSequence(p)
             u == stamp + 1
             ino == [txn |-> TxnOf(p), seq |-> s, stamp |-> u]
  <2>1. /\ dir' = With(dir, Temporary(s, u), ino) /\ stamp' = u
        /\ pc[p] = "write" /\ pc' = [pc EXCEPT ![p] = "link"] /\ holder = p
    BY <1>4 DEF WriteTemporary, Place, Locked, At, Goto
  <2>2. BindingOK(p) /\ Temporaries(dir) = {}
    BY <2>1 DEF JournalInv, PhaseOK
  <2>3. s \in Sequence /\ u \in Nat /\ ino \in Ino /\ ino.seq = s
    BY <2>2, <1>0, SuccessorType DEF Ino, Sequence
  <2>4. Snapshots(dir)' = Snapshots(dir) /\ Journal' = Journal
    BY <2>1, <2>2, <2>3, WithTemporary DEF JournalInv, Journal
  <2>5. \A n \in Snapshots(dir) : dir'[n] = dir[n]
    BY <2>1, KindsDiffer DEF With, Snapshots
  <2>6. \A q \in Proc : pc[q] # "link"
    BY <2>1 DEF JournalInv, LockOK, UnderLock
  <2>7. pc'[p] = "link"
    BY <2>1 DEF JournalInv, LockOK
  <2>8. Linked' = Linked
    BY <2>1, <2>6, <2>7, <1>0 DEF Linked
  <2> QED
    BY <2>4, <2>5, <2>8
<1>5. ASSUME NEW p \in Proc, LinkTemporary(p)
      PROVE  /\ Linked' = Linked + 1
             /\ Snapshots(dir)' # {}
             /\ \A n \in Snapshots(dir)' :
                  (n \in Snapshots(dir) /\ dir'[n] = dir[n]) \/ dir'[n].stamp = Linked'
             /\ dir'[Newest(Snapshots(dir)')].stamp = Linked'
  <2> DEFINE s == NextSequence(p)
             t == Temporary(s, stamp)
  <2>1. /\ pc[p] = "link" /\ pc' = [pc EXCEPT ![p] = "unlink temporary"]
        /\ holder = p /\ holder' = p
        /\ stamp' = stamp /\ dir' = With(dir, Snapshot(s), dir[OwnTemporary])
    BY <1>5 DEF LinkTemporary, Place, Locked, At, Goto
  <2>2. /\ BindingOK(p) /\ Temporaries(dir) = {t} /\ dir[t].stamp = stamp
    <3>1. /\ BindingOK(p) /\ Temporaries(dir) = {t}
          /\ dir[t] = [txn |-> TxnOf(p), seq |-> s, stamp |-> stamp]
      BY <2>1 DEF JournalInv, PhaseOK
    <3> QED
      BY <3>1
  <2>3. OwnTemporary = t
    BY <2>2, OwnTemporaryIs
  <2>4. Linked = stamp - 1 /\ Linked' = stamp
    <3>1. \A q \in Proc : pc'[q] # "link"
      BY <2>1 DEF JournalInv, LockOK, UnderLock
    <3> QED
      BY <2>1, <3>1 DEF Linked
  <2>5. Journal' = Successor(p) /\ Successor(p) # NoJournal
    BY <1>5, <2>2, LinkTemporaryStep, SuccessorType DEF JournalInv
  <2>6. Snapshot(s) \in Snapshots(dir') /\ Newest(Snapshots(dir')) = Snapshot(s)
    BY <2>5, NewestOfJournal DEF JournalInv, Successor, Journal
  <2>7. dir'[Snapshot(s)].stamp = stamp
    BY <2>1, <2>2, <2>3 DEF With
  <2>8. \A n \in Snapshots(dir') : n # Snapshot(s) => n \in Snapshots(dir) /\ dir'[n] = dir[n]
    BY <2>1 DEF With, Snapshots
  <2> QED
    BY <2>4, <2>6, <2>7, <2>8, <1>0
<1>6. ASSUME NEW p \in Proc, RemoveSuperseded(p)
      PROVE  /\ Linked' = Linked /\ Journal' = Journal
             /\ Snapshots(dir) # {} /\ Snapshots(dir)' # {}
             /\ \A n \in Snapshots(dir)' : n \in Snapshots(dir) /\ dir'[n] = dir[n]
             /\ Newest(Snapshots(dir)') = Newest(Snapshots(dir))
             /\ Newest(Snapshots(dir)') \in Snapshots(dir)'
  <2>1. /\ pc[p] = "supersede" /\ pc' = pc /\ stamp' = stamp
        /\ \E n : dir' = Without(dir, n)
    BY <1>6 DEF RemoveSuperseded, Unlink, Locked, At
  <2>2. BindingOK(p) /\ Journal = Successor(p) /\ Journal # NoJournal
    BY <2>1, SuccessorType DEF JournalInv, PhaseOK
  <2>3. Journal' = Journal
    BY <1>6, RemoveSupersededStep DEF JournalInv
  <2> DEFINE s == NextSequence(p)
  <2>4. Snapshot(s) \in Snapshots(dir) /\ Newest(Snapshots(dir)) = Snapshot(s)
    BY <2>2, NewestOfJournal DEF JournalInv, Successor, Journal
  <2>5. Snapshot(s) \in Snapshots(dir') /\ Newest(Snapshots(dir')) = Snapshot(s)
    BY <2>2, <2>3, NewestOfJournal DEF JournalInv, Successor, Journal
  <2>6. \A n \in Snapshots(dir') : n \in Snapshots(dir) /\ dir'[n] = dir[n]
    BY <2>1 DEF Without, Snapshots
  <2>7. Linked' = Linked
    BY <2>1 DEF Linked
  <2> QED
    BY <2>3, <2>4, <2>5, <2>6, <2>7
<1>7. ASSUME NEW p \in Proc, RemoveSnapshot(p)
      PROVE  Linked' = Linked /\ Snapshots(dir)' = {}
  <2>1. /\ pc[p] = "remove" /\ pc' = pc /\ stamp' = stamp
        /\ Snapshots(dir) # {} /\ dir' = Without(dir, Newest(Snapshots(dir)))
    BY <1>7 DEF RemoveSnapshot, Unlink, Locked, At
  <2>2. \A n, m \in Snapshots(dir) : n = m
    BY <2>1 DEF JournalInv, PhaseOK
  <2>3. Newest(Snapshots(dir)) \in Snapshots(dir)
    BY <2>1, NewestIsOne DEF JournalInv
  <2>4. Snapshots(dir') = {}
    BY <2>1, <2>2, <2>3 DEF Without, Snapshots
  <2>5. Linked' = Linked
    BY <2>1 DEF Linked
  <2> QED
    BY <2>4, <2>5
<1>8. \A n \in Snapshots(dir) : dir[n].stamp \in Int
  BY DEF JournalInv, DirectoryOK, NamesOK, Snapshots, Ino
<1>9. Snapshots(dir) # {} => Newest(Snapshots(dir)) \in Snapshots(dir)
  BY NewestIsOne DEF JournalInv
<1>10. CASE \E p \in Proc : WriteTemporary(p)
  BY <1>1, <1>4, <1>8, <1>9, <1>10
<1>11. CASE \E p \in Proc : LinkTemporary(p)
  BY <1>1, <1>5, <1>8, <1>11
<1>12. CASE \E p \in Proc : RemoveSuperseded(p)
  BY <1>1, <1>6, <1>8, <1>12
<1>13. CASE \E p \in Proc : RemoveSnapshot(p)
  BY <1>1, <1>7, <1>13
<1> QED
  BY <1>2, <1>3, <1>10, <1>11, <1>12, <1>13, DiskStep

\* What a step leaves of what the commands have read.
ReadersKept ==
  /\ chain' \in [Proc -> Seq(Known)]
  /\ \A q \in Proc : pc'[q] \in Waiting =>
       \/ pc[q] \in Waiting /\ expected'[q] = expected[q]
       \/ q \notin overtaken' /\ expected'[q] \in Known \cup {NoJournal}
  /\ \A q \in overtaken' :
       \/ q \in overtaken
       \/ q \in Proc /\ pc[q] = "wait" /\ Journal' # Journal
  /\ \A q \in overtaken' :
       pc'[q] \in Waiting \/ (Op[q] = "apply" /\ pc'[q] \in UnderLock)

LEMMA EndKeepsReaders ==
  ASSUME JournalInv, IdentityInv, NEW p \in Proc, End(p)
  PROVE  ReadersKept
<1>1. <<>> \in Seq(Known)
  OBVIOUS
<1>2. /\ pc' = [pc EXCEPT ![p] = "ended"] /\ chain' = [chain EXCEPT ![p] = <<>>]
      /\ expected' = [expected EXCEPT ![p] = NoJournal]
      /\ overtaken' = overtaken \ {p}
  BY DEF End, Goto, Forget
<1>3. chain' \in [Proc -> Seq(Known)]
  BY <1>1, <1>2 DEF IdentityInv
<1>4. "ended" \notin Waiting
  BY DEF Waiting
<1> QED
  BY <1>2, <1>3, <1>4 DEF ReadersKept, IdentityInv, JournalInv, LockOK

\* A step of a command that neither ends it nor reads.
LEMMA MoveKeepsReaders ==
  ASSUME JournalInv, IdentityInv, NEW p \in Proc, NEW l,
         pc' = [pc EXCEPT ![p] = l], chain' = chain,
         \A q \in Proc \ {p} : expected'[q] = expected[q],
         l \in Waiting => pc[p] \in Waiting /\ expected'[p] = expected[p],
         overtaken' = overtaken \/ (Recorded /\ pc[p] # "wait"),
         \/ p \notin overtaken /\ pc[p] # "wait"
         \/ l \in Waiting
         \/ Op[p] = "apply" /\ l \in UnderLock
         \/ pc[p] \in UnderLock \ Waiting /\ l \in UnderLock
  PROVE  ReadersKept
<1> USE DEF IdentityInv, JournalInv, LockOK, Waiting, UnderLock
<1>1. pc'[p] = l /\ \A q \in Proc \ {p} : pc'[q] = pc[q]
  OBVIOUS
<1>2. \A q \in overtaken' :
        \/ q \in overtaken
        \/ q \in Proc /\ pc[q] = "wait" /\ Journal' # Journal
  BY DEF Recorded, At
<1>3. \A q \in overtaken' :
        pc'[q] \in Waiting \/ (Op[q] = "apply" /\ pc'[q] \in UnderLock)
  BY <1>1, <1>2
<1> QED
  BY <1>1, <1>2, <1>3 DEF ReadersKept

LEMMA ReadSnapshotKeepsReaders ==
  ASSUME JournalInv, IdentityInv, NEW p \in Proc, ReadSnapshot(p)
  PROVE  ReadersKept
<1>1. CASE End(p)
  BY <1>1, EndKeepsReaders
<1>2. CASE ~ End(p)
  <2>1. PICK n \in Unread(p) :
          /\ n \in DOMAIN dir
          /\ chain' = [chain EXCEPT ![p] = Append(@, Lstat(n))]
          /\ UNCHANGED <<pc, expected, overtaken>>
    BY <1>2 DEF ReadSnapshot, history
  <2>2. n \in Snapshots(dir)
    BY <2>1 DEF Unread, Snapshots
  <2>3. Lstat(n) \in Known
    <3>1. dir[n] \in Ino /\ dir[n].stamp <= Linked
      BY <2>1, <2>2 DEF JournalInv, DirectoryOK, NamesOK, IdentityInv
    <3>2. Links(dir[n]) \in Nat
      <4>1. IsFiniteSet({m \in DOMAIN dir : dir[m] = dir[n]})
        BY FS_Subset DEF JournalInv, DirectoryOK
      <4> QED
        BY <4>1, FS_CardinalityType DEF Links
    <3> QED
      BY <3>1, <3>2 DEF Lstat, Known
  <2>4. Append(chain[p], Lstat(n)) \in Seq(Known)
    BY <2>3 DEF IdentityInv
  <2>5. chain' \in [Proc -> Seq(Known)]
    BY <2>1, <2>4 DEF IdentityInv
  <2> QED
    BY <2>1, <2>5 DEF ReadersKept, IdentityInv
<1> QED
  BY <1>1, <1>2

LEMMA UseJournalKeepsReaders ==
  ASSUME JournalInv, IdentityInv, NEW p \in Proc, UseJournal(p)
  PROVE  ReadersKept
<1>1. CASE End(p)
  BY <1>1, EndKeepsReaders
<1>2. CASE ~ End(p)
  <2>1. /\ pc[p] = "read" /\ pc' = [pc EXCEPT ![p] = "wait"]
        /\ expected' = [expected EXCEPT ![p] = LatestOf(chain[p])]
        /\ chain' = [chain EXCEPT ![p] = <<>>]
        /\ overtaken' = overtaken
    BY <1>2 DEF UseJournal, At, Goto, Forget
  <2>2. LatestOf(chain[p]) \in Known \cup {NoJournal}
    BY DEF LatestOf, IdentityInv
  <2>3. p \notin overtaken
    BY <2>1 DEF IdentityInv, Waiting, UnderLock
  <2>4. <<>> \in Seq(Known)
    OBVIOUS
  <2>5. chain' \in [Proc -> Seq(Known)]
    BY <2>1, <2>4 DEF IdentityInv
  <2>6. "wait" \in Waiting
    BY DEF Waiting
  <2> QED
    BY <2>1, <2>2, <2>3, <2>5, <2>6
       DEF ReadersKept, IdentityInv, JournalInv, LockOK
<1> QED
  BY <1>1, <1>2

\* A match with the very inode refuses a command that was overtaken.
LEMMA MatchKeepsReaders ==
  ASSUME JournalInv, IdentityInv, NEW p \in Proc, Match(p)
  PROVE  ReadersKept
<1>1. CASE Release(p)
  BY <1>1, EndKeepsReaders DEF Release
<1>2. CASE ~ Release(p)
  <2>1. /\ Latest # NoJournal /\ Latest = expected[p]
        /\ pc[p] = "match" /\ pc' = [pc EXCEPT ![p] = "publish"]
        /\ expected' = expected /\ chain' = chain /\ overtaken' = overtaken
    BY <1>2 DEF Match, Locked, At, Goto, SameJournalIdentity, reading, history
  <2>2. p \notin overtaken
    <3> SUFFICES ASSUME p \in overtaken PROVE FALSE
      OBVIOUS
    <3>1. Spent(Latest.ino)
      BY <2>1 DEF IdentityInv, Waiting
    <3>2. Snapshots(dir) # {} /\ Latest.ino = dir[Newest(Snapshots(dir))]
      BY <2>1 DEF Latest, Lstat
    <3>3. Latest.ino.stamp \in Int
      BY <2>1, LatestIsBinding DEF JournalInv, Ino
    <3> QED
      BY <3>1, <3>2, <3>3 DEF Spent
  <2> QED
    BY <2>1, <2>2, MoveKeepsReaders DEF Waiting
<1> QED
  BY <1>1, <1>2

LEMMA ReadersStep ==
  ASSUME JournalInv, IdentityInv, [Next]_vars
  PROVE  ReadersKept
<1> USE DEF At, Goto, Locked, Waiting, UnderLock
<1>1. CASE UNCHANGED vars
  BY <1>1 DEF vars, reading, history, ReadersKept, IdentityInv
<1>2. ASSUME NEW p \in Proc, Step(p) PROVE ReadersKept
  <2>1. CASE List(p)
    <3>1. p \notin overtaken
      BY <2>1 DEF List, IdentityInv
    <3> QED
      BY <2>1, <3>1, MoveKeepsReaders DEF List
  <2>2. CASE Examine(p)
    <3>1. CASE End(p)
      BY <3>1, EndKeepsReaders
    <3>2. CASE ~ End(p)
      BY <2>2, <3>2 DEF Examine, history, ReadersKept, IdentityInv
    <3> QED
      BY <3>1, <3>2
  <2>3. CASE CheckLinks(p)
    <3>1. CASE End(p)
      BY <3>1, EndKeepsReaders
    <3>2. CASE ~ End(p)
      <4>1. p \notin overtaken
        BY <2>3 DEF CheckLinks, IdentityInv
      <4> QED
        BY <2>3, <3>2, <4>1, MoveKeepsReaders DEF CheckLinks, reading, history
    <3> QED
      BY <3>1, <3>2
  <2>4. CASE ReadSnapshot(p)
    BY <2>4, ReadSnapshotKeepsReaders
  <2>5. CASE UseJournal(p)
    BY <2>5, UseJournalKeepsReaders
  <2>6. CASE Acquire(p)
    <3>1. CASE End(p)
      BY <3>1, EndKeepsReaders
    <3>2. CASE ~ End(p) /\ Op[p] = "apply"
      BY <2>6, <3>2, MoveKeepsReaders DEF Acquire, reading, history
    <3>3. CASE ~ End(p) /\ Op[p] # "apply"
      BY <2>6, <3>3, MoveKeepsReaders DEF Acquire, reading, history
    <3> QED
      BY <3>1, <3>2, <3>3
  <2>7. CASE Match(p)
    BY <2>7, MatchKeepsReaders
  <2>8. CASE Refuse(p)
    BY <2>8, EndKeepsReaders DEF Refuse, Release
  <2>9. CASE Confirm(p)
    <3>1. CASE End(p)
      BY <3>1, EndKeepsReaders
    <3>2. CASE ~ End(p)
      BY <2>9, <3>2, MoveKeepsReaders DEF Confirm, Release, reading, history
    <3> QED
      BY <3>1, <3>2
  <2>10. CASE CleanTemporary(p)
    <3>1. /\ pc[p] = "publish" /\ pc' = [pc EXCEPT ![p] = "publish"]
          /\ \A q \in Proc \ {p} : expected'[q] = expected[q]
      BY <2>10 DEF CleanTemporary, JournalInv, LockOK
    <3> QED
      BY <2>10, <3>1, MoveKeepsReaders DEF CleanTemporary, reading
  <2>11. CASE WriteTemporary(p)
    BY <2>11, MoveKeepsReaders DEF WriteTemporary, reading
  <2>12. CASE LinkTemporary(p)
    BY <2>12, MoveKeepsReaders DEF LinkTemporary, reading
  <2>13. CASE UnlinkTemporary(p)
    BY <2>13, MoveKeepsReaders DEF UnlinkTemporary, reading
  <2>14. CASE RemoveSuperseded(p)
    <3>1. pc[p] = "supersede" /\ pc' = [pc EXCEPT ![p] = "supersede"]
      BY <2>14 DEF RemoveSuperseded, JournalInv, LockOK
    <3> QED
      BY <2>14, <3>1, MoveKeepsReaders DEF RemoveSuperseded, reading
  <2>15. CASE ReadBack(p)
    <3>1. \A q \in Proc \ {p} : expected'[q] = expected[q]
      BY <2>15 DEF ReadBack, JournalInv, LockOK
    <3> QED
      BY <2>15, <3>1, MoveKeepsReaders DEF ReadBack, reading, history
  <2>16. CASE Work(p)
    BY <2>16, MoveKeepsReaders DEF Work, reading, history
  <2>17. CASE RemoveSnapshot(p)
    <3>1. pc[p] = "remove" /\ pc' = [pc EXCEPT ![p] = "remove"]
      BY <2>17 DEF RemoveSnapshot, JournalInv, LockOK
    <3> QED
      BY <2>17, <3>1, MoveKeepsReaders DEF RemoveSnapshot, reading
  <2>18. CASE Finish(p)
    BY <2>18, EndKeepsReaders DEF Finish, Release
  <2> QED
    BY <1>2, <2>1, <2>2, <2>3, <2>4, <2>5, <2>6, <2>7, <2>8, <2>9, <2>10,
       <2>11, <2>12, <2>13, <2>14, <2>15, <2>16, <2>17, <2>18 DEF Step
<1>3. ASSUME NEW p \in Proc, Fail(p) \/ LinkFails(p) PROVE ReadersKept
  BY <1>3, EndKeepsReaders DEF Fail, LinkFails, Release
<1>4. CASE ManualRecovery
  BY <1>4 DEF ManualRecovery, Recorded, reading, ReadersKept, IdentityInv
<1> QED
  BY <1>1, <1>2, <1>3, <1>4 DEF Next

LEMMA IdentityStep ==
  ASSUME JournalInv, JournalInv', IdentityInv, [Next]_vars
  PROVE  IdentityInv'
<1>1. ReadersKept
  BY ReadersStep
<1>2. /\ Linked \in Int /\ Linked' \in Int /\ Linked <= Linked'
      /\ \A n \in Snapshots(dir)' : dir'[n].stamp <= Linked'
      /\ \/ Snapshots(dir)' = {}
         \/ /\ Snapshots(dir)' # {}
            /\ dir'[Newest(Snapshots(dir)')].stamp > Linked
         \/ /\ Snapshots(dir)' # {} /\ Snapshots(dir) # {}
            /\ dir'[Newest(Snapshots(dir)')] = dir[Newest(Snapshots(dir))]
            /\ Journal' = Journal
  BY NewestStep DEF IdentityInv
<1>3. Known \subseteq Known'
  BY <1>2 DEF Known, Ino
<1>4. chain' \in [Proc -> Seq(Known')]
  BY <1>1, <1>3 DEF ReadersKept
<1>5. \A p \in Proc : pc'[p] \in Waiting => expected'[p] \in Known' \cup {NoJournal}
  BY <1>1, <1>3 DEF ReadersKept, IdentityInv
<1>6. ASSUME NEW s \in Known, Spent(s.ino) \/ Journal' # Journal
      PROVE  Spent(s.ino)'
  <2>1. s.ino.stamp \in Int /\ s.ino.stamp <= Linked
    BY DEF Known, Ino
  <2>2. ASSUME NEW n \in Snapshots(dir)' PROVE dir'[n].stamp \in Int
    BY <2>2 DEF JournalInv, DirectoryOK, NamesOK, Snapshots, Ino
  <2>3. Snapshots(dir)' # {} => Newest(Snapshots(dir)') \in Snapshots(dir)'
    BY NewestIsOne DEF JournalInv
  <2> QED
    BY <1>2, <1>6, <2>1, <2>2, <2>3 DEF Spent
<1>7. ASSUME NEW p \in overtaken'
      PROVE  /\ p \in Proc
             /\ (pc[p] \in Waiting => expected[p] = NoJournal \/ Spent(expected[p].ino))'
  <2>1. p \in Proc
    BY <1>1, <1>7 DEF ReadersKept, IdentityInv
  <2>2. ASSUME pc'[p] \in Waiting, expected'[p] # NoJournal
        PROVE  Spent(expected[p].ino)'
    <3>1. pc[p] \in Waiting /\ expected'[p] = expected[p]
      BY <1>1, <1>7, <2>1, <2>2 DEF ReadersKept
    <3>2. expected[p] \in Known
      BY <2>1, <2>2, <3>1 DEF IdentityInv
    <3>3. Spent(expected[p].ino) \/ Journal' # Journal
      BY <1>1, <1>7, <2>2, <3>1 DEF ReadersKept, IdentityInv
    <3> QED
      BY <1>6, <3>1, <3>2, <3>3 DEF Spent
  <2> QED
    BY <2>1, <2>2
<1> QED
  BY <1>1, <1>2, <1>4, <1>5, <1>7 DEF IdentityInv, ReadersKept

LEMMA RecoversKnown == JournalInv /\ IdentityInv => RecoversWhatItRead
BY DEF JournalInv, LockOK, IdentityInv, RecoversWhatItRead, At, Waiting, UnderLock

LEMMA IdentityInvariant == Spec => []IdentityInv
<1>1. JournalInv /\ JournalInv' /\ IdentityInv /\ [Next]_vars => IdentityInv'
  BY IdentityStep
<1> QED
  BY <1>1, InitIdentityInv, JournalInvariant, PTL DEF Spec

\* complete and rollback go on only under the journal they have read: no
\* other was published, and none removed, since.
THEOREM RecoversOnlyWhatItRead == Spec => []RecoversWhatItRead
BY RecoversKnown, IdentityInvariant, JournalInvariant, PTL
-----------------------------------------------------------------------------
(***************************************************************************)
(* A read without the lock.  What a command sees of a snapshot was the     *)
(* journal during the read, unless the command has a newer name to read.   *)
(***************************************************************************)
Reading == {"stat", "read"}

\* What an inode at a snapshot's name tells of the journal.
JournalOf(i) == [txn |-> i.txn, seq |-> i.seq]

\* The snapshots in the listing that p works on.
Seen(p) == {n \in listed[p] \cup DOMAIN inventory[p] : n.kind = "snapshot"}

\* The inode i at the name n was the journal during the read, or the read has a
\* newer name.
Current(p, n, i) ==
  JournalOf(i) \in since[p] \/ \E m \in Seen(p) : m.seq > n.seq

InventoryOK(p) ==
  /\ \A n \in Seen(p) : n.seq \in Nat
  /\ Seen(p) = {} => NoJournal \in since[p]
  /\ \A n \in Snapshots(dir) : Current(p, n, dir[n])
  /\ \A n \in Snapshots(inventory[p]) :
       inventory[p][n].ino.seq = n.seq /\ Current(p, n, inventory[p][n].ino)

ChainOK(p) ==
  /\ \A i \in DOMAIN chain[p] :
       \E n \in Snapshots(inventory[p]) : chain[p][i] = inventory[p][n]
  /\ \A i \in DOMAIN chain[p] :
       chain[p][i].ino.seq <= chain[p][Len(chain[p])].ino.seq

ReaderOK(p) ==
  /\ pc[p] \notin Reading =>
       listed[p] = {} /\ inventory[p] = <<>> /\ chain[p] = <<>>
  /\ pc[p] \in Reading => InventoryOK(p) /\ ChainOK(p)
  /\ pc[p] = "stat" => chain[p] = <<>>
  /\ pc[p] = "read" => listed[p] = {}
  /\ \A n \in DOMAIN inventory[p] : inventory[p][n] \in Status
  /\ chain[p] \in Seq(Status)

ReadersKnown ==
  /\ DOMAIN listed = Proc /\ DOMAIN inventory = Proc
  /\ DOMAIN chain = Proc /\ DOMAIN since = Proc

ReadingInv == ReadersKnown /\ \A p \in Proc : ReaderOK(p)

\* p reads nothing.
Rests(p) == /\ pc[p] \notin Reading
            /\ listed[p] = {} /\ inventory[p] = <<>> /\ chain[p] = <<>>

\* A step of another command, for p.
Undisturbed(p) ==
  /\ pc'[p] = pc[p] /\ listed'[p] = listed[p] /\ inventory'[p] = inventory[p]
  /\ chain'[p] = chain[p] /\ since[p] \subseteq since'[p]

\* An inode is at one snapshot's name at most, and at one temporary's.
LEMMA OneOrTwoLinks ==
  ASSUME DirectoryOK(dir), NEW n \in DOMAIN dir
  PROVE  Lstat(n) \in Status
<1> DEFINE S == {m \in DOMAIN dir : dir[m] = dir[n]}
<1>1. \A m \in S : m \in Snapshots(dir) \/ m \in Temporaries(dir)
  BY DEF DirectoryOK, NamesOK, Snapshots, Temporaries, Snapshot, Temporary
<1>2. \A m, k \in S : m \in Snapshots(dir) /\ k \in Snapshots(dir) => m = k
  BY DEF DirectoryOK, NamesOK, Snapshots, Snapshot, Temporary
<1>3. \A m, k \in S : m \in Temporaries(dir) /\ k \in Temporaries(dir) => m = k
  BY DEF DirectoryOK
<1>4. n \in S
  OBVIOUS
<1>5. Cardinality(S) \in {1, 2}
  <2>1. CASE S = {n}
    BY <2>1, FS_Singleton
  <2>2. CASE S # {n}
    <3>1. PICK k \in S : k # n
      BY <2>2, <1>4
    <3>2. S = {n} \cup {k}
      BY <1>1, <1>2, <1>3, <1>4, <3>1
    <3>3. IsFiniteSet({n}) /\ Cardinality({n}) = 1
      BY FS_Singleton
    <3>4. Cardinality({n} \cup {k}) = 2
      BY <3>1, <3>3, FS_AddElement
    <3> QED
      BY <3>2, <3>4
  <2> QED
    BY <2>1, <2>2
<1>6. dir[n] \in Ino
  BY DEF DirectoryOK, NamesOK
<1> QED
  BY <1>5, <1>6 DEF Lstat, Links, Status

\* The newest snapshot is the journal, and the others have lower sequences.
LEMMA NewestIsJournal ==
  ASSUME DirectoryOK(dir), NEW n \in Snapshots(dir)
  PROVE  /\ n.seq \in Nat /\ dir[n].seq = n.seq
         /\ JournalOf(dir[n]) = Journal \/ \E m \in Snapshots(dir) : m.seq > n.seq
<1> USE LimitAssumption
<1>1. PICK lo, hi : IsRun(dir, lo, hi)
  BY DEF DirectoryOK
<1>2. NamesOK(dir) /\ lo \in Nat /\ hi \in Int
  BY <1>1 DEF DirectoryOK, IsRun, Sequence
<1>3. PICK s \in lo..hi : n = Snapshot(s)
  BY <1>1 DEF IsRun, Run
<1>4. /\ Snapshot(hi) \in Snapshots(dir)
      /\ Journal = [txn |-> dir[Snapshot(hi)].txn, seq |-> hi]
  BY <1>1, <1>2, <1>3, JournalOfRun DEF Journal
<1>5. n.seq = s /\ Snapshot(hi).seq = hi
  BY <1>3, KindsDiffer
<1>6. dir[n].seq = n.seq /\ dir[Snapshot(hi)].seq = hi
  BY <1>2, <1>4, <1>5 DEF NamesOK, Snapshots
<1>7. CASE s = hi
  BY <1>2, <1>3, <1>4, <1>5, <1>6, <1>7 DEF JournalOf
<1>8. CASE s < hi
  BY <1>2, <1>3, <1>4, <1>5, <1>6, <1>8
<1> QED
  BY <1>2, <1>3, <1>7, <1>8

\* A snapshot is where it was before a step, or is the journal after it and
\* the histories of the readers tell.
LEMMA SnapshotsStep ==
  ASSUME JournalInv, JournalInv', [Next]_vars
  PROVE  \A n \in Snapshots(dir)' :
           \/ n \in Snapshots(dir) /\ dir'[n] = dir[n]
           \/ JournalOf(dir'[n]) = Journal' /\ Recorded
<1> SUFFICES ASSUME NEW n \in Snapshots(dir)'
             PROVE  \/ n \in Snapshots(dir) /\ dir'[n] = dir[n]
                    \/ JournalOf(dir'[n]) = Journal' /\ Recorded
  OBVIOUS
<1>1. CASE dir' = dir
  BY <1>1
<1>2. ASSUME NEW t, dir' = Without(dir, t)
      PROVE  n \in Snapshots(dir) /\ dir'[n] = dir[n]
  BY <1>2 DEF Snapshots, Without
<1>3. ASSUME NEW p \in Proc, WriteTemporary(p)
      PROVE  n \in Snapshots(dir) /\ dir'[n] = dir[n]
  BY <1>3 DEF WriteTemporary, Place, With, Snapshots, Temporary
<1>4. ASSUME NEW p \in Proc, LinkTemporary(p)
      PROVE  \/ n \in Snapshots(dir) /\ dir'[n] = dir[n]
             \/ JournalOf(dir'[n]) = Journal' /\ Recorded
  <2>1. CASE n # Snapshot(NextSequence(p))
    BY <1>4, <2>1 DEF LinkTemporary, Place, With, Snapshots
  <2>2. CASE n = Snapshot(NextSequence(p))
    <3>1. Recorded /\ pc[p] = "link" /\ pc'[p] = "unlink temporary"
      BY <1>4 DEF LinkTemporary, Locked, At, Goto, JournalInv, LockOK
    <3>2. Temporaries(dir) = {Temporary(NextSequence(p), stamp)}
      BY <3>1 DEF JournalInv, PhaseOK
    <3>3. dir'[n] = [txn |-> TxnOf(p), seq |-> NextSequence(p), stamp |-> stamp]
      BY <1>4, <2>2, <3>1, <3>2, OwnTemporaryIs
         DEF LinkTemporary, Place, With, JournalInv, PhaseOK
    <3>4. Journal' = [txn |-> TxnOf(p), seq |-> NextSequence(p)]
      BY <1>4, LinkTemporaryStep DEF Successor, JournalInv
    <3>5. JournalOf(dir'[n]) = [txn |-> TxnOf(p), seq |-> NextSequence(p)]
      BY <3>3 DEF JournalOf
    <3> QED
      BY <3>1, <3>4, <3>5
  <2> QED
    BY <2>1, <2>2
<1>5. ASSUME NEW p \in Proc, RemoveSuperseded(p) \/ RemoveSnapshot(p)
      PROVE  n \in Snapshots(dir) /\ dir'[n] = dir[n]
  BY <1>2, <1>5 DEF RemoveSuperseded, RemoveSnapshot, Unlink
<1> QED
  BY <1>1, <1>2, <1>3, <1>4, <1>5, DiskStep

LEMMA EndRests ==
  ASSUME LockOK, ReadersKnown, NEW p \in Proc, End(p)
  PROVE  ReadersKnown' /\ Rests(p)' /\ \A q \in Proc \ {p} : Undisturbed(q)
<1>1. /\ pc' = [pc EXCEPT ![p] = "ended"]
      /\ listed' = [listed EXCEPT ![p] = {}]
      /\ inventory' = [inventory EXCEPT ![p] = <<>>]
      /\ chain' = [chain EXCEPT ![p] = <<>>]
      /\ since' = [since EXCEPT ![p] = {}]
  BY DEF End, Goto, Forget
<1>2. pc \in [Proc -> Pc]
  BY DEF LockOK
<1> QED
  BY <1>1, <1>2 DEF ReadersKnown, Rests, Undisturbed, Reading

\* A step of a command that does not read, or has read.
LEMMA WorkRests ==
  ASSUME LockOK, ReadingInv, NEW p \in Proc, NEW l,
         pc' = [pc EXCEPT ![p] = l], pc[p] \notin Reading, l \notin Reading,
         UNCHANGED reading, since' = since \/ Recorded
  PROVE  ReadersKnown' /\ Rests(p)' /\ \A q \in Proc \ {p} : Undisturbed(q)
<1>1. pc \in [Proc -> Pc]
  BY DEF LockOK
<1>2. ReadersKnown' /\ \A q \in Proc : since[q] \subseteq since'[q]
  BY DEF ReadingInv, ReadersKnown, Recorded, reading
<1>3. listed[p] = {} /\ inventory[p] = <<>> /\ chain[p] = <<>>
  BY DEF ReadingInv, ReaderOK
<1> QED
  BY <1>1, <1>2, <1>3 DEF Rests, Undisturbed, reading

\* What becomes of the readers when p moves.
LEMMA ReadersMove ==
  ASSUME JournalInv, ReadingInv, NEW p \in Proc, Step(p) \/ Fail(p) \/ LinkFails(p)
  PROVE  /\ ReadersKnown'
         /\ \A q \in Proc \ {p} : Undisturbed(q)
         /\ \/ Rests(p)'
            \/ /\ List(p) \/ Examine(p) \/ CheckLinks(p) \/ ReadSnapshot(p)
               /\ ~ End(p)
<1> DEFINE Moved == /\ ReadersKnown'
                    /\ \A q \in Proc \ {p} : Undisturbed(q)
                    /\ \/ Rests(p)'
                       \/ /\ List(p) \/ Examine(p) \/ CheckLinks(p) \/ ReadSnapshot(p)
                          /\ ~ End(p)
<1>0. LockOK /\ ReadersKnown /\ pc \in [Proc -> Pc]
  BY DEF JournalInv, LockOK, ReadingInv
<1>1. CASE End(p)
  BY <1>0, <1>1, EndRests
<1>2. CASE List(p) /\ ~ End(p)
  BY <1>0, <1>2 DEF List, Goto, At, ReadersKnown, Undisturbed
<1>3. CASE Examine(p) /\ ~ End(p)
  BY <1>0, <1>3 DEF Examine, At, history, ReadersKnown, Undisturbed
<1>4. CASE CheckLinks(p) /\ ~ End(p)
  BY <1>0, <1>4 DEF CheckLinks, Goto, At, reading, history, ReadersKnown, Undisturbed
<1>5. CASE ReadSnapshot(p) /\ ~ End(p)
  BY <1>0, <1>5 DEF ReadSnapshot, At, history, ReadersKnown, Undisturbed
<1>6. CASE UseJournal(p) /\ ~ End(p)
  <2>1. /\ pc' = [pc EXCEPT ![p] = "wait"]
        /\ listed' = [listed EXCEPT ![p] = {}]
        /\ inventory' = [inventory EXCEPT ![p] = <<>>]
        /\ chain' = [chain EXCEPT ![p] = <<>>]
        /\ since' = [since EXCEPT ![p] = {}]
    BY <1>6 DEF UseJournal, Goto, Forget
  <2> QED
    BY <1>0, <2>1 DEF ReadersKnown, Rests, Undisturbed, Reading
<1>7. ASSUME \/ Acquire(p) \/ Match(p) \/ Refuse(p) \/ Confirm(p) \/ ReadBack(p)
             \/ Work(p) \/ Finish(p) \/ Fail(p) \/ LinkFails(p),
             ~ End(p)
      PROVE  Moved
  <2>1. /\ pc[p] \notin Reading
        /\ \E l : pc' = [pc EXCEPT ![p] = l] /\ l \notin Reading
        /\ UNCHANGED reading /\ since' = since
    <3> USE <1>7 DEF Locked, At, Goto, Release, Reading, history
    <3>1. CASE Acquire(p)
      BY <3>1 DEF Acquire
    <3>2. CASE Match(p)
      BY <3>2 DEF Match
    <3>3. CASE Refuse(p)
      BY <3>3 DEF Refuse
    <3>4. CASE Confirm(p)
      <4>1. pc' = [pc EXCEPT ![p] = "write"]
        BY <3>4 DEF Confirm
      <4> QED
        BY <3>4, <4>1 DEF Confirm
    <3>5. CASE ReadBack(p)
      <4>1. pc' = [pc EXCEPT ![p] = "work"]
        BY <3>5 DEF ReadBack
      <4> QED
        BY <3>5, <4>1 DEF ReadBack
    <3>6. CASE Work(p)
      BY <3>6 DEF Work
    <3>7. CASE Finish(p)
      BY <3>7 DEF Finish
    <3>8. CASE Fail(p)
      BY <3>8 DEF Fail
    <3>9. CASE LinkFails(p)
      BY <3>9 DEF LinkFails
    <3> QED
      BY <1>7, <3>1, <3>2, <3>3, <3>4, <3>5, <3>6, <3>7, <3>8, <3>9
  <2> QED
    BY <1>0, <2>1, WorkRests
<1>8. ASSUME \/ CleanTemporary(p) \/ WriteTemporary(p) \/ LinkTemporary(p)
             \/ UnlinkTemporary(p) \/ RemoveSuperseded(p) \/ RemoveSnapshot(p)
      PROVE  Moved
  <2>1. /\ pc[p] \notin Reading
        /\ \E l : pc' = [pc EXCEPT ![p] = l] /\ l \notin Reading
        /\ UNCHANGED reading /\ Recorded
    <3> USE <1>0 DEF Locked, At, Goto, Reading, reading
    <3>1. CASE CleanTemporary(p)
      <4>1. pc' = [pc EXCEPT ![p] = "publish"]
        BY <3>1 DEF CleanTemporary
      <4> QED
        BY <3>1, <4>1 DEF CleanTemporary
    <3>2. CASE WriteTemporary(p)
      <4>1. pc' = [pc EXCEPT ![p] = "link"]
        BY <3>2 DEF WriteTemporary
      <4> QED
        BY <3>2, <4>1 DEF WriteTemporary
    <3>3. CASE LinkTemporary(p)
      <4>1. pc' = [pc EXCEPT ![p] = "unlink temporary"]
        BY <3>3 DEF LinkTemporary
      <4> QED
        BY <3>3, <4>1 DEF LinkTemporary
    <3>4. CASE UnlinkTemporary(p)
      <4>1. pc' = [pc EXCEPT ![p] = "supersede"]
        BY <3>4 DEF UnlinkTemporary
      <4> QED
        BY <3>4, <4>1 DEF UnlinkTemporary
    <3>5. CASE RemoveSuperseded(p)
      <4>1. pc' = [pc EXCEPT ![p] = "supersede"]
        BY <3>5 DEF RemoveSuperseded
      <4> QED
        BY <3>5, <4>1 DEF RemoveSuperseded
    <3>6. CASE RemoveSnapshot(p)
      <4>1. pc' = [pc EXCEPT ![p] = "remove"]
        BY <3>6 DEF RemoveSnapshot
      <4> QED
        BY <3>6, <4>1 DEF RemoveSnapshot
    <3> QED
      BY <1>8, <3>1, <3>2, <3>3, <3>4, <3>5, <3>6
  <2> QED
    BY <1>0, <2>1, WorkRests
<1> QED
  BY <1>1, <1>2, <1>3, <1>4, <1>5, <1>6, <1>7, <1>8 DEF Step

LEMMA RestsIsOK == ASSUME NEW p \in Proc, Rests(p)' PROVE ReaderOK(p)'
<1>1. /\ pc'[p] \notin Reading /\ inventory'[p] = <<>>
      /\ listed'[p] = {} /\ chain'[p] = <<>>
  BY DEF Rests
<1>2. DOMAIN inventory'[p] = {} /\ <<>> \in Seq(Status)
  BY <1>1
<1>3. chain'[p] \in Seq(Status)
  BY <1>1, <1>2
<1> QED
  BY <1>1, <1>2, <1>3 DEF ReaderOK, Reading

\* A step of others publishes what the histories tell, or publishes nothing.
LEMMA UndisturbedIsOK ==
  ASSUME NEW p \in Proc, ReaderOK(p), Undisturbed(p),
         \A n \in Snapshots(dir)' :
           \/ n \in Snapshots(dir) /\ dir'[n] = dir[n]
           \/ JournalOf(dir'[n]) = Journal' /\ Recorded
  PROVE  ReaderOK(p)'
<1>1. /\ pc'[p] = pc[p] /\ listed'[p] = listed[p] /\ inventory'[p] = inventory[p]
      /\ chain'[p] = chain[p] /\ since[p] \subseteq since'[p]
  BY DEF Undisturbed
<1>2. Seen(p)' = Seen(p)
  BY <1>1 DEF Seen
<1>3. \A n, i : Current(p, n, i) => Current(p, n, i)'
  BY <1>1, <1>2 DEF Current
<1>4. ASSUME pc[p] \in Reading PROVE InventoryOK(p)'
  <2>1. InventoryOK(p)
    BY <1>4 DEF ReaderOK
  <2>2. ASSUME NEW n \in Snapshots(dir)' PROVE Current(p, n, dir[n])'
    <3>1. CASE n \in Snapshots(dir) /\ dir'[n] = dir[n]
      BY <1>3, <2>1, <3>1 DEF InventoryOK
    <3>2. CASE JournalOf(dir'[n]) = Journal' /\ Recorded
      BY <1>4, <3>2 DEF Recorded, Reading, Current
    <3> QED
      BY <2>2, <3>1, <3>2
  <2>3. ASSUME NEW n \in Snapshots(inventory[p])
        PROVE  /\ inventory[p][n].ino.seq = n.seq
               /\ Current(p, n, inventory[p][n].ino)'
    BY <1>1, <1>3, <2>1 DEF InventoryOK
  <2> QED
    BY <1>1, <1>2, <2>1, <2>2, <2>3 DEF InventoryOK
<1>5. ChainOK(p) => ChainOK(p)'
  BY <1>1 DEF ChainOK
<1> QED
  BY <1>1, <1>4, <1>5 DEF ReaderOK

LEMMA ListIsOK ==
  ASSUME JournalInv, ReadingInv, NEW p \in Proc, List(p)
  PROVE  ReaderOK(p)'
<1>1. /\ pc'[p] = "stat" /\ listed'[p] = DOMAIN dir /\ since'[p] = {Journal}
      /\ inventory'[p] = <<>> /\ chain'[p] = <<>> /\ dir' = dir
  <2>1. pc[p] \notin Reading
    BY DEF List, At, Reading
  <2> QED
    BY <2>1 DEF List, Goto, ReadingInv, ReadersKnown, ReaderOK, JournalInv, LockOK, disk
<1>2. DOMAIN inventory'[p] = {} /\ Snapshots(inventory[p])' = {}
  BY <1>1 DEF Snapshots
<1>3. Seen(p)' = Snapshots(dir)
  BY <1>1, <1>2 DEF Seen, Snapshots
<1>4. DirectoryOK(dir)
  BY DEF JournalInv
<1>5. \A n \in Snapshots(dir) : n.seq \in Nat /\ Current(p, n, dir[n])'
  BY <1>1, <1>3, <1>4, NewestIsJournal DEF Current
<1>6. Snapshots(dir) = {} => NoJournal \in since'[p]
  BY <1>1 DEF Journal, JournalIn
<1>7. InventoryOK(p)'
  BY <1>1, <1>2, <1>3, <1>5, <1>6 DEF InventoryOK
<1>8. ChainOK(p)'
  BY <1>1 DEF ChainOK
<1>9. <<>> \in Seq(Status)
  OBVIOUS
<1> QED
  BY <1>1, <1>2, <1>7, <1>8, <1>9 DEF ReaderOK, Reading

\* A name that is examined has the inode that the directory has.
LEMMA ExamineIsOK ==
  ASSUME JournalInv, ReadingInv, NEW p \in Proc, Examine(p), ~ End(p)
  PROVE  ReaderOK(p)'
<1>1. PICK n \in listed[p] :
        /\ n \in DOMAIN dir
        /\ listed' = [listed EXCEPT ![p] = @ \ {n}]
        /\ inventory' = [inventory EXCEPT ![p] = With(@, n, Lstat(n))]
        /\ UNCHANGED <<pc, chain, since>>
  BY DEF Examine, history
<1>2. pc[p] = "stat" /\ dir' = dir
  BY DEF Examine, At, disk
<1>3. /\ listed'[p] = listed[p] \ {n}
      /\ inventory'[p] = With(inventory[p], n, Lstat(n))
      /\ pc'[p] = "stat" /\ chain'[p] = chain[p] /\ since'[p] = since[p]
  BY <1>1, <1>2 DEF ReadingInv, ReadersKnown
<1>4. /\ DOMAIN inventory'[p] = DOMAIN inventory[p] \cup {n}
      /\ inventory'[p][n] = Lstat(n)
      /\ \A m \in DOMAIN inventory[p] : m # n => inventory'[p][m] = inventory[p][m]
  BY <1>3 DEF With
<1>5. Seen(p)' = Seen(p)
  BY <1>1, <1>3, <1>4 DEF Seen
<1>6. \A m, i : Current(p, m, i)' <=> Current(p, m, i)
  BY <1>3, <1>5 DEF Current
<1>7. ReaderOK(p) /\ InventoryOK(p) /\ chain[p] = <<>>
  BY <1>2 DEF ReadingInv, ReaderOK, Reading
<1>8. Lstat(n) \in Status
  BY <1>1, OneOrTwoLinks DEF JournalInv
<1>9. ASSUME NEW m \in Snapshots(inventory[p])'
      PROVE  inventory'[p][m].ino.seq = m.seq /\ Current(p, m, inventory[p][m].ino)'
  <2>1. CASE m = n
    <3>1. n \in Snapshots(dir)
      BY <1>1, <1>9, <2>1 DEF Snapshots
    <3>2. Lstat(n).ino = dir[n] /\ dir[n].seq = n.seq
      BY <3>1, NewestIsJournal DEF Lstat, JournalInv
    <3> QED
      BY <1>4, <1>6, <1>7, <2>1, <3>1, <3>2 DEF InventoryOK
  <2>2. CASE m # n
    <3>1. m \in Snapshots(inventory[p]) /\ inventory'[p][m] = inventory[p][m]
      BY <1>4, <1>9, <2>2 DEF Snapshots
    <3> QED
      BY <1>6, <1>7, <3>1 DEF InventoryOK
  <2> QED
    BY <2>1, <2>2
<1>10. InventoryOK(p)'
  BY <1>2, <1>3, <1>5, <1>6, <1>7, <1>9 DEF InventoryOK
<1>11. ChainOK(p)'
  BY <1>3, <1>7 DEF ChainOK
<1>12. \A m \in DOMAIN inventory'[p] : inventory'[p][m] \in Status
  BY <1>4, <1>7, <1>8 DEF ReaderOK
<1> QED
  BY <1>3, <1>7, <1>10, <1>11, <1>12 DEF ReaderOK, Reading

LEMMA CheckLinksIsOK ==
  ASSUME JournalInv, ReadingInv, NEW p \in Proc, CheckLinks(p), ~ End(p)
  PROVE  ReaderOK(p)'
<1>1. /\ pc[p] = "stat" /\ listed[p] = {} /\ pc'[p] = "read" /\ dir' = dir
      /\ UNCHANGED <<listed, inventory, chain, since>>
  BY DEF CheckLinks, At, Goto, JournalInv, LockOK, disk, reading, history
<1>2. ReaderOK(p) /\ InventoryOK(p) /\ ChainOK(p)
  BY <1>1 DEF ReadingInv, ReaderOK, Reading
<1>3. Seen(p)' = Seen(p) /\ \A m, i : Current(p, m, i)' <=> Current(p, m, i)
  BY <1>1 DEF Seen, Current
<1>4. InventoryOK(p)'
  BY <1>1, <1>2, <1>3 DEF InventoryOK
<1>5. ChainOK(p)'
  BY <1>1, <1>2 DEF ChainOK
<1> QED
  BY <1>1, <1>2, <1>4, <1>5 DEF ReaderOK, Reading

\* A snapshot that is read is the one that was examined, and has the next
\* sequence.
LEMMA ReadSnapshotIsOK ==
  ASSUME JournalInv, ReadingInv, NEW p \in Proc, ReadSnapshot(p), ~ End(p)
  PROVE  ReaderOK(p)'
<1>1. PICK n \in Unread(p) :
        /\ n \in DOMAIN dir
        /\ Lstat(n) = inventory[p][n]
        /\ Follows(chain[p], n, dir[n])
        /\ chain' = [chain EXCEPT ![p] = Append(@, Lstat(n))]
        /\ UNCHANGED <<pc, listed, inventory, since>>
  BY DEF ReadSnapshot, history, SameJournalIdentity
<1>2. pc[p] = "read" /\ dir' = dir
  BY DEF ReadSnapshot, At, disk
<1>3. chain'[p] = Append(chain[p], Lstat(n))
  BY <1>1 DEF ReadingInv, ReadersKnown
<1>4. ReaderOK(p) /\ InventoryOK(p) /\ ChainOK(p)
  BY <1>2 DEF ReadingInv, ReaderOK, Reading
<1>5. n \in Snapshots(inventory[p]) /\ n \in Snapshots(dir)
  BY <1>1 DEF Unread, Snapshots
<1>6. Lstat(n).ino = dir[n] /\ dir[n].seq \in Nat
  BY <1>5, NewestIsJournal DEF Lstat, JournalInv
<1> DEFINE c == chain[p]  d == chain'[p]
<1>7. /\ c \in Seq(Status) /\ d = Append(c, Lstat(n)) /\ Lstat(n) \in Status
  BY <1>1, <1>3, <1>4, OneOrTwoLinks DEF ReaderOK, JournalInv
<1>8. c # <<>> => dir[n].seq = c[Len(c)].ino.seq + 1
  BY <1>1 DEF Follows
<1>9. /\ \A i \in DOMAIN c : \E m \in Snapshots(inventory[p]) : c[i] = inventory[p][m]
      /\ \A i \in DOMAIN c : c[i].ino.seq <= c[Len(c)].ino.seq
  BY <1>4 DEF ChainOK
<1> HIDE DEF c, d
<1>10. /\ Len(c) \in Nat /\ DOMAIN c = 1..Len(c) /\ (c = <<>> <=> Len(c) = 0)
       /\ \A i \in DOMAIN c : c[i] \in Status
       /\ Len(d) = Len(c) + 1 /\ DOMAIN d = 1..Len(c) + 1 /\ d \in Seq(Status)
       /\ \A i \in DOMAIN c : d[i] = c[i]
       /\ d[Len(c) + 1] = Lstat(n)
  <2>1. Len(c) \in Nat /\ DOMAIN c = 1..Len(c) /\ (c = <<>> <=> Len(c) = 0)
    BY <1>7
  <2>2. \A i \in DOMAIN c : c[i] \in Status
    BY <1>7
  <2>3. Len(d) = Len(c) + 1 /\ DOMAIN d = 1..Len(c) + 1 /\ d \in Seq(Status)
    BY <1>7
  <2>4. /\ \A i \in DOMAIN c : d[i] = c[i]
        /\ d[Len(c) + 1] = Lstat(n)
    BY <1>7
  <2> QED
    BY <2>1, <2>2, <2>3, <2>4
<1>11. \A i \in DOMAIN d : \E m \in Snapshots(inventory[p]) : d[i] = inventory[p][m]
  BY <1>1, <1>5, <1>9, <1>10
<1>12. ASSUME NEW i \in DOMAIN d PROVE d[i].ino.seq <= d[Len(d)].ino.seq
  <2>1. d[Len(d)].ino.seq = dir[n].seq
    BY <1>6, <1>10
  <2>2. CASE i = Len(d)
    BY <1>6, <2>1, <2>2
  <2>3. CASE i # Len(d)
    <3>1. i \in DOMAIN c /\ c # <<>> /\ d[i] = c[i]
      BY <1>10, <2>3
    <3>2. Len(c) \in DOMAIN c
      BY <1>10, <3>1
    <3>3. c[i].ino.seq \in Nat /\ c[Len(c)].ino.seq \in Nat
      BY <1>10, <3>1, <3>2 DEF Status, Ino
    <3> QED
      BY <1>8, <1>9, <2>1, <3>1, <3>3
  <2> QED
    BY <2>2, <2>3
<1>13. /\ pc'[p] = pc[p] /\ listed'[p] = listed[p] /\ inventory'[p] = inventory[p]
       /\ since'[p] = since[p]
  BY <1>1
<1>14. ChainOK(p)'
  BY <1>11, <1>12, <1>13 DEF ChainOK, d
<1>15. Seen(p)' = Seen(p) /\ \A m, i : Current(p, m, i)' <=> Current(p, m, i)
  BY <1>13 DEF Seen, Current
<1>16. InventoryOK(p)'
  BY <1>2, <1>4, <1>13, <1>15 DEF InventoryOK
<1>17. chain'[p] \in Seq(Status)
  BY <1>10 DEF d
<1> QED
  BY <1>2, <1>4, <1>13, <1>14, <1>16, <1>17 DEF ReaderOK, Reading

LEMMA ReadingStepsAreOK ==
  ASSUME JournalInv, JournalInv', ReadingInv, [Next]_vars
  PROVE  ReadingInv'
<1>1. ASSUME NEW q \in Proc, Undisturbed(q) PROVE ReaderOK(q)'
  <2>1. ReaderOK(q)
    BY DEF ReadingInv
  <2> QED
    BY <1>1, <2>1, SnapshotsStep, UndisturbedIsOK
<1>2. CASE UNCHANGED vars
  <2>1. ReadersKnown' /\ \A q \in Proc : Undisturbed(q)
    BY <1>2 DEF vars, reading, history, ReadingInv, ReadersKnown, Undisturbed
  <2> QED
    BY <1>1, <2>1 DEF ReadingInv
<1>3. ASSUME NEW p \in Proc, Step(p) \/ Fail(p) \/ LinkFails(p) PROVE ReadingInv'
  <2>1. ReadersKnown' /\ \A q \in Proc \ {p} : Undisturbed(q)
    BY <1>3, ReadersMove
  <2>2. CASE Rests(p)'
    BY <2>2, RestsIsOK, <1>1, <2>1 DEF ReadingInv
  <2>3. CASE List(p)
    BY <2>3, ListIsOK, <1>1, <2>1 DEF ReadingInv
  <2>4. CASE Examine(p) /\ ~ End(p)
    BY <2>4, ExamineIsOK, <1>1, <2>1 DEF ReadingInv
  <2>5. CASE CheckLinks(p) /\ ~ End(p)
    BY <2>5, CheckLinksIsOK, <1>1, <2>1 DEF ReadingInv
  <2>6. CASE ReadSnapshot(p) /\ ~ End(p)
    BY <2>6, ReadSnapshotIsOK, <1>1, <2>1 DEF ReadingInv
  <2> QED
    BY <1>3, <2>2, <2>3, <2>4, <2>5, <2>6, ReadersMove
<1>4. CASE ManualRecovery
  <2>1. ReadersKnown' /\ \A q \in Proc : Undisturbed(q)
    BY <1>4 DEF ManualRecovery, Recorded, reading, ReadingInv, ReadersKnown, Undisturbed
  <2> QED
    BY <1>1, <2>1 DEF ReadingInv
<1> QED
  BY <1>2, <1>3, <1>4 DEF Next

LEMMA InitReadingInv == Init => ReadingInv
<1> SUFFICES ASSUME Init PROVE ReadingInv
  OBVIOUS
<1>1. <<>> \in Seq(Status) /\ DOMAIN <<>> = {}
  OBVIOUS
<1> QED
  BY <1>1 DEF Init, ReadingInv, ReadersKnown, ReaderOK, Reading

\* What commands read without the lock, and how: the invariant of the readers.
LEMMA ReadersInvariant == Spec => []ReadingInv
<1>1. JournalInv /\ JournalInv' /\ ReadingInv /\ [Next]_vars => ReadingInv'
  BY ReadingStepsAreOK
<1> QED
  BY <1>1, InitReadingInv, JournalInvariant, PTL DEF Spec

LEMMA ReadIsCurrent == ReadingInv => ReadsAreCurrent
<1> SUFFICES ASSUME ReadingInv, NEW p \in Proc, pc[p] = "read", Unread(p) = {}
             PROVE  LET latest == LatestOf(chain[p])
                    IN (IF latest = NoJournal THEN NoJournal
                        ELSE JournalOf(latest.ino)) \in since[p]
  BY DEF ReadsAreCurrent, At, JournalOf
<1>1. ReaderOK(p) /\ InventoryOK(p) /\ ChainOK(p) /\ listed[p] = {}
  BY DEF ReadingInv, ReaderOK, Reading
<1>2. Seen(p) = Snapshots(inventory[p])
  BY <1>1 DEF Seen, Snapshots
<1> DEFINE c == chain[p]
<1>3. c \in Seq(Status)
  BY <1>1 DEF ReaderOK
<1>4. \A n \in Seen(p) : \E i \in DOMAIN c : c[i].ino.seq = n.seq
  BY <1>2 DEF Unread
<1>5. CASE c = <<>>
  <2>1. DOMAIN c = {}
    BY <1>5
  <2>2. Seen(p) = {}
    BY <1>4, <2>1
  <2> QED
    BY <1>1, <1>5, <2>2 DEF LatestOf, InventoryOK
<1>6. CASE c # <<>>
  <2> DEFINE last == c[Len(c)]
  <2>1. Len(c) \in DOMAIN c /\ \A i \in DOMAIN c : c[i] \in Status
    BY <1>3, <1>6
  <2>2. PICK n \in Snapshots(inventory[p]) : last = inventory[p][n]
    BY <1>1, <2>1 DEF ChainOK
  <2>3. last.ino.seq = n.seq /\ Current(p, n, last.ino)
    BY <1>1, <2>2 DEF InventoryOK
  <2>4. ~ \E m \in Seen(p) : m.seq > n.seq
    <3> SUFFICES ASSUME NEW m \in Seen(p), m.seq > n.seq PROVE FALSE
      OBVIOUS
    <3>1. PICK i \in DOMAIN c : c[i].ino.seq = m.seq
      BY <1>4
    <3>2. c[i].ino.seq <= last.ino.seq
      BY <1>1 DEF ChainOK
    <3>3. m.seq \in Nat /\ n.seq \in Nat
      BY <1>1, <1>2, <2>2 DEF InventoryOK
    <3> QED
      BY <2>3, <3>1, <3>2, <3>3
  <2>5. JournalOf(last.ino) \in since[p]
    BY <2>3, <2>4 DEF Current
  <2>6. LatestOf(c) = last /\ last # NoJournal
    <3>1. last \in [ino : Ino, links : Nat]
      BY <2>1 DEF Status
    <3> QED
      BY <1>6, <3>1, NoJournalAssumption DEF LatestOf
  <2> QED
    BY <2>5, <2>6
<1> QED
  BY <1>5, <1>6

\* A read without the lock returns a journal that was there at some moment of
\* the read, whatever is published, superseded or removed between its readdir,
\* its lstats and its readFiles.
THEOREM ReadsTellTheJournal == Spec => []ReadsAreCurrent
BY ReadersInvariant, ReadIsCurrent, PTL
-----------------------------------------------------------------------------
(***************************************************************************)
(* Types.                                                                  *)
(***************************************************************************)
StampsOK == \A n \in DOMAIN dir : n.uuid <= stamp /\ dir[n].stamp <= stamp

BindingsOK == \A p \in Proc : expected[p] \in Status \cup {NoJournal}

LEMMA StampsStep ==
  ASSUME JournalInv, StampsOK, [Next]_vars
  PROVE  StampsOK'
<1> USE DEF JournalInv, DirectoryOK, NamesOK, Ino
<1>1. CASE dir' = dir /\ stamp' = stamp
  BY <1>1 DEF StampsOK
<1>2. ASSUME NEW n, dir' = Without(dir, n), stamp' = stamp PROVE StampsOK'
  BY <1>2 DEF StampsOK, Without
<1>3. ASSUME NEW p \in Proc, WriteTemporary(p) PROVE StampsOK'
  BY <1>3 DEF WriteTemporary, Place, With, Temporary, StampsOK
<1>4. ASSUME NEW p \in Proc, LinkTemporary(p) PROVE StampsOK'
  <2>1. pc[p] = "link" /\ stamp' = stamp
        /\ dir' = With(dir, Snapshot(NextSequence(p)), dir[OwnTemporary])
    BY <1>4 DEF LinkTemporary, Locked, At, Place
  <2>2. Temporaries(dir) = {Temporary(NextSequence(p), stamp)}
    BY <2>1 DEF PhaseOK
  <2>3. OwnTemporary \in DOMAIN dir
    BY <2>2, OwnTemporaryIs DEF Temporaries
  <2> QED
    BY <2>1, <2>3 DEF With, Snapshot, StampsOK
<1>5. ASSUME NEW p \in Proc, RemoveSuperseded(p) \/ RemoveSnapshot(p) PROVE StampsOK'
  BY <1>2, <1>5 DEF RemoveSuperseded, RemoveSnapshot, Unlink
<1> QED
  BY <1>1, <1>2, <1>3, <1>4, <1>5, DiskStep

LEMMA LatestType ==
  ASSUME DirectoryOK(dir)
  PROVE  /\ Latest \in Status \cup {NoJournal}
         /\ Snapshots(dir) # {} => Latest \in Status
<1>1. CASE Snapshots(dir) = {}
  BY <1>1 DEF Latest
<1>2. CASE Snapshots(dir) # {}
  BY <1>2, NewestIsOne, OneOrTwoLinks DEF Latest, Snapshots
<1> QED
  BY <1>1, <1>2

\* A directory with a temporary is readable only if the temporary is a link to
\* a snapshot.
LEMMA ReadableTemporary ==
  ASSUME Readable, Temporaries(dir) # {} PROVE Snapshots(dir) # {}
<1>1. DOMAIN Present = DOMAIN dir
  BY DEF Present
<1>2. PICK t \in Temporaries(Present) : TRUE
  BY <1>1 DEF Temporaries
<1>3. Cardinality({n \in Snapshots(Present) : Owned(Present, t, n)}) = 1
  BY <1>2 DEF Readable, SafeLinks
<1>4. {n \in Snapshots(Present) : Owned(Present, t, n)} # {}
  BY <1>3, FS_EmptySet
<1> QED
  BY <1>1, <1>4 DEF Snapshots

LEMMA BindingsStep ==
  ASSUME JournalInv, ReadingInv, BindingsOK, [Next]_vars
  PROVE  BindingsOK'
<1> USE DEF BindingsOK
<1>1. ASSUME NEW p \in Proc, End(p) PROVE BindingsOK'
  BY <1>1 DEF End, JournalInv, LockOK
<1>2. CASE UNCHANGED expected
  BY <1>2
<1>3. ASSUME NEW p \in Proc, UseJournal(p) PROVE BindingsOK'
  <2>1. CASE End(p)
    BY <1>1, <2>1
  <2>2. CASE ~ End(p)
    <3>1. chain[p] \in Seq(Status)
      BY DEF ReadingInv, ReaderOK
    <3>2. LatestOf(chain[p]) \in Status \cup {NoJournal}
      BY <3>1 DEF LatestOf
    <3> QED
      BY <1>3, <2>2, <3>2 DEF UseJournal, JournalInv, LockOK
  <2> QED
    BY <2>1, <2>2
<1>4. ASSUME NEW p \in Proc, CleanTemporary(p) PROVE BindingsOK'
  <2>1. /\ Readable /\ Latest = expected[p] /\ Temporaries(dir) # {}
        /\ expected' = [expected EXCEPT ![p].links = 1]
    BY <1>4 DEF CleanTemporary, Publishable
  <2>2. expected[p] \in Status
    BY <2>1, ReadableTemporary, LatestType DEF JournalInv
  <2>3. [expected[p] EXCEPT !.links = 1] \in Status
    BY <2>2 DEF Status
  <2> QED
    BY <2>1, <2>3 DEF JournalInv, LockOK
<1>5. ASSUME NEW p \in Proc, ReadBack(p) PROVE BindingsOK'
  BY <1>5, LatestType DEF ReadBack, JournalInv, LockOK
<1>6. ASSUME NEW p \in Proc, Step(p) \/ Fail(p) \/ LinkFails(p) PROVE BindingsOK'
  <2>1. \/ UNCHANGED expected \/ End(p) \/ UseJournal(p) \/ CleanTemporary(p)
        \/ ReadBack(p)
    <3> USE DEF Release
    <3>1. CASE List(p) \/ Examine(p) \/ CheckLinks(p) \/ ReadSnapshot(p)
      BY <3>1 DEF List, Examine, CheckLinks, ReadSnapshot
    <3>2. CASE Acquire(p) \/ Match(p) \/ Refuse(p) \/ Confirm(p)
      BY <3>2 DEF Acquire, Match, Refuse, Confirm
    <3>3. CASE WriteTemporary(p) \/ LinkTemporary(p) \/ UnlinkTemporary(p)
      BY <3>3 DEF WriteTemporary, LinkTemporary, UnlinkTemporary
    <3>4. CASE RemoveSuperseded(p) \/ Work(p) \/ RemoveSnapshot(p) \/ Finish(p)
      BY <3>4 DEF RemoveSuperseded, Work, RemoveSnapshot, Finish
    <3>5. CASE Fail(p) \/ LinkFails(p)
      BY <3>5 DEF Fail, LinkFails
    <3> QED
      BY <1>6, <3>1, <3>2, <3>3, <3>4, <3>5 DEF Step
  <2> QED
    BY <1>1, <1>2, <1>3, <1>4, <1>5, <1>6, <2>1
<1> QED
  BY <1>2, <1>6 DEF Next, vars, ManualRecovery

FaultsOK == faults \in 0..MaxFaults

LEMMA FaultsStep == ASSUME FaultsOK, [Next]_vars PROVE FaultsOK'
<1> USE LimitAssumption DEF FaultsOK
<1>1. \/ UNCHANGED faults
      \/ faults < MaxFaults /\ faults' = faults + 1
  <2>1. ASSUME NEW p \in Proc, Step(p) PROVE UNCHANGED faults
    <3>1. CASE List(p) \/ Examine(p) \/ CheckLinks(p) \/ ReadSnapshot(p)
      BY <3>1 DEF List, Examine, CheckLinks, ReadSnapshot
    <3>2. CASE UseJournal(p) \/ Acquire(p) \/ Match(p) \/ Refuse(p) \/ Confirm(p)
      BY <3>2 DEF UseJournal, Acquire, Match, Refuse, Confirm
    <3>3. CASE \/ CleanTemporary(p) \/ WriteTemporary(p) \/ LinkTemporary(p)
               \/ UnlinkTemporary(p)
      BY <3>3 DEF CleanTemporary, WriteTemporary, LinkTemporary, UnlinkTemporary
    <3>4. CASE \/ RemoveSuperseded(p) \/ ReadBack(p) \/ Work(p)
               \/ RemoveSnapshot(p) \/ Finish(p)
      BY <3>4 DEF RemoveSuperseded, ReadBack, Work, RemoveSnapshot, Finish
    <3> QED
      BY <2>1, <3>1, <3>2, <3>3, <3>4 DEF Step
  <2> QED
    BY <2>1 DEF Next, vars, Fail, LinkFails, ManualRecovery
<1> QED
  BY <1>1

LEMMA TypesOf ==
  ASSUME JournalInv, IdentityInv, ReadingInv, StampsOK, BindingsOK, FaultsOK
  PROVE  TypeOK
<1>1. ASSUME NEW n \in DOMAIN dir
      PROVE  /\ n \in [kind : {"snapshot", "temporary"}, seq : 0..MaxSequence,
                       uuid : 0..stamp]
             /\ dir[n] \in Ino /\ dir[n].seq = n.seq /\ dir[n].stamp <= stamp
  <2>1. /\ n = Snapshot(n.seq) \/ n = Temporary(n.seq, n.uuid)
        /\ n.seq \in 0..MaxSequence /\ n.uuid \in Nat /\ stamp \in Nat
        /\ dir[n] \in Ino /\ dir[n].seq = n.seq
    BY DEF JournalInv, DirectoryOK, NamesOK, Sequence
  <2>2. n.uuid \in 0..stamp
    BY <2>1 DEF StampsOK
  <2> QED
    BY <2>1, <2>2 DEF Snapshot, Temporary, StampsOK
<1>2. holder \in Proc \cup {Nobody} /\ pc \in [Proc -> Pc]
  BY DEF JournalInv, LockOK
<1>3. \A p \in Proc : \A n \in DOMAIN inventory[p] : inventory[p][n] \in Status
  BY DEF ReadingInv, ReaderOK
<1>4. overtaken \subseteq Proc
  BY DEF IdentityInv
<1> QED
  BY <1>1, <1>2, <1>3, <1>4 DEF TypeOK, BindingsOK, FaultsOK

LEMMA InitTypes == Init => StampsOK /\ BindingsOK /\ FaultsOK
BY LimitAssumption DEF Init, StampsOK, BindingsOK, FaultsOK

\* Every variable keeps its type: every name in the journal directory carries
\* the sequence of the bytes at it, what a command saw of a file has one or two
\* links, and it is bound to such a file or to none.
THEOREM TypeCorrect == Spec => []TypeOK
<1>1. JournalInv /\ StampsOK /\ [Next]_vars => StampsOK'
  BY StampsStep
<1>2. JournalInv /\ ReadingInv /\ BindingsOK /\ [Next]_vars => BindingsOK'
  BY BindingsStep
<1>3. FaultsOK /\ [Next]_vars => FaultsOK'
  BY FaultsStep
<1>4. JournalInv /\ IdentityInv /\ ReadingInv /\ StampsOK /\ BindingsOK /\ FaultsOK
        => TypeOK
  BY TypesOf
<1> QED
  BY <1>1, <1>2, <1>3, <1>4, InitTypes, JournalInvariant, IdentityInvariant,
     ReadersInvariant, PTL DEF Spec
=============================================================================
