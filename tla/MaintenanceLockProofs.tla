------------------------ MODULE MaintenanceLockProofs ------------------------
(***************************************************************************)
(* Mutual exclusion of the maintenance lock, for any number of processes   *)
(* and any reuse of their pids.                                            *)
(***************************************************************************)
EXTENDS MaintenanceLock, FiniteSetTheorems, TLAPS

\* Between the creation of its lock file and the end of its release.
Owning == {"write", "drop claim", "undo", "verify", "critical", "release",
           "unlink own"}

OwnerHasLockFile ==
  \A p \in live : pc[p] \in Owning => lockFile = p

\* The stale lock that a reclaimer is about to unlink is still the one it
\* claimed, and its owner is dead and does not come back.
StaleLockIsDead ==
  \A p \in live : pc[p] = "unlink stale" =>
    lockFile = stale[p] /\ stale[p] \notin live

\* p has linked the claim of stale[p] and has not unlinked it.
Claiming(p) ==
  /\ p \in live
  /\ stale[p] # None
  /\ pc[p] \in {"check", "unlink stale", "create", "write", "drop claim",
                "abandon claim"}

\* A claim is there as long as its claimer needs it, so it has only one.
ClaimIsExclusive ==
  /\ \A p \in Proc : Claiming(p) => claim[stale[p]] # None
  /\ \A p, q \in Proc : Claiming(p) /\ Claiming(q) /\ p # q => stale[p] # stale[q]

StaleIsKnown ==
  \A p \in Proc :
    /\ pc[p] = "new" => stale[p] = None
    /\ pc[p] \in {"probe", "claim", "check", "unlink stale", "drop claim",
                  "abandon claim"} => stale[p] # None

LockFileHasStarted == lockFile # None => pc[lockFile] # "new"

LockInv ==
  /\ TypeOK
  /\ OwnerHasLockFile
  /\ StaleLockIsDead
  /\ ClaimIsExclusive
  /\ StaleIsKnown
  /\ LockFileHasStarted
-----------------------------------------------------------------------------
\* An inode has finitely many links, so their number is a natural number.
LEMMA LinksType == \A x \in Proc : Links(x) \in Nat
<1> TAKE x \in Proc
<1>1. IsFiniteSet({y \in Proc : claim[y] = x})
  BY ProcAssumption, FS_Subset
<1>2. Cardinality({y \in Proc : claim[y] = x}) \in Nat
  BY <1>1, FS_CardinalityType
<1> QED
  BY <1>2 DEF Links

LEMMA InitTypeOK == Init => TypeOK
BY DEF Init, TypeOK, Pc, Unverified, Result

\* What the parts of an action do to the types.
LEMMA PartsType ==
  ASSUME TypeOK, NEW p \in Proc
  PROVE  /\ \A l \in Pc : Goto(p, l) => pc' \in [Proc -> Pc]
         /\ \A r \in Result : End(p, r) => /\ pc' \in [Proc -> Pc]
                                          /\ result' \in [Proc -> Result]
         /\ \A x : Touch(x) => ctime' \in [Proc -> Nat]
         /\ UnlinkLockFile => /\ lockFile' \in Proc \cup {None}
                              /\ ctime' \in [Proc -> Nat]
         /\ \A x : UnlinkClaim(x) => /\ claim' \in [Proc -> Proc \cup {None}]
                                     /\ ctime' \in [Proc -> Nat]
<1> USE DEF TypeOK
<1>1. \A l \in Pc : Goto(p, l) => pc' \in [Proc -> Pc]
  BY DEF Goto
<1>2. "ended" \in Pc
  BY DEF Pc
<1>3. \A r \in Result : End(p, r) => /\ pc' \in [Proc -> Pc]
                                    /\ result' \in [Proc -> Result]
  BY <1>1, <1>2 DEF End
<1>4. ASSUME NEW x, Touch(x) PROVE ctime' \in [Proc -> Nat]
  <2>1. CASE x \in Proc
    BY <1>4, <2>1 DEF Touch
  <2>2. CASE x \notin Proc
    <3>1. ctime' = ctime
      BY <1>4, <2>2 DEF Touch
    <3> QED
      BY <3>1
  <2> QED
    BY <2>1, <2>2
<1>5. UnlinkLockFile => /\ lockFile' \in Proc \cup {None}
                        /\ ctime' \in [Proc -> Nat]
  BY <1>4 DEF UnlinkLockFile
<1>6. ASSUME NEW x, UnlinkClaim(x)
      PROVE  /\ claim' \in [Proc -> Proc \cup {None}]
             /\ ctime' \in [Proc -> Nat]
  <2>1. claim' \in [Proc -> Proc \cup {None}]
    BY <1>6 DEF UnlinkClaim
  <2> QED
    BY <2>1, <1>4, <1>6 DEF UnlinkClaim
<1> QED
  BY <1>1, <1>3, <1>4, <1>5, <1>6

\* Every step keeps the types.
LEMMA TypeOKStep == TypeOK /\ [Next]_vars => TypeOK'
<1> SUFFICES ASSUME TypeOK, [Next]_vars PROVE TypeOK'
  OBVIOUS
<1> USE ProcAssumption DEF TypeOK
<1>0. CASE UNCHANGED vars
  BY <1>0 DEF vars, file
<1>1. ASSUME NEW p \in Proc, Start(p) PROVE TypeOK'
  BY <1>1, PartsType DEF Start, file, Pc, Result
<1>2. ASSUME NEW p \in Proc, Step(p) PROVE TypeOK'
  <2>1. CASE Create(p)
    BY <2>1, PartsType DEF Create, At, Pc, Result
  <2>2. CASE Write(p)
    BY <2>2, PartsType DEF Write, At, Pc, Result
  <2>3. CASE WriteFails(p)
    BY <2>3, PartsType DEF WriteFails, At, Pc, Result
  <2>4. CASE ReadStale(p)
    BY <2>4, PartsType DEF ReadStale, At, file, Pc, Result
  <2>5. CASE ReadStaleFails(p)
    BY <2>5, PartsType DEF ReadStaleFails, file, Pc, Result
  <2>6. CASE ProbeOwner(p)
    BY <2>6, PartsType DEF ProbeOwner, file, Pc, Result
  <2>7. CASE LinkClaim(p)
    BY <2>7, PartsType DEF LinkClaim, At, Pc, Result
  <2>8. CASE LinkClaimFails(p)
    BY <2>8, PartsType DEF LinkClaimFails, file, Pc, Result
  <2>9. CASE CheckClaim(p)
    BY <2>9, PartsType DEF CheckClaim, file, Pc, Result
  <2>10. CASE CheckClaimFails(p)
    BY <2>10, PartsType DEF CheckClaimFails, file, Pc, Result
  <2>11. CASE UnlinkStale(p)
    BY <2>11, PartsType DEF UnlinkStale, Pc, Result
  <2>12. CASE AbandonClaim(p)
    BY <2>12, PartsType DEF AbandonClaim, Pc, Result
  <2>13. CASE DropClaim(p)
    BY <2>13, PartsType DEF DropClaim, Pc, Result
  <2>14. CASE DropClaimFails(p)
    BY <2>14, PartsType DEF DropClaimFails, file, Pc, Result
  <2>15. CASE RemoveOwnedAcquisition(p)
    BY <2>15, PartsType DEF RemoveOwnedAcquisition, Pc, Result
  <2>16. CASE Verify(p)
    <3>1. Identity(p) \in [links : Nat, ctime : Nat]
      BY LinksType DEF Identity
    <3> QED
      BY <2>16, <3>1, PartsType DEF Verify, file, Pc
  <2>17. CASE VerifyFails(p)
    BY <2>17, PartsType DEF VerifyFails, file, Pc, Result
  <2>18. CASE FinishAction(p)
    BY <2>18, PartsType DEF FinishAction, file, Pc, Result
  <2>19. CASE CheckOwnership(p)
    BY <2>19, PartsType DEF CheckOwnership, file, Pc, Result
  <2>20. CASE UnlinkOwn(p)
    BY <2>20, PartsType DEF UnlinkOwn, Pc, Result
  <2> QED
    BY <1>2, <2>1, <2>2, <2>3, <2>4, <2>5, <2>6, <2>7, <2>8, <2>9, <2>10,
       <2>11, <2>12, <2>13, <2>14, <2>15, <2>16, <2>17, <2>18, <2>19, <2>20
       DEF Step
<1>3. ASSUME NEW p \in Proc, Die(p) PROVE TypeOK'
  BY <1>3 DEF Die, file
<1> QED
  BY <1>0, <1>1, <1>2, <1>3 DEF Next

\* Types are kept, whatever the processes and their pids.
THEOREM TypeCorrect == Spec => []TypeOK
BY InitTypeOK, TypeOKStep, PTL DEF Spec
-----------------------------------------------------------------------------
\* A step moves the process that takes it and no other.
LEMMA StepOfOne ==
  ASSUME TypeOK, NEW p \in Proc, Step(p)
  PROVE  /\ p \in live
         /\ live' = live
         /\ \A q \in Proc \ {p} : pc'[q] = pc[q] /\ stale'[q] = stale[q]
<1> USE DEF TypeOK
<1>1. CASE Create(p)
  BY <1>1 DEF Create, At, Goto
<1>2. CASE Write(p)
  BY <1>2 DEF Write, At, Goto
<1>3. CASE WriteFails(p)
  BY <1>3 DEF WriteFails, At, End, Goto, UnlinkLockFile
<1>4. CASE ReadStale(p)
  BY <1>4 DEF ReadStale, At, Goto, file, Readable
<1>5. CASE ReadStaleFails(p)
  BY <1>5 DEF ReadStaleFails, At, End, Goto, file
<1>6. CASE ProbeOwner(p)
  BY <1>6 DEF ProbeOwner, At, End, Goto, file
<1>7. CASE LinkClaim(p)
  BY <1>7 DEF LinkClaim, At, Goto
<1>8. CASE LinkClaimFails(p)
  BY <1>8 DEF LinkClaimFails, At, End, Goto, file
<1>9. CASE CheckClaim(p)
  BY <1>9 DEF CheckClaim, SameLockClaimed, At, Goto, file, Readable,
     ProcessIsLive
<1>10. CASE CheckClaimFails(p)
  BY <1>10 DEF CheckClaimFails, At, Goto, file
<1>11. CASE UnlinkStale(p)
  BY <1>11 DEF UnlinkStale, At, Goto, UnlinkLockFile
<1>12. CASE AbandonClaim(p)
  BY <1>12 DEF AbandonClaim, At, End, Goto, UnlinkClaim
<1>13. CASE DropClaim(p)
  BY <1>13 DEF DropClaim, At, Goto, UnlinkClaim
<1>14. CASE DropClaimFails(p)
  BY <1>14 DEF DropClaimFails, At, Goto, file
<1>15. CASE RemoveOwnedAcquisition(p)
  BY <1>15 DEF RemoveOwnedAcquisition, At, End, Goto, UnlinkLockFile
<1>16. CASE Verify(p)
  BY <1>16 DEF Verify, At, Goto, file
<1>17. CASE VerifyFails(p)
  BY <1>17 DEF VerifyFails, At, End, Goto, file
<1>18. CASE FinishAction(p)
  BY <1>18 DEF FinishAction, At, Goto, file
<1>19. CASE CheckOwnership(p)
  BY <1>19 DEF CheckOwnership, At, End, Goto, file
<1>20. CASE UnlinkOwn(p)
  BY <1>20 DEF UnlinkOwn, At, End, Goto, UnlinkLockFile
<1> QED
  BY <1>1, <1>2, <1>3, <1>4, <1>5, <1>6, <1>7, <1>8, <1>9, <1>10,
     <1>11, <1>12, <1>13, <1>14, <1>15, <1>16, <1>17, <1>18, <1>19, <1>20
     DEF Step

\* The lock file is created where there is none, and unlinked by its owner or
\* by a reclaimer.
LEMMA LockFileStep ==
  ASSUME TypeOK, OwnerHasLockFile, NEW p \in Proc, Step(p)
  PROVE  lockFile' # lockFile =>
           /\ pc'[p] # pc[p]
           /\ \/ lockFile = None /\ lockFile' = p
              \/ lockFile = p /\ lockFile' = None
              \/ pc[p] = "unlink stale" /\ lockFile' = None
<1> USE DEF TypeOK, OwnerHasLockFile, Owning
<1>1. CASE Create(p)
  BY <1>1 DEF Create, At, Goto
<1>2. CASE Write(p)
  BY <1>2 DEF Write, At, Goto
<1>3. CASE WriteFails(p)
  BY <1>3 DEF WriteFails, At, End, Goto, UnlinkLockFile
<1>4. CASE ReadStale(p)
  BY <1>4 DEF ReadStale, At, Goto, file, Readable
<1>5. CASE ReadStaleFails(p)
  BY <1>5 DEF ReadStaleFails, At, End, Goto, file
<1>6. CASE ProbeOwner(p)
  BY <1>6 DEF ProbeOwner, At, End, Goto, file
<1>7. CASE LinkClaim(p)
  BY <1>7 DEF LinkClaim, At, Goto
<1>8. CASE LinkClaimFails(p)
  BY <1>8 DEF LinkClaimFails, At, End, Goto, file
<1>9. CASE CheckClaim(p)
  BY <1>9 DEF CheckClaim, SameLockClaimed, At, Goto, file, Readable,
     ProcessIsLive
<1>10. CASE CheckClaimFails(p)
  BY <1>10 DEF CheckClaimFails, At, Goto, file
<1>11. CASE UnlinkStale(p)
  BY <1>11 DEF UnlinkStale, At, Goto, UnlinkLockFile
<1>12. CASE AbandonClaim(p)
  BY <1>12 DEF AbandonClaim, At, End, Goto, UnlinkClaim
<1>13. CASE DropClaim(p)
  BY <1>13 DEF DropClaim, At, Goto, UnlinkClaim
<1>14. CASE DropClaimFails(p)
  BY <1>14 DEF DropClaimFails, At, Goto, file
<1>15. CASE RemoveOwnedAcquisition(p)
  BY <1>15 DEF RemoveOwnedAcquisition, At, End, Goto, UnlinkLockFile
<1>16. CASE Verify(p)
  BY <1>16 DEF Verify, At, Goto, file
<1>17. CASE VerifyFails(p)
  BY <1>17 DEF VerifyFails, At, End, Goto, file
<1>18. CASE FinishAction(p)
  BY <1>18 DEF FinishAction, At, Goto, file
<1>19. CASE CheckOwnership(p)
  BY <1>19 DEF CheckOwnership, At, End, Goto, file
<1>20. CASE UnlinkOwn(p)
  BY <1>20 DEF UnlinkOwn, At, End, Goto, UnlinkLockFile
<1> QED
  BY <1>1, <1>2, <1>3, <1>4, <1>5, <1>6, <1>7, <1>8, <1>9, <1>10,
     <1>11, <1>12, <1>13, <1>14, <1>15, <1>16, <1>17, <1>18, <1>19, <1>20
     DEF Step

\* How p gets to own the lock file, or to be about to unlink a stale one.
LEMMA EnterStep ==
  ASSUME TypeOK, OwnerHasLockFile, NEW p \in Proc, Step(p)
  PROVE  /\ pc'[p] \in Owning => lockFile' = p
         /\ pc'[p] = "unlink stale" =>
              /\ lockFile' = stale[p] /\ stale'[p] = stale[p]
              /\ stale[p] \notin live
<1> USE PidAssumption, ProcAssumption DEF TypeOK, OwnerHasLockFile, Owning
<1>1. CASE Create(p)
  BY <1>1 DEF Create, At, Goto
<1>2. CASE Write(p)
  BY <1>2 DEF Write, At, Goto
<1>3. CASE WriteFails(p)
  BY <1>3 DEF WriteFails, At, End, Goto, UnlinkLockFile
<1>4. CASE ReadStale(p)
  BY <1>4 DEF ReadStale, At, Goto, file, Readable
<1>5. CASE ReadStaleFails(p)
  BY <1>5 DEF ReadStaleFails, At, End, Goto, file
<1>6. CASE ProbeOwner(p)
  BY <1>6 DEF ProbeOwner, At, End, Goto, file
<1>7. CASE LinkClaim(p)
  BY <1>7 DEF LinkClaim, At, Goto
<1>8. CASE LinkClaimFails(p)
  BY <1>8 DEF LinkClaimFails, At, End, Goto, file
<1>9. CASE CheckClaim(p)
  BY <1>9 DEF CheckClaim, SameLockClaimed, At, Goto, file, Readable,
     ProcessIsLive
<1>10. CASE CheckClaimFails(p)
  BY <1>10 DEF CheckClaimFails, At, Goto, file
<1>11. CASE UnlinkStale(p)
  BY <1>11 DEF UnlinkStale, At, Goto, UnlinkLockFile
<1>12. CASE AbandonClaim(p)
  BY <1>12 DEF AbandonClaim, At, End, Goto, UnlinkClaim
<1>13. CASE DropClaim(p)
  BY <1>13 DEF DropClaim, At, Goto, UnlinkClaim
<1>14. CASE DropClaimFails(p)
  BY <1>14 DEF DropClaimFails, At, Goto, file
<1>15. CASE RemoveOwnedAcquisition(p)
  BY <1>15 DEF RemoveOwnedAcquisition, At, End, Goto, UnlinkLockFile
<1>16. CASE Verify(p)
  BY <1>16 DEF Verify, At, Goto, file
<1>17. CASE VerifyFails(p)
  BY <1>17 DEF VerifyFails, At, End, Goto, file
<1>18. CASE FinishAction(p)
  BY <1>18 DEF FinishAction, At, Goto, file
<1>19. CASE CheckOwnership(p)
  BY <1>19 DEF CheckOwnership, At, End, Goto, file
<1>20. CASE UnlinkOwn(p)
  BY <1>20 DEF UnlinkOwn, At, End, Goto, UnlinkLockFile
<1> QED
  BY <1>1, <1>2, <1>3, <1>4, <1>5, <1>6, <1>7, <1>8, <1>9, <1>10,
     <1>11, <1>12, <1>13, <1>14, <1>15, <1>16, <1>17, <1>18, <1>19, <1>20
     DEF Step

\* A claim is linked where there is none, and unlinked by its claimer.
LEMMA ClaimStep ==
  ASSUME TypeOK, StaleIsKnown, NEW p \in Proc, Step(p)
  PROVE  \/ /\ claim' = claim
            /\ Claiming(p)' => Claiming(p) /\ stale'[p] = stale[p]
         \/ /\ pc[p] = "claim"
            /\ stale'[p] = stale[p] /\ claim[stale[p]] = None
            /\ lockFile # None
            /\ claim' = [claim EXCEPT ![stale[p]] = lockFile]
         \/ /\ Claiming(p) /\ ~Claiming(p)'
            /\ claim' = [claim EXCEPT ![stale[p]] = None]
<1> USE ProcAssumption DEF TypeOK, Claiming, StaleIsKnown
<1>1. CASE Create(p)
  BY <1>1 DEF Create, At, Goto
<1>2. CASE Write(p)
  BY <1>2 DEF Write, At, Goto
<1>3. CASE WriteFails(p)
  BY <1>3 DEF WriteFails, At, End, Goto, UnlinkLockFile
<1>4. CASE ReadStale(p)
  BY <1>4 DEF ReadStale, At, Goto, file, Readable
<1>5. CASE ReadStaleFails(p)
  BY <1>5 DEF ReadStaleFails, At, End, Goto, file
<1>6. CASE ProbeOwner(p)
  BY <1>6 DEF ProbeOwner, At, End, Goto, file
<1>7. CASE LinkClaim(p)
  BY <1>7 DEF LinkClaim, At, Goto
<1>8. CASE LinkClaimFails(p)
  BY <1>8 DEF LinkClaimFails, At, End, Goto, file
<1>9. CASE CheckClaim(p)
  BY <1>9 DEF CheckClaim, SameLockClaimed, At, Goto, file, Readable,
     ProcessIsLive
<1>10. CASE CheckClaimFails(p)
  BY <1>10 DEF CheckClaimFails, At, Goto, file
<1>11. CASE UnlinkStale(p)
  BY <1>11 DEF UnlinkStale, At, Goto, UnlinkLockFile
<1>12. CASE AbandonClaim(p)
  BY <1>12 DEF AbandonClaim, At, End, Goto, UnlinkClaim
<1>13. CASE DropClaim(p)
  BY <1>13 DEF DropClaim, At, Goto, UnlinkClaim
<1>14. CASE DropClaimFails(p)
  BY <1>14 DEF DropClaimFails, At, Goto, file
<1>15. CASE RemoveOwnedAcquisition(p)
  BY <1>15 DEF RemoveOwnedAcquisition, At, End, Goto, UnlinkLockFile
<1>16. CASE Verify(p)
  BY <1>16 DEF Verify, At, Goto, file
<1>17. CASE VerifyFails(p)
  BY <1>17 DEF VerifyFails, At, End, Goto, file
<1>18. CASE FinishAction(p)
  BY <1>18 DEF FinishAction, At, Goto, file
<1>19. CASE CheckOwnership(p)
  BY <1>19 DEF CheckOwnership, At, End, Goto, file
<1>20. CASE UnlinkOwn(p)
  BY <1>20 DEF UnlinkOwn, At, End, Goto, UnlinkLockFile
<1> QED
  BY <1>1, <1>2, <1>3, <1>4, <1>5, <1>6, <1>7, <1>8, <1>9, <1>10,
     <1>11, <1>12, <1>13, <1>14, <1>15, <1>16, <1>17, <1>18, <1>19, <1>20
     DEF Step

\* What p knows of a stale owner.
LEMMA StaleIsKnownStep ==
  ASSUME TypeOK, StaleIsKnown, NEW p \in Proc, Step(p)
  PROVE  /\ pc'[p] # "new"
         /\ pc'[p] \in {"probe", "claim", "check", "unlink stale", "drop claim",
                        "abandon claim"} => stale'[p] # None
<1> USE ProcAssumption DEF TypeOK, StaleIsKnown
<1>1. CASE Create(p)
  BY <1>1 DEF Create, At, Goto
<1>2. CASE Write(p)
  BY <1>2 DEF Write, At, Goto
<1>3. CASE WriteFails(p)
  BY <1>3 DEF WriteFails, At, End, Goto, UnlinkLockFile
<1>4. CASE ReadStale(p)
  BY <1>4 DEF ReadStale, At, Goto, file, Readable
<1>5. CASE ReadStaleFails(p)
  BY <1>5 DEF ReadStaleFails, At, End, Goto, file
<1>6. CASE ProbeOwner(p)
  BY <1>6 DEF ProbeOwner, At, End, Goto, file
<1>7. CASE LinkClaim(p)
  BY <1>7 DEF LinkClaim, At, Goto
<1>8. CASE LinkClaimFails(p)
  BY <1>8 DEF LinkClaimFails, At, End, Goto, file
<1>9. CASE CheckClaim(p)
  BY <1>9 DEF CheckClaim, SameLockClaimed, At, Goto, file, Readable,
     ProcessIsLive
<1>10. CASE CheckClaimFails(p)
  BY <1>10 DEF CheckClaimFails, At, Goto, file
<1>11. CASE UnlinkStale(p)
  BY <1>11 DEF UnlinkStale, At, Goto, UnlinkLockFile
<1>12. CASE AbandonClaim(p)
  BY <1>12 DEF AbandonClaim, At, End, Goto, UnlinkClaim
<1>13. CASE DropClaim(p)
  BY <1>13 DEF DropClaim, At, Goto, UnlinkClaim
<1>14. CASE DropClaimFails(p)
  BY <1>14 DEF DropClaimFails, At, Goto, file
<1>15. CASE RemoveOwnedAcquisition(p)
  BY <1>15 DEF RemoveOwnedAcquisition, At, End, Goto, UnlinkLockFile
<1>16. CASE Verify(p)
  BY <1>16 DEF Verify, At, Goto, file
<1>17. CASE VerifyFails(p)
  BY <1>17 DEF VerifyFails, At, End, Goto, file
<1>18. CASE FinishAction(p)
  BY <1>18 DEF FinishAction, At, Goto, file
<1>19. CASE CheckOwnership(p)
  BY <1>19 DEF CheckOwnership, At, End, Goto, file
<1>20. CASE UnlinkOwn(p)
  BY <1>20 DEF UnlinkOwn, At, End, Goto, UnlinkLockFile
<1> QED
  BY <1>1, <1>2, <1>3, <1>4, <1>5, <1>6, <1>7, <1>8, <1>9, <1>10,
     <1>11, <1>12, <1>13, <1>14, <1>15, <1>16, <1>17, <1>18, <1>19, <1>20
     DEF Step
-----------------------------------------------------------------------------
LEMMA InitLockInv == Init => LockInv
BY InitTypeOK DEF Init, LockInv, OwnerHasLockFile, StaleLockIsDead,
   ClaimIsExclusive, Claiming, StaleIsKnown, LockFileHasStarted

\* A step of a running process keeps the invariant.
LEMMA LockInvStep ==
  ASSUME LockInv, NEW p \in Proc, Step(p), TypeOK'
  PROVE  LockInv'
<1> USE ProcAssumption
<1>1. /\ TypeOK /\ OwnerHasLockFile /\ StaleLockIsDead /\ ClaimIsExclusive
      /\ StaleIsKnown /\ LockFileHasStarted
  BY DEF LockInv
<1>2. /\ p \in live /\ live' = live
      /\ \A q \in Proc \ {p} : pc'[q] = pc[q] /\ stale'[q] = stale[q]
  BY <1>1, StepOfOne
<1>3. \/ lockFile' = lockFile
      \/ lockFile = None /\ lockFile' = p
      \/ lockFile = p /\ lockFile' = None
      \/ pc[p] = "unlink stale" /\ lockFile' = None
  BY <1>1, LockFileStep
<1>4. /\ pc'[p] \in Owning => lockFile' = p
      /\ pc'[p] = "unlink stale" =>
           /\ lockFile' = stale[p] /\ stale'[p] = stale[p]
           /\ stale[p] \notin live
  BY <1>1, EnterStep
<1>5. OwnerHasLockFile'
  <2> SUFFICES ASSUME NEW q \in live, pc'[q] \in Owning PROVE lockFile' = q
    BY <1>2 DEF OwnerHasLockFile
  <2>1. CASE q = p
    BY <1>4, <2>1
  <2>2. CASE q # p
    <3>1. q \in Proc /\ pc[q] \in Owning /\ lockFile = q
      BY <1>1, <1>2, <2>2 DEF TypeOK, OwnerHasLockFile
    <3>2. pc[p] # "unlink stale"
      BY <1>1, <1>2, <3>1 DEF StaleLockIsDead
    <3> QED
      BY <1>3, <2>2, <3>1, <3>2
  <2> QED
    BY <2>1, <2>2
<1>6. StaleLockIsDead'
  <2> SUFFICES ASSUME NEW q \in live, pc'[q] = "unlink stale"
               PROVE  lockFile' = stale'[q] /\ stale'[q] \notin live
    BY <1>2 DEF StaleLockIsDead
  <2>1. CASE q = p
    BY <1>4, <2>1
  <2>2. CASE q # p
    <3>1. /\ q \in Proc /\ pc[q] = "unlink stale" /\ stale'[q] = stale[q]
          /\ lockFile = stale[q] /\ stale[q] \notin live /\ stale[q] # None
      BY <1>1, <1>2, <2>2 DEF TypeOK, StaleLockIsDead, StaleIsKnown
    <3>2. pc[p] # "unlink stale"
      <4> SUFFICES ASSUME pc[p] = "unlink stale" PROVE FALSE
        OBVIOUS
      <4>1. lockFile = stale[p] /\ stale[p] # None
        BY <1>1, <1>2 DEF StaleLockIsDead, StaleIsKnown
      <4>2. Claiming(p) /\ Claiming(q)
        BY <1>2, <3>1, <4>1 DEF Claiming
      <4> QED
        BY <1>1, <2>2, <3>1, <4>1, <4>2 DEF ClaimIsExclusive
    <3> QED
      BY <1>2, <1>3, <3>1, <3>2
  <2> QED
    BY <2>1, <2>2
<1>7. ClaimIsExclusive'
  <2>1. \A q \in Proc \ {p} : Claiming(q)' <=> Claiming(q)
    BY <1>2 DEF Claiming
  <2>2. CASE /\ claim' = claim
             /\ Claiming(p)' => Claiming(p) /\ stale'[p] = stale[p]
    BY <1>1, <1>2, <2>1, <2>2 DEF ClaimIsExclusive
  <2>3. CASE /\ pc[p] = "claim"
             /\ stale'[p] = stale[p] /\ claim[stale[p]] = None
             /\ lockFile # None
             /\ claim' = [claim EXCEPT ![stale[p]] = lockFile]
    <3>1. stale[p] \in Proc /\ claim'[stale[p]] # None
      BY <1>1, <2>3 DEF TypeOK, StaleIsKnown
    <3>2. \A q \in Proc \ {p} : Claiming(q) => stale[q] # stale[p]
      BY <1>1, <2>3 DEF ClaimIsExclusive
    <3>3. \A q \in Proc \ {p} : Claiming(q) => claim'[stale[q]] # None
      BY <1>1, <2>3, <3>2 DEF ClaimIsExclusive, TypeOK
    <3> QED
      BY <1>1, <1>2, <2>1, <2>3, <3>1, <3>2, <3>3 DEF ClaimIsExclusive
  <2>4. CASE /\ Claiming(p) /\ ~Claiming(p)'
             /\ claim' = [claim EXCEPT ![stale[p]] = None]
    <3>1. \A q \in Proc \ {p} : Claiming(q) => claim'[stale[q]] = claim[stale[q]]
      BY <1>1, <2>4 DEF ClaimIsExclusive, TypeOK
    <3> QED
      BY <1>1, <1>2, <2>1, <2>4, <3>1 DEF ClaimIsExclusive
  <2> QED
    BY <1>1, <2>2, <2>3, <2>4, ClaimStep
<1>8. StaleIsKnown'
  BY <1>1, <1>2, StaleIsKnownStep DEF StaleIsKnown
<1>9. LockFileHasStarted'
  <2>1. pc'[p] # "new"
    BY <1>1, StaleIsKnownStep
  <2> QED
    BY <1>1, <1>2, <1>3, <2>1 DEF LockFileHasStarted, TypeOK
<1> QED
  BY <1>5, <1>6, <1>7, <1>8, <1>9 DEF LockInv

\* So does the start of a process, which may take the pid of a dead one.
LEMMA LockInvStart ==
  ASSUME LockInv, NEW p \in Proc, Start(p), TypeOK'
  PROVE  LockInv'
<1> USE ProcAssumption DEF LockInv
<1>1. /\ pc[p] = "new" /\ pc'[p] \in {"create", "ended"}
      /\ live' = live \cup {p}
      /\ \A q \in Proc \ {p} : pc'[q] = pc[q]
      /\ UNCHANGED <<lockFile, claim, stale>>
  BY DEF Start, End, Goto, file, TypeOK
<1>2. OwnerHasLockFile'
  BY <1>1 DEF OwnerHasLockFile, Owning, TypeOK
<1>3. StaleLockIsDead'
  <2> SUFFICES ASSUME NEW q \in live', pc'[q] = "unlink stale"
               PROVE  lockFile = stale[q] /\ stale[q] \notin live'
    BY <1>1 DEF StaleLockIsDead
  <2>1. q # p /\ q \in live /\ pc[q] = "unlink stale"
    BY <1>1 DEF TypeOK
  <2>2. stale[q] # p
    BY <1>1, <2>1 DEF StaleLockIsDead, StaleIsKnown, LockFileHasStarted, TypeOK
  <2> QED
    BY <1>1, <2>1, <2>2 DEF StaleLockIsDead
<1>4. ClaimIsExclusive'
  <2>1. \A q \in Proc : Claiming(q)' => Claiming(q)
    BY <1>1 DEF Claiming, StaleIsKnown, TypeOK
  <2> QED
    BY <1>1, <2>1 DEF ClaimIsExclusive
<1>5. StaleIsKnown' /\ LockFileHasStarted'
  BY <1>1 DEF StaleIsKnown, LockFileHasStarted, TypeOK
<1> QED
  BY <1>2, <1>3, <1>4, <1>5

\* And its end, by exit or by a crash at any point.
LEMMA LockInvDie ==
  ASSUME LockInv, NEW p \in Proc, Die(p), TypeOK'
  PROVE  LockInv'
<1>1. live' = live \ {p} /\ UNCHANGED <<lockFile, claim, pc, stale>>
  BY DEF Die, file
<1> QED
  BY <1>1 DEF LockInv, OwnerHasLockFile, StaleLockIsDead, ClaimIsExclusive,
     Claiming, StaleIsKnown, LockFileHasStarted

LEMMA LockInvNext == LockInv /\ [Next]_vars => LockInv'
<1> SUFFICES ASSUME LockInv, [Next]_vars PROVE LockInv'
  OBVIOUS
<1>1. TypeOK'
  BY TypeOKStep DEF LockInv
<1>2. CASE UNCHANGED vars
  BY <1>1, <1>2 DEF vars, file, LockInv, OwnerHasLockFile, StaleLockIsDead,
     ClaimIsExclusive, Claiming, StaleIsKnown, LockFileHasStarted
<1>3. CASE Next
  BY <1>1, <1>3, LockInvStep, LockInvStart, LockInvDie DEF Next
<1> QED
  BY <1>2, <1>3

\* The strengthening of mutual exclusion that every step keeps.
THEOREM LockInvariant == Spec => []LockInv
BY InitLockInv, LockInvNext, PTL DEF Spec

LEMMA LockInvMutualExclusion == LockInv => MutualExclusion
BY DEF LockInv, OwnerHasLockFile, Owning, MutualExclusion, Holds

\* Two commands are never at work at once: a process that holds the lock has
\* its own lock file in place, and there is one lock file.
THEOREM MutuallyExclusive == Spec => []MutualExclusion
BY LockInvariant, LockInvMutualExclusion, PTL

LEMMA LockFileOfTheLiving ==
  LockInv /\ [Next]_vars =>
    \A x \in Proc :
      lockFile = x /\ x \in live /\ lockFile' # x => pc'[x] # pc[x]
<1> SUFFICES ASSUME LockInv, [Next]_vars, NEW x \in Proc,
                    lockFile = x, x \in live, lockFile' # x
             PROVE  pc'[x] # pc[x]
  OBVIOUS
<1> USE ProcAssumption DEF LockInv
<1>1. PICK p \in Proc : Step(p)
  BY DEF Next, Start, Die, vars, file
<1>2. p = x
  BY <1>1, LockFileStep, StepOfOne DEF StaleLockIsDead
<1> QED
  BY <1>1, <1>2, LockFileStep

\* Nobody unlinks the lock file of a running process but that process.
THEOREM LiveLockKept == Spec => LiveLockRemovedByOwner
<1>1. LockInv /\ [Next]_vars =>
        [\A x \in Proc :
           lockFile = x /\ x \in live /\ lockFile' # x => pc'[x] # pc[x]]_vars
  BY LockFileOfTheLiving
<1> QED
  BY <1>1, LockInvariant, PTL DEF Spec, LiveLockRemovedByOwner
-----------------------------------------------------------------------------
(***************************************************************************)
(* Locks that are left behind.                                             *)
(***************************************************************************)
\* The owner of the lock file has written its record, or is just about to.
LockIsWritten ==
  lockFile # None => lockFile \in written \/ pc[lockFile] = "write"

\* A reclaimer that is about to unlink a stale lock has the other link to it.
ClaimIsTheStaleLock ==
  \A p \in live : pc[p] = "unlink stale" => claim[stale[p]] = stale[p]

ClaimLeftIsTheEnd ==
  \A p \in Proc : result[p] = "claim left" => pc[p] = "ended"

\* p linked a claim and stands, or has fallen, where it may be to any lock.
Accountable(p) ==
  pc[p] \in {"check", "unlink stale", "abandon claim"} \/ result[p] = "claim left"

\* The claim of x is the last link to the lock of x, which was reclaimed.
Spent(x) == claim[x] = x /\ x \notin live /\ lockFile # x /\ pc[x] # "new"

ClaimIsAccountedFor ==
  \A x \in Proc : claim[x] # None =>
    Spent(x) \/ \E p \in Proc : stale[p] = x /\ Accountable(p)

LeftInv ==
  /\ LockInv
  /\ LockIsWritten
  /\ ClaimIsTheStaleLock
  /\ ClaimLeftIsTheEnd
  /\ ClaimIsAccountedFor

\* A lock file is unlinked by its owner before anything else becomes of it.
LEMMA LockIsWrittenStep ==
  ASSUME TypeOK, OwnerHasLockFile, LockFileHasStarted, LockIsWritten,
         NEW p \in Proc, Step(p)
  PROVE  LockIsWritten'
<1> USE ProcAssumption DEF TypeOK, OwnerHasLockFile, Owning, LockFileHasStarted,
                           LockIsWritten
<1>1. CASE Create(p)
  <2>1. /\ pc[p] = "create" /\ written' = written
        /\ \A q \in Proc \ {p} : pc'[q] = pc[q]
    BY <1>1 DEF Create, At, Goto
  <2>2. \/ lockFile' = p /\ pc'[p] = "write"
        \/ lockFile # None /\ lockFile' = lockFile
    BY <1>1 DEF Create, Goto
  <2> QED
    BY <2>1, <2>2
<1>2. CASE Write(p)
  BY <1>2 DEF Write, At, Goto
<1>3. CASE WriteFails(p)
  BY <1>3 DEF WriteFails, At, End, Goto, UnlinkLockFile
<1>4. CASE ReadStale(p)
  BY <1>4 DEF ReadStale, At, Goto, file, Readable
<1>5. CASE ReadStaleFails(p)
  BY <1>5 DEF ReadStaleFails, At, End, Goto, file
<1>6. CASE ProbeOwner(p)
  BY <1>6 DEF ProbeOwner, At, End, Goto, file
<1>7. CASE LinkClaim(p)
  BY <1>7 DEF LinkClaim, At, Goto
<1>8. CASE LinkClaimFails(p)
  BY <1>8 DEF LinkClaimFails, At, End, Goto, file
<1>9. CASE CheckClaim(p)
  BY <1>9 DEF CheckClaim, SameLockClaimed, At, Goto, file, Readable,
     ProcessIsLive
<1>10. CASE CheckClaimFails(p)
  BY <1>10 DEF CheckClaimFails, At, Goto, file
<1>11. CASE UnlinkStale(p)
  BY <1>11 DEF UnlinkStale, At, Goto, UnlinkLockFile
<1>12. CASE AbandonClaim(p)
  BY <1>12 DEF AbandonClaim, At, End, Goto, UnlinkClaim
<1>13. CASE DropClaim(p)
  BY <1>13 DEF DropClaim, At, Goto, UnlinkClaim
<1>14. CASE DropClaimFails(p)
  BY <1>14 DEF DropClaimFails, At, Goto, file
<1>15. CASE RemoveOwnedAcquisition(p)
  BY <1>15 DEF RemoveOwnedAcquisition, At, End, Goto, UnlinkLockFile
<1>16. CASE Verify(p)
  BY <1>16 DEF Verify, At, Goto, file
<1>17. CASE VerifyFails(p)
  BY <1>17 DEF VerifyFails, At, End, Goto, file
<1>18. CASE FinishAction(p)
  BY <1>18 DEF FinishAction, At, Goto, file
<1>19. CASE CheckOwnership(p)
  BY <1>19 DEF CheckOwnership, At, End, Goto, file
<1>20. CASE UnlinkOwn(p)
  BY <1>20 DEF UnlinkOwn, At, End, Goto, UnlinkLockFile
<1> QED
  BY <1>1, <1>2, <1>3, <1>4, <1>5, <1>6, <1>7, <1>8, <1>9, <1>10,
     <1>11, <1>12, <1>13, <1>14, <1>15, <1>16, <1>17, <1>18, <1>19, <1>20
     DEF Step

\* What a step does to the claim that p accounts for.
LEMMA AccountStep ==
  ASSUME TypeOK, ClaimLeftIsTheEnd, StaleIsKnown, NEW p \in Proc, Step(p)
  PROVE  /\ \A q \in Proc \ {p} : result'[q] = result[q]
         /\ result'[p] = "claim left" => pc'[p] = "ended"
         /\ pc[p] = "claim" /\ claim' # claim => Accountable(p)'
         /\ pc'[p] = "unlink stale" =>
              claim'[stale'[p]] = stale'[p]
         /\ Accountable(p) =>
              \/ Accountable(p)' /\ stale'[p] = stale[p]
              \/ claim'[stale[p]] = None
              \/ pc[p] = "unlink stale" /\ lockFile' = None /\ claim' = claim
<1> USE ProcAssumption DEF TypeOK, ClaimLeftIsTheEnd, Accountable, StaleIsKnown
<1>1. CASE Create(p)
  BY <1>1 DEF Create, At, Goto
<1>2. CASE Write(p)
  BY <1>2 DEF Write, At, Goto
<1>3. CASE WriteFails(p)
  BY <1>3 DEF WriteFails, At, End, Goto, UnlinkLockFile
<1>4. CASE ReadStale(p)
  BY <1>4 DEF ReadStale, At, Goto, file, Readable
<1>5. CASE ReadStaleFails(p)
  BY <1>5 DEF ReadStaleFails, At, End, Goto, file
<1>6. CASE ProbeOwner(p)
  BY <1>6 DEF ProbeOwner, At, End, Goto, file
<1>7. CASE LinkClaim(p)
  BY <1>7 DEF LinkClaim, At, Goto
<1>8. CASE LinkClaimFails(p)
  BY <1>8 DEF LinkClaimFails, At, End, Goto, file
<1>9. CASE CheckClaim(p)
  BY <1>9 DEF CheckClaim, SameLockClaimed, At, Goto, file, Readable,
     ProcessIsLive
<1>10. CASE CheckClaimFails(p)
  BY <1>10 DEF CheckClaimFails, At, Goto, file
<1>11. CASE UnlinkStale(p)
  BY <1>11 DEF UnlinkStale, At, Goto, UnlinkLockFile
<1>12. CASE AbandonClaim(p)
  BY <1>12 DEF AbandonClaim, At, End, Goto, UnlinkClaim
<1>13. CASE DropClaim(p)
  BY <1>13 DEF DropClaim, At, Goto, UnlinkClaim
<1>14. CASE DropClaimFails(p)
  BY <1>14 DEF DropClaimFails, At, Goto, file
<1>15. CASE RemoveOwnedAcquisition(p)
  BY <1>15 DEF RemoveOwnedAcquisition, At, End, Goto, UnlinkLockFile
<1>16. CASE Verify(p)
  BY <1>16 DEF Verify, At, Goto, file
<1>17. CASE VerifyFails(p)
  BY <1>17 DEF VerifyFails, At, End, Goto, file
<1>18. CASE FinishAction(p)
  BY <1>18 DEF FinishAction, At, Goto, file
<1>19. CASE CheckOwnership(p)
  BY <1>19 DEF CheckOwnership, At, End, Goto, file
<1>20. CASE UnlinkOwn(p)
  BY <1>20 DEF UnlinkOwn, At, End, Goto, UnlinkLockFile
<1> QED
  BY <1>1, <1>2, <1>3, <1>4, <1>5, <1>6, <1>7, <1>8, <1>9, <1>10,
     <1>11, <1>12, <1>13, <1>14, <1>15, <1>16, <1>17, <1>18, <1>19, <1>20
     DEF Step

\* A step of a running process keeps the invariant: a claim is unlinked, or
\* becomes the last link to the lock it was made for.
LEMMA LeftInvStep ==
  ASSUME LeftInv, LockInv', NEW p \in Proc, Step(p)
  PROVE  LeftInv'
<1> USE ProcAssumption
<1>1. /\ TypeOK /\ OwnerHasLockFile /\ StaleLockIsDead /\ ClaimIsExclusive
      /\ StaleIsKnown /\ LockFileHasStarted /\ LockIsWritten
      /\ ClaimIsTheStaleLock /\ ClaimLeftIsTheEnd /\ ClaimIsAccountedFor
  BY DEF LeftInv, LockInv
<1>2. /\ p \in live /\ live' = live
      /\ \A q \in Proc \ {p} : pc'[q] = pc[q] /\ stale'[q] = stale[q]
  BY <1>1, StepOfOne
<1>3. /\ \A q \in Proc \ {p} : result'[q] = result[q]
      /\ result'[p] = "claim left" => pc'[p] = "ended"
      /\ pc[p] = "claim" /\ claim' # claim => Accountable(p)'
      /\ pc'[p] = "unlink stale" => claim'[stale'[p]] = stale'[p]
      /\ Accountable(p) =>
           \/ Accountable(p)' /\ stale'[p] = stale[p]
           \/ claim'[stale[p]] = None
           \/ pc[p] = "unlink stale" /\ lockFile' = None /\ claim' = claim
  BY <1>1, AccountStep
<1>4. /\ TypeOK' /\ StaleIsKnown'
  BY DEF LockInv
<1>5. LockIsWritten'
  BY <1>1, LockIsWrittenStep
<1>6. ClaimLeftIsTheEnd'
  BY <1>1, <1>2, <1>3 DEF ClaimLeftIsTheEnd
<1>7. ClaimIsTheStaleLock'
  <2> SUFFICES ASSUME NEW q \in live, pc'[q] = "unlink stale"
               PROVE  claim'[stale'[q]] = stale'[q]
    BY <1>2 DEF ClaimIsTheStaleLock
  <2>1. CASE q = p
    BY <1>3, <2>1
  <2>2. CASE q # p
    <3>1. /\ q \in Proc /\ pc[q] = "unlink stale" /\ stale'[q] = stale[q]
          /\ claim[stale[q]] = stale[q] /\ stale[q] \in Proc
      BY <1>1, <1>2, <2>2 DEF TypeOK, ClaimIsTheStaleLock, StaleIsKnown
    <3>2. Claiming(q)
      BY <3>1 DEF Claiming
    <3>3. claim'[stale[q]] = claim[stale[q]]
      <4>1. CASE pc[p] = "claim" /\ claim[stale[p]] = None
                 /\ claim' = [claim EXCEPT ![stale[p]] = lockFile]
        BY <1>1, <3>1, <4>1 DEF TypeOK
      <4>2. CASE Claiming(p) /\ claim' = [claim EXCEPT ![stale[p]] = None]
        BY <1>1, <2>2, <3>1, <3>2, <4>2 DEF TypeOK, ClaimIsExclusive
      <4> QED
        BY <1>1, <4>1, <4>2, ClaimStep
    <3> QED
      BY <3>1, <3>3
  <2> QED
    BY <2>1, <2>2
<1>8. ClaimIsAccountedFor'
  <2> SUFFICES ASSUME NEW x \in Proc, claim'[x] # None
               PROVE  Spent(x)' \/ \E q \in Proc : (stale[q] = x /\ Accountable(q))'
    BY DEF ClaimIsAccountedFor
  <2>1. CASE claim[x] = None
    <3>1. pc[p] = "claim" /\ stale'[p] = stale[p] /\ claim' # claim /\ stale[p] = x
      BY <1>1, <2>1, ClaimStep DEF TypeOK
    <3> QED
      BY <1>3, <3>1
  <2>2. CASE claim[x] # None
    <3>1. claim'[x] = claim[x]
      BY <1>1, <2>2, ClaimStep DEF TypeOK
    <3>2. CASE Spent(x)
      <4>1. x # p
        BY <1>2, <3>2 DEF Spent
      <4>2. lockFile' # x
        BY <1>1, <3>2, <4>1, LockFileStep DEF Spent
      <4> QED
        BY <1>2, <3>1, <3>2, <4>1, <4>2 DEF Spent
    <3>3. ASSUME NEW q \in Proc, stale[q] = x, Accountable(q)
          PROVE  Spent(x)' \/ \E r \in Proc : (stale[r] = x /\ Accountable(r))'
      <4>1. CASE q # p
        BY <1>2, <1>3, <3>3, <4>1 DEF Accountable
      <4>2. CASE Accountable(q)' /\ stale'[q] = stale[q]
        BY <3>3, <4>2
      <4>3. CASE q = p /\ pc[p] = "unlink stale" /\ lockFile' = None
        <5>1. claim[x] = x /\ x \notin live /\ lockFile = x /\ pc[x] # "new"
          BY <1>1, <1>2, <3>3, <4>3
             DEF ClaimIsTheStaleLock, StaleLockIsDead, LockFileHasStarted
        <5>2. x # p
          BY <1>2, <5>1
        <5> QED
          BY <1>2, <3>1, <4>3, <5>1, <5>2 DEF Spent
      <4> QED
        BY <1>3, <3>3, <4>1, <4>2, <4>3
    <3> QED
      BY <1>1, <2>2, <3>2, <3>3 DEF ClaimIsAccountedFor
  <2> QED
    BY <2>1, <2>2
<1> QED
  BY <1>5, <1>6, <1>7, <1>8 DEF LeftInv

\* A process that starts is none that a claim tells of.
LEMMA LeftInvStart ==
  ASSUME LeftInv, LockInv', NEW p \in Proc, Start(p)
  PROVE  LeftInv'
<1> USE ProcAssumption
<1>1. /\ TypeOK /\ StaleIsKnown /\ LockFileHasStarted /\ LockIsWritten
      /\ ClaimIsTheStaleLock /\ ClaimLeftIsTheEnd /\ ClaimIsAccountedFor
  BY DEF LeftInv, LockInv
<1>2. /\ pc[p] = "new" /\ pc'[p] \in {"create", "ended"}
      /\ result[p] # "claim left" /\ result'[p] # "claim left"
      /\ live' = live \cup {p}
      /\ \A q \in Proc \ {p} : pc'[q] = pc[q] /\ result'[q] = result[q]
      /\ UNCHANGED <<lockFile, written, claim, stale>>
  BY <1>1 DEF Start, End, Goto, file, TypeOK, ClaimLeftIsTheEnd
<1>3. LockIsWritten'
  BY <1>1, <1>2 DEF LockIsWritten, LockFileHasStarted, TypeOK
<1>4. ClaimIsTheStaleLock' /\ ClaimLeftIsTheEnd'
  BY <1>1, <1>2 DEF ClaimIsTheStaleLock, ClaimLeftIsTheEnd, TypeOK
<1>5. ClaimIsAccountedFor'
  <2>1. \A x \in Proc : Spent(x) => Spent(x)'
    BY <1>2 DEF Spent
  <2>2. \A q \in Proc : Accountable(q) => Accountable(q)'
    BY <1>2 DEF Accountable
  <2> QED
    BY <1>1, <1>2, <2>1, <2>2 DEF ClaimIsAccountedFor
<1> QED
  BY <1>3, <1>4, <1>5 DEF LeftInv

LEMMA LeftInvDie ==
  ASSUME LeftInv, LockInv', NEW p \in Proc, Die(p)
  PROVE  LeftInv'
<1>1. /\ live' = live \ {p}
      /\ UNCHANGED <<lockFile, written, claim, pc, stale, result>>
  BY DEF Die, file
<1> QED
  BY <1>1 DEF LeftInv, LockIsWritten, ClaimIsTheStaleLock, ClaimLeftIsTheEnd,
     ClaimIsAccountedFor, Accountable, Spent

LEMMA InitLeftInv == Init => LeftInv
BY InitLockInv DEF Init, LeftInv, LockIsWritten, ClaimIsTheStaleLock,
   ClaimLeftIsTheEnd, ClaimIsAccountedFor

LEMMA LeftInvNext == LeftInv /\ [Next]_vars => LeftInv'
<1> SUFFICES ASSUME LeftInv, [Next]_vars PROVE LeftInv'
  OBVIOUS
<1>1. LockInv'
  BY LockInvNext DEF LeftInv
<1>2. CASE UNCHANGED vars
  BY <1>1, <1>2 DEF vars, file, LeftInv, LockIsWritten, ClaimIsTheStaleLock,
     ClaimLeftIsTheEnd, ClaimIsAccountedFor, Accountable, Spent
<1>3. CASE Next
  BY <1>1, <1>3, LeftInvStep, LeftInvStart, LeftInvDie DEF Next
<1> QED
  BY <1>2, <1>3

LEMMA LeftInvReclaimable == LeftInv => LeftLockCanBeReclaimed
<1> SUFFICES ASSUME LeftInv, live = {}, lockFile # None,
                    \A p \in Proc : ~Interrupted(p)
             PROVE  Readable /\ Links(lockFile) = 1 /\ claim[lockFile] = None
  BY DEF LeftLockCanBeReclaimed
<1>1. lockFile \in Proc
  BY DEF LeftInv, LockInv, TypeOK
<1>2. Readable
  BY <1>1 DEF LeftInv, LockIsWritten, Interrupted, Readable
<1>3. \A p \in Proc : ~Accountable(p)
  BY DEF Accountable, Interrupted
<1>4. \A x \in Proc : claim[x] # None => claim[x] = x /\ x # lockFile
  BY <1>3 DEF LeftInv, ClaimIsAccountedFor, Spent
<1>5. {y \in Proc : claim[y] = lockFile} = {}
  BY <1>4
<1>6. Links(lockFile) = 1
  BY <1>5, FS_EmptySet DEF Links
<1> QED
  BY <1>1, <1>2, <1>4, <1>6

\* When no process runs any more, a lock file that is left can be read and
\* claimed by the next command, unless a process died between two steps of
\* taking the lock or could not unlink its claim.
THEOREM LeftLockIsReclaimable == Spec => []LeftLockCanBeReclaimed
BY InitLeftInv, LeftInvNext, LeftInvReclaimable, PTL DEF Spec
=============================================================================
