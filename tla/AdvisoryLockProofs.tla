------------------------- MODULE AdvisoryLockProofs -------------------------
(* Proofs about AdvisoryLock, for every set of processes, every nesting bound  *)
(* and every bound on crashes and reboots: IInv is inductive, and from it the  *)
(* type invariant, mutual exclusion and the serialization of reclaimers.       *)
EXTENDS AdvisoryLock, TLAPS

USE DepthAssumption, BoundAssumption, NoneAssumption DEF Levels, Rec, Kinds, Stages

\* A lock that reclaimable() gives up has lost its owner: each of its three ways
\* to judge a record errs on the side of "alive" only.
LEMMA ReclaimableIsDead ==
    ASSUME TypeOK, FilesOK, NEW l \in Levels, file[l] # None, Reclaimable(file[l])
    PROVE  Dead(file[l])
BY DEF TypeOK, FilesOK, Reclaimable, ProvenDead, Dead, Alive

\* What the unlink of the staging file and the fallback's write do to an inode:
\* its identity, and so its owner, stays.
LEMMA InodeUpdate ==
    ASSUME NEW r \in Rec, NEW s \in Stages, NEW k \in Kinds
    PROVE  /\ [r EXCEPT !.st = s] \in Rec /\ [r EXCEPT !.kind = k] \in Rec
           /\ [r EXCEPT !.st = s].pid = r.pid /\ [r EXCEPT !.st = s].inc = r.inc
           /\ [r EXCEPT !.st = s].boot = r.boot
           /\ [r EXCEPT !.kind = k].pid = r.pid /\ [r EXCEPT !.kind = k].inc = r.inc
           /\ [r EXCEPT !.kind = k].boot = r.boot
OBVIOUS

\* The record a process publishes is one, and is not `None`.
LEMMA MyRecType ==
    ASSUME TypeOK, NEW p \in Proc, NEW k \in Kinds, NEW s \in Stages
    PROVE  /\ MyRec(p, k, s) \in Rec
           /\ MyRec(p, k, s) # None
           /\ MyRec(p, k, s).pid = p /\ MyRec(p, k, s).inc = inc[p]
           /\ MyRec(p, k, s).boot = boot
BY DEF TypeOK, MyRec

\* Two processes do not hold the same level: the inode there has one creator.
LEMMA OneHolder ==
    ASSUME HoldersOwn, NEW p \in Proc, NEW q \in Proc,
           pc[p] \in Holding, pc[q] \in Holding, lvl[p] = lvl[q]
    PROVE  p = q
BY DEF HoldersOwn, MyInode

\* The initial states, with or without a leftover lock, satisfy IInv.
LEMMA InitInv == Init => IInv
BY LeftoverAssumption
   DEF Init, IInv, TypeOK, PC, HoldersOwn, Holding, LevelsOK, Recovering, FilesOK, RecoveryOK,
       Dead, Alive

\* Every step keeps the variables in their types.
LEMMA TypeStep == ASSUME IInv, Next PROVE TypeOK'
<1> USE DEF IInv, TypeOK, PC, Goto, Leave, ReleaseThen, locals, world
<1>1. ASSUME NEW p \in Proc, Request(p) PROVE TypeOK'
  BY <1>1 DEF Request
<1>2. ASSUME NEW p \in Proc, GiveUp(p) PROVE TypeOK'
  BY <1>2 DEF GiveUp
<1>3. ASSUME NEW p \in Proc, Look(p) PROVE TypeOK'
  <2>1. owned' = owned \/ owned' = [owned EXCEPT ![p] = MyRec(p, "prov", "staged")]
    BY <1>3 DEF Look
  <2>2. MyRec(p, "prov", "staged") \in Rec
    BY MyRecType
  <2>3. owned' \in [Proc -> Rec \cup {None}]
    BY <2>1, <2>2
  <2>4. pc' \in [Proc -> PC]
    BY <1>3 DEF Look
  <2> QED
    BY <1>3, <2>3, <2>4 DEF Look
<1>4. ASSUME NEW p \in Proc, Contended(p) PROVE TypeOK'
  BY <1>4 DEF Contended
<1>5. ASSUME NEW p \in Proc, Link(p) PROVE TypeOK'
  BY <1>5, MyRecType DEF Link
<1>6. ASSUME NEW p \in Proc, Unstage(p) PROVE TypeOK'
  <2> DEFINE r == [file[lvl[p]] EXCEPT !.st = "final"]
  <2>1. MyInode(p, lvl[p])
    BY <1>6 DEF Unstage, HoldersOwn, Holding
  <2>2. file[lvl[p]] \in Rec
    BY <2>1 DEF MyInode
  <2>3. r \in Rec
    BY <2>2, InodeUpdate
  <2>4. file' = [file EXCEPT ![lvl[p]] = r]
    BY <1>6, <2>1 DEF Unstage
  <2> HIDE DEF r
  <2>5. file' \in [Levels -> Rec \cup {None}]
    BY <2>3, <2>4
  <2> QED
    BY <1>6, <2>5 DEF Unstage
<1>7. ASSUME NEW p \in Proc, CreateExclusive(p) PROVE TypeOK'
  BY <1>7, MyRecType DEF CreateExclusive
<1>8. ASSUME NEW p \in Proc, WriteFallback(p) PROVE TypeOK'
  <2> DEFINE r == [file[lvl[p]] EXCEPT !.kind = "prov"]
  <2>1. MyInode(p, lvl[p])
    BY <1>8 DEF WriteFallback, HoldersOwn, Holding
  <2>2. file[lvl[p]] \in Rec
    BY <2>1 DEF MyInode
  <2>3. r \in Rec
    BY <2>2, InodeUpdate
  <2>4. file' = [file EXCEPT ![lvl[p]] = r]
    BY <1>8, <2>1 DEF WriteFallback
  <2> HIDE DEF r
  <2>5. file' \in [Levels -> Rec \cup {None}]
    BY <2>3, <2>4
  <2>6. owned' \in [Proc -> Rec \cup {None}]
    BY <1>8, MyRecType DEF WriteFallback
  <2> QED
    BY <1>8, <2>5, <2>6 DEF WriteFallback
<1>9. ASSUME NEW p \in Proc, Cleanup(p) PROVE TypeOK'
  BY <1>9 DEF Cleanup
<1>10. ASSUME NEW p \in Proc, Verify(p) PROVE TypeOK'
  BY <1>10 DEF Verify
<1>11. ASSUME NEW p \in Proc, Inspect(p) PROVE TypeOK'
  <2>1. lvl[p] + 1 \in Levels
    BY <1>11 DEF Inspect, Recoverable
  <2>2. file[lvl[p]] \in Rec
    BY <1>11 DEF Inspect, Recoverable
  <2> QED
    BY <1>11, <2>1, <2>2 DEF Inspect
<1>12. ASSUME NEW p \in Proc, InspectBusy(p) PROVE TypeOK'
  BY <1>12 DEF InspectBusy
<1>13. ASSUME NEW p \in Proc, Recheck(p) PROVE TypeOK'
  BY <1>13 DEF Recheck
<1>14. ASSUME NEW p \in Proc, Backup(p) PROVE TypeOK'
  BY <1>14 DEF Backup, LevelsOK, Recovering
<1>15. ASSUME NEW p \in Proc, Confirm(p) PROVE TypeOK'
  BY <1>15 DEF Confirm
<1>16. ASSUME NEW p \in Proc, Remove(p) PROVE TypeOK'
  BY <1>16 DEF Remove, LevelsOK, Recovering
<1>17. ASSUME NEW p \in Proc, Exit(p) PROVE TypeOK'
  BY <1>17 DEF Exit
<1>18. ASSUME NEW p \in Proc, Release(p) PROVE TypeOK'
  <2>1. CASE Unchanged(lvl[p], owned[p])
    BY <1>18, <2>1 DEF Release, Unchanged
  <2>2. CASE ~Unchanged(lvl[p], owned[p])
    <3>1. Leave(p, ret[p]) /\ UNCHANGED <<file, inc, boot, quarantine>>
      BY <1>18, <2>2 DEF Release, Unchanged
    <3>2. ret[p] \in PC
      OBVIOUS
    <3> QED
      BY <3>1, <3>2
  <2> QED
    BY <2>1, <2>2
<1>19. ASSUME NEW p \in Proc, Unlink(p) PROVE TypeOK'
  BY <1>19 DEF Unlink
<1>20. ASSUME NEW p \in Proc, WriteFails(p) PROVE TypeOK'
  BY <1>20 DEF WriteFails
<1>21. ASSUME NEW p \in Proc, VerifyFails(p) PROVE TypeOK'
  BY <1>21 DEF VerifyFails
<1>22. ASSUME NEW p \in Proc, SyncFails(p) PROVE TypeOK'
  BY <1>22 DEF SyncFails
<1>23. ASSUME NEW p \in Proc, RecoveryFails(p) PROVE TypeOK'
  BY <1>23 DEF RecoveryFails
<1>24. ASSUME NEW p \in Proc, Crash(p) PROVE TypeOK'
  BY <1>24 DEF Crash
<1>25. ASSUME NEW p \in Proc, Spawn(p) PROVE TypeOK'
  BY <1>25 DEF Spawn
<1>26. CASE Reboot
  BY <1>26 DEF Reboot
<1>27. ASSUME NEW p \in Proc, PublishFails(p) PROVE TypeOK'
  BY <1>27 DEF PublishFails
<1>28. ASSUME NEW p \in Proc, UnlinkFails(p) PROVE TypeOK'
  BY <1>28 DEF UnlinkFails
<1> QED
  BY <1>1, <1>2, <1>3, <1>4, <1>5, <1>6, <1>7, <1>8, <1>9, <1>10, <1>11, <1>12, <1>13, <1>14,
     <1>15, <1>16, <1>17, <1>18, <1>19, <1>20, <1>21, <1>22, <1>23, <1>24,
     <1>25, <1>26, <1>27, <1>28
     DEF Next, Step, Fault

\* Publication makes the inode at its level p's own, and nobody else takes it away:
\* a removal during recovery hits a dead owner's file.
LEMMA HoldersOwnStep == ASSUME IInv, Next PROVE HoldersOwn'
<1> USE DEF IInv, TypeOK, HoldersOwn, Holding, MyInode, Goto, Leave, ReleaseThen, locals, world
<1>1. ASSUME NEW p \in Proc, Request(p) PROVE HoldersOwn'
  BY <1>1 DEF Request
<1>2. ASSUME NEW p \in Proc, GiveUp(p) PROVE HoldersOwn'
  BY <1>2 DEF GiveUp
<1>3. ASSUME NEW p \in Proc, Look(p) PROVE HoldersOwn'
  BY <1>3 DEF Look
<1>4. ASSUME NEW p \in Proc, Contended(p) PROVE HoldersOwn'
  BY <1>4 DEF Contended
<1>5. ASSUME NEW p \in Proc, Link(p) PROVE HoldersOwn'
  BY <1>5, MyRecType DEF Link
<1>6. ASSUME NEW p \in Proc, Unstage(p) PROVE HoldersOwn'
  <2> DEFINE r == [file[lvl[p]] EXCEPT !.st = "final"]
  <2>1. file[lvl[p]] \in Rec
    BY <1>6 DEF Unstage
  <2>2. r \in Rec
    BY <2>1, InodeUpdate
  <2>3. r.pid = file[lvl[p]].pid /\ r.inc = file[lvl[p]].inc
    BY <2>1
  <2>4. file' = [file EXCEPT ![lvl[p]] = r]
    BY <1>6 DEF Unstage
  <2> HIDE DEF r
  <2>5. \A l \in Levels : file[l] # None =>
           file'[l] # None /\ file'[l].pid = file[l].pid /\ file'[l].inc = file[l].inc
    BY <2>2, <2>3, <2>4
  <2> QED
    BY <1>6, <2>5 DEF Unstage
<1>7. ASSUME NEW p \in Proc, CreateExclusive(p) PROVE HoldersOwn'
  BY <1>7, MyRecType DEF CreateExclusive
<1>8. ASSUME NEW p \in Proc, WriteFallback(p) PROVE HoldersOwn'
  <2> DEFINE r == [file[lvl[p]] EXCEPT !.kind = "prov"]
  <2>1. file[lvl[p]] \in Rec
    BY <1>8 DEF WriteFallback
  <2>2. r \in Rec
    BY <2>1, InodeUpdate
  <2>3. r.pid = file[lvl[p]].pid /\ r.inc = file[lvl[p]].inc
    BY <2>1
  <2>4. file' = [file EXCEPT ![lvl[p]] = r]
    BY <1>8 DEF WriteFallback
  <2> HIDE DEF r
  <2>5. \A l \in Levels : file[l] # None =>
           file'[l] # None /\ file'[l].pid = file[l].pid /\ file'[l].inc = file[l].inc
    BY <2>2, <2>3, <2>4
  <2> QED
    BY <1>8, <2>5 DEF WriteFallback
<1>9. ASSUME NEW p \in Proc, Cleanup(p) PROVE HoldersOwn'
  BY <1>9 DEF Cleanup
<1>10. ASSUME NEW p \in Proc, Verify(p) PROVE HoldersOwn'
  BY <1>10 DEF Verify
<1>11. ASSUME NEW p \in Proc, Inspect(p) PROVE HoldersOwn'
  BY <1>11 DEF Inspect, Recoverable
<1>12. ASSUME NEW p \in Proc, InspectBusy(p) PROVE HoldersOwn'
  BY <1>12 DEF InspectBusy
<1>13. ASSUME NEW p \in Proc, Recheck(p) PROVE HoldersOwn'
  BY <1>13 DEF Recheck
<1>14. ASSUME NEW p \in Proc, Backup(p) PROVE HoldersOwn'
  BY <1>14 DEF Backup
<1>15. ASSUME NEW p \in Proc, Confirm(p) PROVE HoldersOwn'
  BY <1>15 DEF Confirm
<1>16. ASSUME NEW p \in Proc, Remove(p) PROVE HoldersOwn'
  BY <1>16 DEF Remove, RecoveryOK, LevelsOK, Recovering, Dead, Alive
<1>17. ASSUME NEW p \in Proc, Exit(p) PROVE HoldersOwn'
  BY <1>17 DEF Exit
<1>18. ASSUME NEW p \in Proc, Release(p) PROVE HoldersOwn'
  BY <1>18 DEF Release
<1>19. ASSUME NEW p \in Proc, Unlink(p) PROVE HoldersOwn'
  <2>1. ret[p] \notin Holding
    OBVIOUS
  <2> QED
    BY <1>19, <2>1 DEF Unlink
<1>20. ASSUME NEW p \in Proc, WriteFails(p) PROVE HoldersOwn'
  BY <1>20 DEF WriteFails
<1>21. ASSUME NEW p \in Proc, VerifyFails(p) PROVE HoldersOwn'
  BY <1>21 DEF VerifyFails
<1>22. ASSUME NEW p \in Proc, SyncFails(p) PROVE HoldersOwn'
  BY <1>22 DEF SyncFails
<1>23. ASSUME NEW p \in Proc, RecoveryFails(p) PROVE HoldersOwn'
  BY <1>23 DEF RecoveryFails
<1>24. ASSUME NEW p \in Proc, Crash(p) PROVE HoldersOwn'
  BY <1>24 DEF Crash
<1>25. ASSUME NEW p \in Proc, Spawn(p) PROVE HoldersOwn'
  BY <1>25 DEF Spawn
<1>26. CASE Reboot
  BY <1>26 DEF Reboot
<1>27. ASSUME NEW p \in Proc, PublishFails(p) PROVE HoldersOwn'
  BY <1>27 DEF PublishFails
<1>28. ASSUME NEW p \in Proc, UnlinkFails(p) PROVE HoldersOwn'
  BY <1>28 DEF UnlinkFails
<1> QED
  BY <1>1, <1>2, <1>3, <1>4, <1>5, <1>6, <1>7, <1>8, <1>9, <1>10, <1>11, <1>12, <1>13, <1>14,
     <1>15, <1>16, <1>17, <1>18, <1>19, <1>20, <1>21, <1>22, <1>23, <1>24,
     <1>25, <1>26, <1>27, <1>28
     DEF Next, Step, Fault

\* The caller's section is entered at level 0, recovery works above it.
LEMMA LevelsStep == ASSUME IInv, Next PROVE LevelsOK'
<1> USE DEF IInv, TypeOK, LevelsOK, Recovering, Goto, Leave, ReleaseThen, locals, world
<1>1. ASSUME NEW p \in Proc, Request(p) PROVE LevelsOK'
  BY <1>1 DEF Request
<1>2. ASSUME NEW p \in Proc, GiveUp(p) PROVE LevelsOK'
  BY <1>2 DEF GiveUp
<1>3. ASSUME NEW p \in Proc, Look(p) PROVE LevelsOK'
  BY <1>3 DEF Look
<1>4. ASSUME NEW p \in Proc, Contended(p) PROVE LevelsOK'
  BY <1>4 DEF Contended
<1>5. ASSUME NEW p \in Proc, Link(p) PROVE LevelsOK'
  BY <1>5 DEF Link
<1>6. ASSUME NEW p \in Proc, Unstage(p) PROVE LevelsOK'
  BY <1>6 DEF Unstage
<1>7. ASSUME NEW p \in Proc, CreateExclusive(p) PROVE LevelsOK'
  BY <1>7 DEF CreateExclusive
<1>8. ASSUME NEW p \in Proc, WriteFallback(p) PROVE LevelsOK'
  BY <1>8 DEF WriteFallback
<1>9. ASSUME NEW p \in Proc, Cleanup(p) PROVE LevelsOK'
  BY <1>9 DEF Cleanup
<1>10. ASSUME NEW p \in Proc, Verify(p) PROVE LevelsOK'
  BY <1>10 DEF Verify
<1>11. ASSUME NEW p \in Proc, Inspect(p) PROVE LevelsOK'
  BY <1>11 DEF Inspect, Recoverable
<1>12. ASSUME NEW p \in Proc, InspectBusy(p) PROVE LevelsOK'
  BY <1>12 DEF InspectBusy
<1>13. ASSUME NEW p \in Proc, Recheck(p) PROVE LevelsOK'
  BY <1>13 DEF Recheck
<1>14. ASSUME NEW p \in Proc, Backup(p) PROVE LevelsOK'
  BY <1>14 DEF Backup
<1>15. ASSUME NEW p \in Proc, Confirm(p) PROVE LevelsOK'
  BY <1>15 DEF Confirm
<1>16. ASSUME NEW p \in Proc, Remove(p) PROVE LevelsOK'
  BY <1>16 DEF Remove
<1>17. ASSUME NEW p \in Proc, Exit(p) PROVE LevelsOK'
  BY <1>17 DEF Exit
<1>18. ASSUME NEW p \in Proc, Release(p) PROVE LevelsOK'
  <2>1. CASE Unchanged(lvl[p], owned[p])
    BY <1>18, <2>1 DEF Release, Unchanged
  <2>2. CASE ~Unchanged(lvl[p], owned[p])
    <3>1. Leave(p, ret[p]) /\ UNCHANGED <<file, inc, boot, quarantine>>
      BY <1>18, <2>2 DEF Release, Unchanged
    <3>2. ret[p] \notin Recovering \cup {"cs"}
      OBVIOUS
    <3> QED
      BY <3>1, <3>2
  <2> QED
    BY <2>1, <2>2
<1>19. ASSUME NEW p \in Proc, Unlink(p) PROVE LevelsOK'
  <2>1. ret[p] \notin Recovering \cup {"cs"}
    OBVIOUS
  <2> QED
    BY <1>19, <2>1 DEF Unlink
<1>20. ASSUME NEW p \in Proc, WriteFails(p) PROVE LevelsOK'
  BY <1>20 DEF WriteFails
<1>21. ASSUME NEW p \in Proc, VerifyFails(p) PROVE LevelsOK'
  BY <1>21 DEF VerifyFails
<1>22. ASSUME NEW p \in Proc, SyncFails(p) PROVE LevelsOK'
  BY <1>22 DEF SyncFails
<1>23. ASSUME NEW p \in Proc, RecoveryFails(p) PROVE LevelsOK'
  BY <1>23 DEF RecoveryFails
<1>24. ASSUME NEW p \in Proc, Crash(p) PROVE LevelsOK'
  BY <1>24 DEF Crash
<1>25. ASSUME NEW p \in Proc, Spawn(p) PROVE LevelsOK'
  BY <1>25 DEF Spawn
<1>26. CASE Reboot
  BY <1>26 DEF Reboot
<1>27. ASSUME NEW p \in Proc, PublishFails(p) PROVE LevelsOK'
  BY <1>27 DEF PublishFails
<1>28. ASSUME NEW p \in Proc, UnlinkFails(p) PROVE LevelsOK'
  BY <1>28 DEF UnlinkFails
<1> QED
  BY <1>1, <1>2, <1>3, <1>4, <1>5, <1>6, <1>7, <1>8, <1>9, <1>10, <1>11, <1>12, <1>13, <1>14,
     <1>15, <1>16, <1>17, <1>18, <1>19, <1>20, <1>21, <1>22, <1>23, <1>24,
     <1>25, <1>26, <1>27, <1>28
     DEF Next, Step, Fault

\* Incarnations only grow, and a reboot kills every owner it makes out of date.
LEMMA FilesStep == ASSUME IInv, Next PROVE FilesOK'
<1> USE DEF IInv, TypeOK, HoldersOwn, Holding, LevelsOK, Recovering, FilesOK, MyInode, Dead, Alive, Goto, Leave, ReleaseThen, locals, world
<1>1. ASSUME NEW p \in Proc, Request(p) PROVE FilesOK'
  BY <1>1 DEF Request
<1>2. ASSUME NEW p \in Proc, GiveUp(p) PROVE FilesOK'
  BY <1>2 DEF GiveUp
<1>3. ASSUME NEW p \in Proc, Look(p) PROVE FilesOK'
  BY <1>3 DEF Look
<1>4. ASSUME NEW p \in Proc, Contended(p) PROVE FilesOK'
  BY <1>4 DEF Contended
<1>5. ASSUME NEW p \in Proc, Link(p) PROVE FilesOK'
  BY <1>5, MyRecType DEF Link
<1>6. ASSUME NEW p \in Proc, Unstage(p) PROVE FilesOK'
  BY <1>6 DEF Unstage
<1>7. ASSUME NEW p \in Proc, CreateExclusive(p) PROVE FilesOK'
  BY <1>7, MyRecType DEF CreateExclusive
<1>8. ASSUME NEW p \in Proc, WriteFallback(p) PROVE FilesOK'
  BY <1>8 DEF WriteFallback
<1>9. ASSUME NEW p \in Proc, Cleanup(p) PROVE FilesOK'
  BY <1>9 DEF Cleanup
<1>10. ASSUME NEW p \in Proc, Verify(p) PROVE FilesOK'
  BY <1>10 DEF Verify
<1>11. ASSUME NEW p \in Proc, Inspect(p) PROVE FilesOK'
  BY <1>11 DEF Inspect, Recoverable
<1>12. ASSUME NEW p \in Proc, InspectBusy(p) PROVE FilesOK'
  BY <1>12 DEF InspectBusy
<1>13. ASSUME NEW p \in Proc, Recheck(p) PROVE FilesOK'
  BY <1>13 DEF Recheck
<1>14. ASSUME NEW p \in Proc, Backup(p) PROVE FilesOK'
  BY <1>14 DEF Backup
<1>15. ASSUME NEW p \in Proc, Confirm(p) PROVE FilesOK'
  BY <1>15 DEF Confirm
<1>16. ASSUME NEW p \in Proc, Remove(p) PROVE FilesOK'
  BY <1>16 DEF Remove
<1>17. ASSUME NEW p \in Proc, Exit(p) PROVE FilesOK'
  BY <1>17 DEF Exit
<1>18. ASSUME NEW p \in Proc, Release(p) PROVE FilesOK'
  BY <1>18 DEF Release
<1>19. ASSUME NEW p \in Proc, Unlink(p) PROVE FilesOK'
  BY <1>19 DEF Unlink
<1>20. ASSUME NEW p \in Proc, WriteFails(p) PROVE FilesOK'
  BY <1>20 DEF WriteFails
<1>21. ASSUME NEW p \in Proc, VerifyFails(p) PROVE FilesOK'
  BY <1>21 DEF VerifyFails
<1>22. ASSUME NEW p \in Proc, SyncFails(p) PROVE FilesOK'
  BY <1>22 DEF SyncFails
<1>23. ASSUME NEW p \in Proc, RecoveryFails(p) PROVE FilesOK'
  BY <1>23 DEF RecoveryFails
<1>24. ASSUME NEW p \in Proc, Crash(p) PROVE FilesOK'
  BY <1>24 DEF Crash
<1>25. ASSUME NEW p \in Proc, Spawn(p) PROVE FilesOK'
  BY <1>25 DEF Spawn
<1>26. CASE Reboot
  BY <1>26 DEF Reboot
<1>27. ASSUME NEW p \in Proc, PublishFails(p) PROVE FilesOK'
  BY <1>27 DEF PublishFails
<1>28. ASSUME NEW p \in Proc, UnlinkFails(p) PROVE FilesOK'
  BY <1>28 DEF UnlinkFails
<1> QED
  BY <1>1, <1>2, <1>3, <1>4, <1>5, <1>6, <1>7, <1>8, <1>9, <1>10, <1>11, <1>12, <1>13, <1>14,
     <1>15, <1>16, <1>17, <1>18, <1>19, <1>20, <1>21, <1>22, <1>23, <1>24,
     <1>25, <1>26, <1>27, <1>28
     DEF Next, Step, Fault

\* A reclaimer's captured owner stays dead, and while it holds the guard the stale
\* file stays at its path.
LEMMA RecoveryStep == ASSUME IInv, Next PROVE RecoveryOK'
<1> USE DEF IInv, TypeOK, HoldersOwn, Holding, LevelsOK, Recovering, RecoveryOK, MyInode, Dead, Alive, Goto, Leave, ReleaseThen, locals, world
<1>1. ASSUME NEW p \in Proc, Request(p) PROVE RecoveryOK'
  BY <1>1 DEF Request
<1>2. ASSUME NEW p \in Proc, GiveUp(p) PROVE RecoveryOK'
  BY <1>2 DEF GiveUp
<1>3. ASSUME NEW p \in Proc, Look(p) PROVE RecoveryOK'
  BY <1>3 DEF Look
<1>4. ASSUME NEW p \in Proc, Contended(p) PROVE RecoveryOK'
  BY <1>4 DEF Contended
<1>5. ASSUME NEW p \in Proc, Link(p) PROVE RecoveryOK'
  BY <1>5 DEF Link
<1>6. ASSUME NEW p \in Proc, Unstage(p) PROVE RecoveryOK'
  BY <1>6 DEF Unstage
<1>7. ASSUME NEW p \in Proc, CreateExclusive(p) PROVE RecoveryOK'
  BY <1>7 DEF CreateExclusive
<1>8. ASSUME NEW p \in Proc, WriteFallback(p) PROVE RecoveryOK'
  BY <1>8 DEF WriteFallback
<1>9. ASSUME NEW p \in Proc, Cleanup(p) PROVE RecoveryOK'
  BY <1>9 DEF Cleanup
<1>10. ASSUME NEW p \in Proc, Verify(p) PROVE RecoveryOK'
  BY <1>10 DEF Verify
<1>11. ASSUME NEW p \in Proc, Inspect(p) PROVE RecoveryOK'
  BY <1>11 DEF Inspect, Recoverable
<1>12. ASSUME NEW p \in Proc, InspectBusy(p) PROVE RecoveryOK'
  BY <1>12 DEF InspectBusy
<1>13. ASSUME NEW p \in Proc, Recheck(p) PROVE RecoveryOK'
  <2>1. ASSUME Reclaimable(seen[p]), Unchanged(lvl[p] - 1, seen[p])
        PROVE  Dead(seen[p]) /\ seen[p].inc <= inc[seen[p].pid]
    <3>1. lvl[p] - 1 \in Levels /\ seen[p] # None
      BY <1>13 DEF Recheck
    <3>2. PICK l \in Levels : l = lvl[p] - 1 /\ file[l] = seen[p] /\ file[l] # None
      BY <2>1, <3>1 DEF Unchanged
    <3>3. Dead(file[l])
      BY <2>1, <3>2, ReclaimableIsDead
    <3>4. file[l].inc <= inc[file[l].pid]
      BY <3>2 DEF FilesOK
    <3> QED BY <3>2, <3>3, <3>4
  <2> QED
    BY <1>13, <2>1 DEF Recheck
<1>14. ASSUME NEW p \in Proc, Backup(p) PROVE RecoveryOK'
  BY <1>14 DEF Backup
<1>15. ASSUME NEW p \in Proc, Confirm(p) PROVE RecoveryOK'
  <2>1. pc[p] = "confirm" /\ UNCHANGED <<file, lvl, seen, inc, quarantine>>
    BY <1>15 DEF Confirm
  <2>2. \/ pc' = [pc EXCEPT ![p] = "remove"] /\ file[lvl[p] - 1] = seen[p]
        \/ pc' = [pc EXCEPT ![p] = "release"]
    BY <1>15 DEF Confirm, Unchanged
  <2>3. \A x \in Proc : pc'[x] # "dead" <=> pc[x] # "dead"
    BY <2>1, <2>2
  <2>4. \A q \in Proc : pc[q] \in Recovering => seen[q] \in Rec /\ seen[q].pid \in Proc
    OBVIOUS
  <2> QED BY <2>1, <2>2, <2>3, <2>4
<1>16. ASSUME NEW p \in Proc, Remove(p) PROVE RecoveryOK'
  <2>1. \A q \in Proc : pc[q] = "remove" /\ lvl[q] = lvl[p] => q = p
    BY <1>16, OneHolder DEF Remove
  <2> QED
    BY <1>16, <2>1 DEF Remove
<1>17. ASSUME NEW p \in Proc, Exit(p) PROVE RecoveryOK'
  BY <1>17 DEF Exit
<1>18. ASSUME NEW p \in Proc, Release(p) PROVE RecoveryOK'
  <2>1. ret[p] \notin {"backup", "confirm", "remove", "dead"}
    OBVIOUS
  <2>2. pc[p] = "release" /\ UNCHANGED <<file, inc, quarantine>>
    BY <1>18 DEF Release
  <2>3. pc' = [pc EXCEPT ![p] = "unlink"] \/ pc' = [pc EXCEPT ![p] = ret[p]]
    BY <1>18 DEF Release
  <2>4. \A q \in Proc : q # p => pc'[q] = pc[q] /\ lvl'[q] = lvl[q] /\ seen'[q] = seen[q]
    BY <1>18 DEF Release
  <2>5. \A q \in Proc : /\ pc'[q] # "dead" <=> pc[q] # "dead"
                        /\ pc'[q] \in {"backup", "confirm", "remove"} => q # p
    BY <2>1, <2>2, <2>3
  <2>6. \A q \in Proc : pc[q] \in Recovering => seen[q] \in Rec /\ seen[q].pid \in Proc
    OBVIOUS
  <2> QED
    BY <2>2, <2>4, <2>5, <2>6
<1>19. ASSUME NEW p \in Proc, Unlink(p) PROVE RecoveryOK'
  <2>1. ret[p] \notin {"backup", "confirm", "remove"}
    OBVIOUS
  <2>2. \A q \in Proc : pc'[q] = "remove" => q # p /\ file'[lvl[q] - 1] = file[lvl[q] - 1]
    BY <1>19, <2>1 DEF Unlink
  <2> QED
    BY <1>19, <2>1, <2>2 DEF Unlink
<1>20. ASSUME NEW p \in Proc, WriteFails(p) PROVE RecoveryOK'
  BY <1>20 DEF WriteFails
<1>21. ASSUME NEW p \in Proc, VerifyFails(p) PROVE RecoveryOK'
  BY <1>21 DEF VerifyFails
<1>22. ASSUME NEW p \in Proc, SyncFails(p) PROVE RecoveryOK'
  BY <1>22 DEF SyncFails
<1>23. ASSUME NEW p \in Proc, RecoveryFails(p) PROVE RecoveryOK'
  BY <1>23 DEF RecoveryFails
<1>24. ASSUME NEW p \in Proc, Crash(p) PROVE RecoveryOK'
  BY <1>24 DEF Crash
<1>25. ASSUME NEW p \in Proc, Spawn(p) PROVE RecoveryOK'
  BY <1>25 DEF Spawn
<1>26. CASE Reboot
  BY <1>26 DEF Reboot
<1>27. ASSUME NEW p \in Proc, PublishFails(p) PROVE RecoveryOK'
  BY <1>27 DEF PublishFails
<1>28. ASSUME NEW p \in Proc, UnlinkFails(p) PROVE RecoveryOK'
  BY <1>28 DEF UnlinkFails
<1> QED
  BY <1>1, <1>2, <1>3, <1>4, <1>5, <1>6, <1>7, <1>8, <1>9, <1>10, <1>11, <1>12, <1>13, <1>14,
     <1>15, <1>16, <1>17, <1>18, <1>19, <1>20, <1>21, <1>22, <1>23, <1>24,
     <1>25, <1>26, <1>27, <1>28
     DEF Next, Step, Fault

\* The initial states satisfy IInv and every step preserves it.
THEOREM Invariance == Spec => []IInv
<1>1. ASSUME IInv, [Next]_vars PROVE IInv'
  <2>1. CASE Next
    BY <1>1, <2>1, TypeStep, HoldersOwnStep, LevelsStep, FilesStep, RecoveryStep DEF IInv
  <2>2. CASE UNCHANGED vars
    BY <1>1, <2>2
       DEF vars, IInv, TypeOK, HoldersOwn, LevelsOK, FilesOK, RecoveryOK, MyInode, Dead, Alive
  <2> QED
    BY <1>1, <2>1, <2>2
<1> QED
  BY InitInv, <1>1, PTL DEF Spec

\* The variables of the lock stay in their types; in particular recovery never
\* nests deeper than MaxDepth.
THEOREM TypeCorrect == Spec => []TypeOK
BY Invariance, PTL DEF IInv

\* withLock and withLockSync exclude each other for any number of processes,
\* crashes, pid reuses and reboots, and any mix of publications by link and by
\* exclusive create.
THEOREM MutualExclusionHolds == Spec => []MutualExclusion
<1>1. IInv => MutualExclusion
  BY OneHolder DEF IInv, LevelsOK, MutualExclusion, Holding
<1> QED
  BY Invariance, <1>1, PTL

\* No two processes recover the same stale lock at once.
THEOREM RecoverySerializedHolds == Spec => []RecoverySerialized
<1>1. IInv => RecoverySerialized
  BY OneHolder DEF IInv, RecoverySerialized, Recovering, Holding
<1> QED
  BY Invariance, <1>1, PTL

\* The steps that touch a file: a publication needs an empty path, a process's
\* own steps touch its own inode, and a removal touches the captured dead one.
LEMMA FileChanges ==
    ASSUME IInv, Next, NEW l \in Levels, file[l] # None, file'[l] # file[l]
    PROVE  \/ \E p \in Proc : /\ pc[p] \in {"unstage", "write", "cleanup", "unlink"}
                              /\ lvl[p] = l /\ MyInode(p, l) /\ pc'[p] # pc[p]
           \/ \E p \in Proc : pc[p] = "remove" /\ lvl[p] - 1 = l /\ file[l] = seen[p]
<1> USE DEF IInv, TypeOK, HoldersOwn, Holding, Goto, Leave, ReleaseThen, locals, world
<1>1. PICK p \in Proc : \/ Link(p) \/ Unstage(p) \/ CreateExclusive(p) \/ WriteFallback(p)
                        \/ Cleanup(p) \/ Remove(p) \/ Unlink(p)
  BY DEF Next, Step, Fault, Request, GiveUp, Look, Contended, PublishFails, Verify, Inspect, InspectBusy,
         Recheck, Backup, Confirm, Exit, Release, WriteFails, VerifyFails, SyncFails,
         RecoveryFails, UnlinkFails, Crash, Spawn, Reboot
<1>2. CASE Link(p)
  BY <1>2 DEF Link
<1>3. CASE Unstage(p)
  BY <1>3 DEF Unstage
<1>4. CASE CreateExclusive(p)
  BY <1>4 DEF CreateExclusive
<1>5. CASE WriteFallback(p)
  BY <1>5 DEF WriteFallback
<1>6. CASE Cleanup(p)
  BY <1>6 DEF Cleanup
<1>7. CASE Remove(p)
  BY <1>7 DEF Remove, RecoveryOK, LevelsOK, Recovering
<1>8. CASE Unlink(p)
  BY <1>8 DEF Unlink
<1> QED
  BY <1>1, <1>2, <1>3, <1>4, <1>5, <1>6, <1>7, <1>8

\* A running process's lock or guard is changed or removed by itself alone.
THEOREM LiveRecordKeptHolds == Spec => LiveRecordKept
<1>1. IInv /\ Next => OwnStepOnly
  BY FileChanges DEF IInv, OwnStepOnly, RecoveryOK, MyInode
<1>2. IInv /\ [Next]_vars => [OwnStepOnly]_vars
  BY <1>1
<1> QED
  BY Invariance, <1>2, PTL DEF Spec, LiveRecordKept

\* A dead owner's payload is saved before its file goes.
THEOREM QuarantinedFirstHolds == Spec => QuarantinedFirst
<1>1. IInv /\ Next => SavedFirst
  BY FileChanges DEF IInv, SavedFirst, RecoveryOK, MyInode, Dead, Alive
<1>2. IInv /\ [Next]_vars => [SavedFirst]_vars
  BY <1>1
<1> QED
  BY Invariance, <1>2, PTL DEF Spec, QuarantinedFirst

=============================================================================
