-------------------------- MODULE LockServiceProofs --------------------------
(* AdvisoryLock implements LockService, for every set of processes and every   *)
(* bound: Init implies the service's initial condition, and every step is one  *)
(* of the service's steps or leaves what it speaks about unchanged.            *)
EXTENDS AdvisoryLockProofs

USE DepthAssumption, BoundAssumption, NoneAssumption, IdentAssumption
    DEF Levels, Rec, Kinds, Stages

\* The refinement mapping: the lock belongs to the creator of the inode at level 0.
Holder == IF file[0] = None THEN None ELSE [pid |-> file[0].pid, inc |-> file[0].inc]
Inside == {Id(p) : p \in {q \in Proc : pc[q] = "cs"}}
Live == {Id(p) : p \in {q \in Proc : Alive(q)}}
Ident == [pid : Proc, inc : 0 .. MaxInc]

\* Incarnations stay within their bound, and a dead pid can still be reused.
IncBounded == \A p \in Proc : inc[p] \in 0 .. MaxInc /\ (pc[p] = "dead" => inc[p] < MaxInc)

RInv == IInv /\ IncBounded

LEMMA BoundStep == ASSUME IInv, IncBounded, [Next]_vars PROVE IncBounded'
<1> USE DEF IInv, TypeOK, IncBounded, Goto, Leave, ReleaseThen
<1>1. ASSUME NEW p \in Proc, Spawn(p) PROVE IncBounded'
  BY <1>1 DEF Spawn
<1>2. ASSUME NEW p \in Proc, Crash(p) PROVE IncBounded'
  BY <1>2 DEF Crash, world
<1>3. CASE Reboot
  BY <1>3 DEF Reboot
<1>4. ASSUME ~Reboot, ~\E p \in Proc : Spawn(p) \/ Crash(p)
      PROVE  UNCHANGED inc /\ \A q \in Proc : pc'[q] = "dead" => pc[q] = "dead"
  <2>1. CASE UNCHANGED vars
    BY <2>1 DEF vars
  <2>2. ASSUME NEW p \in Proc, \/ Release(p) \/ Unlink(p)
        PROVE  UNCHANGED inc /\ \A q \in Proc : pc'[q] = "dead" => pc[q] = "dead"
    <3>1. UNCHANGED inc
      BY <2>2 DEF Release, Unlink, world
    <3>2. ret[p] # "dead"
      OBVIOUS
    <3>3. pc' = [pc EXCEPT ![p] = ret[p]] \/ pc' = [pc EXCEPT ![p] = "unlink"]
      BY <2>2 DEF Release, Unlink
    <3> QED BY <3>1, <3>2, <3>3
  <2>3. ASSUME NEW p \in Proc, \/ Request(p) \/ GiveUp(p) \/ Fault(p)
        PROVE  UNCHANGED inc /\ \A q \in Proc : pc'[q] = "dead" => pc[q] = "dead"
    BY <2>3 DEF Request, GiveUp, Fault, PublishFails, WriteFails, VerifyFails, SyncFails,
                RecoveryFails, UnlinkFails, world
  <2>4. ASSUME NEW p \in Proc, Step(p), ~Release(p), ~Unlink(p)
        PROVE  UNCHANGED inc /\ \E s \in PC \ {"dead"} : pc' = [pc EXCEPT ![p] = s]
    BY <2>4 DEF Step, Look, Contended, Link, Unstage, CreateExclusive,
       WriteFallback, Cleanup, Verify, Inspect, InspectBusy, Recheck, Backup, Confirm, Remove, Exit,
       world, PC
  <2> QED BY <1>4, <2>1, <2>2, <2>3, <2>4 DEF Next
<1> QED BY <1>1, <1>2, <1>3, <1>4

LEMMA RefInvariance == Spec => []RInv
<1>1. Init => IncBounded
  BY DEF Init, IncBounded
<1>2. RInv /\ [Next]_vars => IncBounded'
  BY BoundStep DEF RInv
<1> QED BY <1>1, <1>2, Invariance, PTL DEF Spec, RInv

-----------------------------------------------------------------------------
\* Identities tell processes apart.
LEMMA IdFacts ==
    ASSUME RInv, NEW p \in Proc
    PROVE  /\ Id(p) \in Ident /\ Id(p) # None
           /\ Id(p) \in Live <=> Alive(p)
           /\ Id(p) \in Inside <=> pc[p] = "cs"
           /\ \A q \in Proc : Id(q) = Id(p) => q = p
<1>1. \A q \in Proc : Id(q) = Id(p) => q = p
  BY DEF Id
<1>2. Id(p) \in Ident /\ Id(p) # None
  BY DEF Id, Ident, RInv, IncBounded, IInv, TypeOK
<1> QED BY <1>1, <1>2 DEF Live, Inside

LEMMA HolderFacts ==
    ASSUME RInv
    PROVE  /\ Holder \in Ident \cup {None}
           /\ Holder = None <=> file[0] = None
           /\ \A p \in Proc : Holder = Id(p) <=> MyInode(p, 0)
           /\ file[0] # None => (Holder \in Live <=> ~Dead(file[0]))
           /\ Live \subseteq Ident /\ None \notin Ident /\ Inside \subseteq Live
<1>0. TypeOK /\ FilesOK /\ 0 \in Levels
  BY DEF RInv, IInv
<1>1. CASE file[0] = None
  <2>1. Holder = None
    BY <1>1 DEF Holder
  <2>2. \A p \in Proc : Id(p) # None /\ ~MyInode(p, 0)
    BY <1>1, IdFacts DEF MyInode
  <2> QED BY <1>1, <2>1, <2>2, IdFacts DEF Live, Inside, Ident, Alive
<1>2. CASE file[0] # None
  <2>1. file[0] \in Rec /\ file[0].pid \in Proc /\ file[0].inc \in Nat
    BY <1>0, <1>2 DEF TypeOK
  <2>2. PICK q \in Proc, i \in Nat : q = file[0].pid /\ i = file[0].inc
    BY <2>1
  <2>3. Holder = [pid |-> q, inc |-> i]
    BY <1>2, <2>2 DEF Holder
  <2>4. i <= inc[q] /\ inc[q] \in 0 .. MaxInc
    BY <1>0, <1>2, <2>2 DEF FilesOK, RInv, IncBounded
  <2>5. Holder \in Ident /\ Holder # None
    BY <2>3, <2>4 DEF Ident
  <2>6. \A p \in Proc : Holder = Id(p) <=> MyInode(p, 0)
    BY <1>2, <2>2, <2>3 DEF Id, MyInode
  <2>7. Holder \in Live <=> Alive(q) /\ inc[q] = i
    <3>1. ASSUME Holder \in Live PROVE Alive(q) /\ inc[q] = i
      <4>1. PICK p \in Proc : Alive(p) /\ Holder = Id(p)
        BY <3>1 DEF Live
      <4> QED BY <2>3, <4>1 DEF Id
    <3>2. ASSUME Alive(q), inc[q] = i PROVE Holder \in Live
      <4>1. Holder = Id(q)
        BY <2>3, <3>2 DEF Id
      <4> QED BY <3>2, <4>1 DEF Live
    <3> QED BY <3>1, <3>2
  <2> QED BY <1>2, <2>2, <2>5, <2>6, <2>7, IdFacts DEF Live, Inside, Ident, Dead, Alive
<1> QED BY <1>1, <1>2

\* How the sets of the service move with the processes.
LEMMA SameSets ==
    ASSUME UNCHANGED inc
    PROVE  /\ (\A q \in Proc : Alive(q)' <=> Alive(q)) => Live' = Live
           /\ (\A q \in Proc : pc'[q] = "cs" <=> pc[q] = "cs") => Inside' = Inside
<1>1. \A q \in Proc : Id(q)' = Id(q)
  BY DEF Id
<1> QED BY <1>1 DEF Live, Inside, Alive

\* The service's steps, in terms of the mapping.
LEMMA ServiceSteps ==
    ASSUME \/ /\ Holder' = Holder /\ Inside' = Inside /\ Live' = Live
           \/ \E o \in Ident : Holder = None /\ o \in Live /\ Holder' = o
                               /\ Inside' = Inside /\ Live' = Live
           \/ \E o \in Ident : Holder = o /\ o \in Live /\ Inside' = Inside \cup {o}
                               /\ Holder' = Holder /\ Live' = Live
           \/ \E o \in Ident : o \in Inside /\ Inside' = Inside \ {o}
                               /\ Holder' = Holder /\ Live' = Live
           \/ \E o \in Ident : Holder = o /\ o \in Live \ Inside /\ Holder' = None
                               /\ Inside' = Inside /\ Live' = Live
           \/ \E o \in Ident : o \notin Live /\ o # Holder /\ Live' = Live \cup {o}
                               /\ Holder' = Holder /\ Inside' = Inside
           \/ \E S \in SUBSET Ident : S \subseteq Live /\ Live' = Live \ S
                               /\ Inside' = Inside \ S /\ Holder' = Holder
           \/ Holder \in Ident \ Live /\ Holder' = None /\ Inside' = Inside /\ Live' = Live
    PROVE  [Service!SNext]_(Service!sVars)
BY DEF Service!SNext, Service!sVars, Service!Take, Service!Enter, Service!Leave, Service!Give,
       Service!Start, Service!Die, Service!Evict, Holder, Inside, Live, Ident
-----------------------------------------------------------------------------
(* One lemma per kind of step. *)

\* Everything but publication, verification, removal, death and birth.
LEMMA Stutter ==
    ASSUME RInv, UNCHANGED <<file, inc>>,
           \A q \in Proc : Alive(q)' <=> Alive(q),
           \A q \in Proc : pc'[q] = "cs" <=> pc[q] = "cs"
    PROVE  [Service!SNext]_(Service!sVars)
<1>1. Holder' = Holder
  BY DEF Holder
<1> QED BY <1>1, SameSets, ServiceSteps

\* Steps that only move a process within acquire() or release().
LEMMA QuietSteps ==
    ASSUME RInv, NEW p \in Proc,
           \/ Request(p) \/ GiveUp(p) \/ Look(p) \/ Contended(p) \/ Inspect(p) \/ InspectBusy(p)
           \/ Recheck(p) \/ Backup(p) \/ Confirm(p) \/ Release(p)
           \/ PublishFails(p) \/ WriteFails(p) \/ VerifyFails(p) \/ SyncFails(p)
           \/ RecoveryFails(p) \/ UnlinkFails(p)
    PROVE  [Service!SNext]_(Service!sVars)
<1> USE DEF RInv, IInv, TypeOK, Goto, Leave, ReleaseThen, world, locals
<1>1. UNCHANGED <<file, inc>>
  BY DEF Request, GiveUp, Look, Contended, Inspect, InspectBusy, Recheck, Backup, Confirm, Release,
         PublishFails, WriteFails, VerifyFails, SyncFails, RecoveryFails, UnlinkFails
<1>2. pc[p] \notin {"cs", "dead"}
  BY DEF Request, GiveUp, Look, Contended, Inspect, InspectBusy, Recheck, Backup, Confirm, Release,
         PublishFails, WriteFails, VerifyFails, SyncFails, RecoveryFails, UnlinkFails
<1>3. \E s \in PC \ {"cs", "dead"} : pc' = [pc EXCEPT ![p] = s]
  <2>1. CASE Release(p)
    <3>1. ret[p] \in PC \ {"cs", "dead"}
      BY DEF PC
    <3> QED BY <2>1, <3>1 DEF Release, PC
  <2>2. CASE Look(p) \/ Recheck(p) \/ Confirm(p)
    BY <2>2 DEF Look, Recheck, Confirm, PC
  <2>3. CASE \/ Request(p) \/ GiveUp(p) \/ Contended(p) \/ Inspect(p) \/ InspectBusy(p) \/ Backup(p)
    BY <2>3 DEF Request, GiveUp, Contended, Inspect, InspectBusy, Backup, PC
  <2>4. CASE \/ PublishFails(p) \/ WriteFails(p) \/ VerifyFails(p) \/ SyncFails(p)
             \/ RecoveryFails(p) \/ UnlinkFails(p)
    BY <2>4 DEF PublishFails, WriteFails, VerifyFails, SyncFails, RecoveryFails, UnlinkFails, PC
  <2> QED BY <2>1, <2>2, <2>3, <2>4
<1>4. \A q \in Proc : (Alive(q)' <=> Alive(q)) /\ (pc'[q] = "cs" <=> pc[q] = "cs")
  BY <1>2, <1>3 DEF Alive
<1> QED BY <1>1, <1>4, Stutter

\* The staging file goes, or the fallback is written: the owner stays.
LEMMA OwnerStays ==
    ASSUME RInv, NEW p \in Proc, Unstage(p) \/ WriteFallback(p)
    PROVE  [Service!SNext]_(Service!sVars)
<1> USE DEF RInv, IInv, TypeOK, Goto, world, locals
<1>1. UNCHANGED inc
  BY DEF Unstage, WriteFallback
<1>2. \A q \in Proc : (Alive(q)' <=> Alive(q)) /\ (pc'[q] = "cs" <=> pc[q] = "cs")
  BY DEF Unstage, WriteFallback, Alive
<1>3. MyInode(p, lvl[p]) /\ file[lvl[p]] \in Rec
  BY DEF Unstage, WriteFallback, HoldersOwn, Holding, MyInode
<1>4. PICK r \in Rec : /\ r.pid = file[lvl[p]].pid /\ r.inc = file[lvl[p]].inc
                       /\ file' = [file EXCEPT ![lvl[p]] = r]
  <2>1. CASE Unstage(p)
    <3>1. file' = [file EXCEPT ![lvl[p]] = [file[lvl[p]] EXCEPT !.st = "final"]]
      BY <1>3, <2>1 DEF Unstage
    <3> QED BY <1>3, <3>1, InodeUpdate
  <2>2. CASE WriteFallback(p)
    <3>1. file' = [file EXCEPT ![lvl[p]] = [file[lvl[p]] EXCEPT !.kind = "prov"]]
      BY <1>3, <2>2 DEF WriteFallback
    <3> QED BY <1>3, <3>1, InodeUpdate
  <2> QED BY <2>1, <2>2
<1>5. Holder' = Holder
  <2>1. CASE lvl[p] = 0
    <3>1. file[0] # None /\ file'[0] # None /\ file'[0].pid = file[0].pid /\ file'[0].inc = file[0].inc
      BY <1>3, <1>4, <2>1
    <3> QED BY <3>1 DEF Holder
  <2>2. CASE lvl[p] # 0
    <3>1. file'[0] = file[0]
      BY <1>4, <2>2
    <3> QED BY <3>1 DEF Holder
  <2> QED BY <2>1, <2>2
<1> QED BY <1>1, <1>2, <1>5, SameSets, ServiceSteps

\* Publication at level 0 takes the lock.
LEMMA TakeStep ==
    ASSUME RInv, NEW p \in Proc, Link(p) \/ CreateExclusive(p)
    PROVE  [Service!SNext]_(Service!sVars)
<1> USE DEF RInv, IInv, TypeOK, Goto, world, locals
<1>1. UNCHANGED inc /\ Alive(p) /\ file[lvl[p]] = None
  BY DEF Link, CreateExclusive, Alive
<1>2. \A q \in Proc : (Alive(q)' <=> Alive(q)) /\ (pc'[q] = "cs" <=> pc[q] = "cs")
  BY DEF Link, CreateExclusive, Alive
<1>3. PICK r \in Rec : r.pid = p /\ r.inc = inc[p] /\ file' = [file EXCEPT ![lvl[p]] = r]
  <2>1. PICK k \in Kinds, s \in Stages : file' = [file EXCEPT ![lvl[p]] = MyRec(p, k, s)]
    BY DEF Link, CreateExclusive
  <2>2. MyRec(p, k, s) \in Rec /\ MyRec(p, k, s).pid = p /\ MyRec(p, k, s).inc = inc[p]
    BY DEF MyRec
  <2> QED BY <2>1, <2>2
<1>4. CASE lvl[p] = 0
  <2>1. Holder = None
    BY <1>1, <1>4 DEF Holder
  <2>2. file'[0] = r /\ r # None
    BY <1>3, <1>4
  <2>3. Holder' = Id(p)
    BY <1>3, <2>2 DEF Holder, Id
  <2>4. Id(p) \in Ident /\ Id(p) \in Live
    BY <1>1, IdFacts
  <2> QED BY <1>1, <1>2, <2>1, <2>3, <2>4, SameSets, ServiceSteps
<1>5. CASE lvl[p] # 0
  <2>1. file'[0] = file[0]
    BY <1>3, <1>5
  <2>2. Holder' = Holder
    BY <2>1 DEF Holder
  <2> QED BY <1>1, <1>2, <2>2, SameSets, ServiceSteps
<1> QED BY <1>4, <1>5

\* The verified owner of level 0 enters its section.
LEMMA EnterStep ==
    ASSUME RInv, NEW p \in Proc, Verify(p)
    PROVE  [Service!SNext]_(Service!sVars)
<1> USE DEF RInv, IInv, TypeOK, Goto, world, locals
<1>1. UNCHANGED <<file, inc>> /\ pc[p] = "verify" /\ MyInode(p, lvl[p])
  BY DEF Verify
<1>2. CASE lvl[p] = 0
  <2>1. pc' = [pc EXCEPT ![p] = "cs"]
    BY <1>2 DEF Verify
  <2>2. Holder' = Holder /\ Holder = Id(p)
    BY <1>1, <1>2, HolderFacts DEF Holder
  <2>3. Id(p) \in Ident /\ Id(p) \in Live
    BY <1>1, IdFacts DEF Alive
  <2>4. Live' = Live
    BY <1>1, <2>1, SameSets DEF Alive
  <2>5. Inside' = Inside \cup {Id(p)}
    <3>1. \A q \in Proc : Id(q)' = Id(q) /\ (pc'[q] = "cs" <=> pc[q] = "cs" \/ q = p)
      BY <1>1, <2>1 DEF Id
    <3> QED BY <3>1 DEF Inside
  <2> QED BY <2>2, <2>3, <2>4, <2>5, ServiceSteps
<1>3. CASE lvl[p] # 0
  <2>1. pc' = [pc EXCEPT ![p] = "recheck"]
    BY <1>3 DEF Verify
  <2> QED BY <1>1, <2>1, Stutter DEF Alive
<1> QED BY <1>2, <1>3

LEMMA LeaveStep ==
    ASSUME RInv, NEW p \in Proc, Exit(p)
    PROVE  [Service!SNext]_(Service!sVars)
<1> USE DEF RInv, IInv, TypeOK, Goto, ReleaseThen, world, locals
<1>1. UNCHANGED <<file, inc>> /\ pc[p] = "cs" /\ pc' = [pc EXCEPT ![p] = "release"]
  BY DEF Exit
<1>2. Holder' = Holder
  BY <1>1 DEF Holder
<1>3. Live' = Live
  BY <1>1, SameSets DEF Alive
<1>4. Id(p) \in Ident /\ Id(p) \in Inside
  BY <1>1, IdFacts
<1>5. Inside' = Inside \ {Id(p)}
  <2>1. \A q \in Proc : Id(q)' = Id(q) /\ (pc'[q] = "cs" <=> pc[q] = "cs" /\ q # p)
    BY <1>1 DEF Id
  <2>2. \A q \in Proc : Id(q) = Id(p) => q = p
    BY IdFacts
  <2> QED BY <2>1, <2>2 DEF Inside
<1> QED BY <1>2, <1>3, <1>4, <1>5, ServiceSteps

\* The unlink of release(), or of a torn publication, gives the lock back.
LEMMA GiveStep ==
    ASSUME RInv, NEW p \in Proc, Unlink(p) \/ Cleanup(p)
    PROVE  [Service!SNext]_(Service!sVars)
<1> USE DEF RInv, IInv, TypeOK, Leave, world
<1>1. /\ UNCHANGED inc /\ pc[p] \in {"unlink", "cleanup"} /\ MyInode(p, lvl[p])
      /\ file' = [file EXCEPT ![lvl[p]] = None]
  BY DEF Unlink, Cleanup, HoldersOwn, Holding
<1>2. \E s \in {"idle", "poll"} : pc' = [pc EXCEPT ![p] = s]
  BY DEF Unlink, Cleanup
<1>3. \A q \in Proc : (Alive(q)' <=> Alive(q)) /\ (pc'[q] = "cs" <=> pc[q] = "cs")
  BY <1>1, <1>2 DEF Alive
<1>4. CASE lvl[p] = 0
  <2>1. Holder = Id(p)
    BY <1>1, <1>4, HolderFacts
  <2>2. Id(p) \in Ident /\ Id(p) \in Live /\ Id(p) \notin Inside
    BY <1>1, IdFacts DEF Alive
  <2>3. Holder' = None
    BY <1>1, <1>4 DEF Holder
  <2> QED BY <1>1, <1>3, <2>1, <2>2, <2>3, SameSets, ServiceSteps
<1>5. CASE lvl[p] # 0
  <2>1. file'[0] = file[0]
    BY <1>1, <1>5
  <2>2. Holder' = Holder
    BY <2>1 DEF Holder
  <2> QED BY <1>1, <1>3, <2>2, SameSets, ServiceSteps
<1> QED BY <1>4, <1>5

\* The removal of a recovery evicts a dead owner.
LEMMA EvictStep ==
    ASSUME RInv, NEW p \in Proc, Remove(p)
    PROVE  [Service!SNext]_(Service!sVars)
<1> USE DEF RInv, IInv, TypeOK, Goto, ReleaseThen, world
<1>1. /\ UNCHANGED inc /\ pc[p] = "remove" /\ pc' = [pc EXCEPT ![p] = "release"]
      /\ file' = [file EXCEPT ![lvl[p] - 1] = None]
  BY DEF Remove
<1>2. /\ lvl[p] - 1 \in Levels /\ file[lvl[p] - 1] = seen[p] /\ seen[p] # None /\ Dead(seen[p])
  BY <1>1 DEF RecoveryOK, LevelsOK, Recovering
<1>3. \A q \in Proc : (Alive(q)' <=> Alive(q)) /\ (pc'[q] = "cs" <=> pc[q] = "cs")
  BY <1>1 DEF Alive
<1>4. CASE lvl[p] - 1 = 0
  <2>1. file[0] # None /\ Dead(file[0])
    BY <1>2, <1>4
  <2>2. Holder \in Ident \ Live
    BY <2>1, HolderFacts
  <2>3. Holder' = None
    BY <1>1, <1>4 DEF Holder
  <2> QED BY <1>1, <1>3, <2>2, <2>3, SameSets, ServiceSteps
<1>5. CASE lvl[p] - 1 # 0
  <2>1. file'[0] = file[0]
    BY <1>1, <1>2, <1>5
  <2>2. Holder' = Holder
    BY <2>1 DEF Holder
  <2> QED BY <1>1, <1>3, <2>2, SameSets, ServiceSteps
<1> QED BY <1>4, <1>5

LEMMA DieStep ==
    ASSUME RInv, Reboot \/ \E p \in Proc : Crash(p)
    PROVE  [Service!SNext]_(Service!sVars)
<1> USE DEF RInv, IInv, TypeOK, Leave, world
<1>1. UNCHANGED <<file, inc>>
  BY DEF Reboot, Crash
<1>2. Holder' = Holder
  BY <1>1 DEF Holder
<1>3. \A q \in Proc : Id(q)' = Id(q)
  BY <1>1 DEF Id
<1>4. Live \subseteq Ident
  BY HolderFacts
<1>5. CASE Reboot
  <2>1. \A q \in Proc : pc'[q] = "dead"
    BY <1>5 DEF Reboot
  <2>2. Live' = Live \ Live /\ Inside' = Inside \ Live
    BY <2>1, HolderFacts DEF Live, Inside, Alive
  <2> QED BY <1>2, <1>4, <2>2, ServiceSteps
<1>6. ASSUME NEW p \in Proc, Crash(p) PROVE [Service!SNext]_(Service!sVars)
  <2>1. Alive(p) /\ pc' = [pc EXCEPT ![p] = "dead"]
    BY <1>6 DEF Crash
  <2>2. \A q \in Proc : /\ pc'[q] # "dead" <=> pc[q] # "dead" /\ q # p
                        /\ pc'[q] = "cs" <=> pc[q] = "cs" /\ q # p
                        /\ Id(q) = Id(p) => q = p
    BY <2>1, IdFacts
  <2>3. Live' = Live \ {Id(p)} /\ Inside' = Inside \ {Id(p)}
    BY <1>3, <2>2 DEF Live, Inside, Alive
  <2>4. Id(p) \in Live
    BY <2>1, IdFacts
  <2>5. {Id(p)} \in SUBSET Ident /\ {Id(p)} \subseteq Live
    BY <1>4, <2>4
  <2> QED BY <1>2, <2>3, <2>5, ServiceSteps
<1> QED BY <1>5, <1>6

\* A reused pid is a new incarnation, never the holder.
LEMMA StartStep ==
    ASSUME RInv, NEW p \in Proc, Spawn(p)
    PROVE  [Service!SNext]_(Service!sVars)
<1> USE DEF RInv, IInv, TypeOK, Goto, locals
<1>1. /\ UNCHANGED file /\ pc[p] = "dead" /\ pc' = [pc EXCEPT ![p] = "idle"]
      /\ inc' = [inc EXCEPT ![p] = inc[p] + 1]
  BY DEF Spawn
<1>2. PICK i \in 0 .. MaxInc : i = inc[p] + 1
  BY <1>1 DEF IncBounded
<1>3. PICK o : o = [pid |-> p, inc |-> i]
  OBVIOUS
<1>4. o \in Ident
  BY <1>3 DEF Ident
<1>5. o \notin Live
  <2>1. \A q \in Proc : Alive(q) => q # p
    BY <1>1 DEF Alive
  <2> QED BY <1>3, <2>1 DEF Live, Id
<1>6. o # Holder
  <2>1. CASE file[0] = None
    BY <1>4, <2>1, HolderFacts DEF Holder
  <2>2. CASE file[0] # None
    <3>1. file[0].inc <= inc[file[0].pid] /\ file[0].inc \in Nat
      BY <2>2 DEF FilesOK
    <3>2. Holder = [pid |-> file[0].pid, inc |-> file[0].inc]
      BY <2>2 DEF Holder
    <3>3. file[0].pid = p => file[0].inc # i
      BY <1>2, <3>1
    <3> QED BY <1>3, <3>2, <3>3
  <2> QED BY <2>1, <2>2
<1>7. \A q \in Proc : /\ q # p => Id(q)' = Id(q)
                      /\ pc'[q] # "dead" <=> pc[q] # "dead" \/ q = p
                      /\ pc'[q] = "cs" <=> pc[q] = "cs"
  BY <1>1 DEF Id
<1>8. Id(p)' = o
  BY <1>1, <1>2, <1>3 DEF Id
<1>9. Live' = Live \cup {o}
  BY <1>1, <1>7, <1>8 DEF Live, Alive
<1>10. Inside' = Inside
  BY <1>1, <1>7 DEF Inside
<1>11. Holder' = Holder
  BY <1>1 DEF Holder
<1> QED BY <1>4, <1>5, <1>6, <1>9, <1>10, <1>11, ServiceSteps

-----------------------------------------------------------------------------
\* The lock of locks.ts keeps LockService's promise, step by step: the lock is
\* taken when free, entered and left by its holder alone, and lost only by a
\* release or after the holder's death.
THEOREM LockServiceImplemented == Spec => ImplementsLockService
<1>1. ASSUME Init PROVE Service!SInit
  <2>1. RInv
    BY <1>1, InitInv DEF RInv, Init, IncBounded
  <2>2. Inside = {}
    BY <1>1 DEF Init, Inside
  <2>3. Holder \notin Live
    <3>1. CASE file[0] = None
      BY <2>1, <3>1, HolderFacts
    <3>2. CASE file[0] # None
      <4>1. file[0].inc = 0
        BY <1>1, <3>2, LeftoverAssumption DEF Init
      <4>2. \A q \in Proc : inc[q] = 1
        BY <1>1 DEF Init
      <4>3. file[0].pid \in Proc
        BY <2>1, <3>2 DEF RInv, IInv, TypeOK
      <4>4. Dead(file[0])
        BY <4>1, <4>2, <4>3 DEF Dead
      <4> QED BY <2>1, <3>2, <4>4, HolderFacts
    <3> QED BY <3>1, <3>2
  <2>4. Holder \in Ident \cup {None} /\ Live \subseteq Ident
    BY <2>1, HolderFacts
  <2> QED BY <2>2, <2>3, <2>4 DEF Service!SInit, Holder, Inside, Live, Ident
<1>2. ASSUME RInv, [Next]_vars PROVE [Service!SNext]_(Service!sVars)
  <2>1. CASE UNCHANGED vars
    BY <1>2, <2>1, Stutter DEF vars, Alive
  <2>2. CASE Reboot
    BY <1>2, <2>2, DieStep
  <2>3. ASSUME NEW p \in Proc, \/ Request(p) \/ GiveUp(p) \/ Step(p) \/ Fault(p)
                               \/ Crash(p) \/ Spawn(p)
        PROVE  [Service!SNext]_(Service!sVars)
    BY <1>2, <2>3, QuietSteps, OwnerStays, TakeStep, EnterStep, LeaveStep, GiveStep, EvictStep,
       DieStep, StartStep DEF Step, Fault
  <2> QED BY <1>2, <2>1, <2>2, <2>3 DEF Next
<1> QED BY <1>1, <1>2, RefInvariance, PTL DEF Spec, ImplementsLockService, Service!SSpec
=============================================================================
