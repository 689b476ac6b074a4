------------------------ MODULE LoopSupervisorProofs ------------------------
(* Proofs about LoopSupervisor and the lease it takes, for every set of        *)
(* supervisors, every lease duration and every number of crashes.              *)
EXTENDS LoopSupervisor, TLAPS

\* p is past the exclusive create of its attempt and has not given the lease up.
Past(p) == pc[p] \in {"write", "held", "release", "relUnlink"}

\* Without a steal, the inode at the path is the one p created.
OwnsFile == ~stolen => \A p \in Proc : Past(p) => Mine(p)

IInv == TypeOK /\ OwnsFile

LEMMA AgeTypes ==
    /\ LeaseMs \in Nat /\ MaxStall \in Nat /\ MaxAge \in Nat /\ 0 \in 0 .. MaxAge
    /\ \A a \in 0 .. MaxAge : Older(a) \in 0 .. MaxAge
BY TimeAssumption DEF MaxAge, Older

LEMMA InitInv == Init => IInv
<1> SUFFICES ASSUME Init PROVE IInv
  OBVIOUS
<1>1. LeaseTypeOK
  BY AgeTypes, CrashAssumption DEF Init, LeaseInit, LeaseTypeOK, PC
<1>2. tick \in [Proc -> TickStates] /\ stray \subseteq Proc /\ stolen \in BOOLEAN
  BY DEF Init, TickStates
<1>3. OwnsFile
  BY DEF Init, LeaseInit, OwnsFile, Past
<1> QED BY <1>1, <1>2, <1>3 DEF IInv, TypeOK

\* The lease's own variables, one action at a time.
LEMMA LeaseTypeStep ==
    ASSUME TypeOK, [Next]_vars
    PROVE  LeaseTypeOK'
<1> USE DEF TypeOK, LeaseTypeOK, Goto
<1>1. ASSUME NEW p \in Proc, Attempt(p) PROVE LeaseTypeOK'
  <2>1. file # None => 1 - file.gen \in {0, 1}
    BY DEF Inode
  <2> QED BY <1>1, <2>1, AgeTypes DEF Attempt, PC
<1>2. ASSUME NEW p \in Proc, Create(p) \/ Recreate(p) PROVE LeaseTypeOK'
  <2>1. EmptyInode(p) \in Inode
    BY DEF EmptyInode, Inode
  <2> QED BY <1>2, <2>1 DEF Create, Recreate, PC
<1>3. ASSUME NEW p \in Proc, Write(p) PROVE LeaseTypeOK'
  <2>1. file \in Inode => [file EXCEPT !.full = TRUE, !.age = age[p]] \in Inode
    BY DEF Inode
  <2> QED BY <1>3, <2>1 DEF Write, Mine, PC
<1>4. ASSUME NEW p \in Proc, Read(p) \/ Unlink(p) PROVE LeaseTypeOK'
  BY <1>4 DEF Read, Unlink, PC
<1>5. ASSUME NEW p \in Proc, StartRelease(p) \/ ReleaseRead(p) \/ ReleaseUnlink(p) PROVE LeaseTypeOK'
  BY <1>5 DEF StartRelease, ReleaseRead, ReleaseUnlink, PC
<1>6. ASSUME NEW p \in Proc, Crash(p) PROVE LeaseTypeOK'
  BY <1>6, CrashAssumption DEF Crash, PC
<1>7. CASE Clock
  <2>1. file \in Inode => [file EXCEPT !.age = Older(@)] \in Inode
    BY AgeTypes DEF Inode
  <2> QED BY <1>7, <2>1, AgeTypes DEF Clock
<1>8. CASE UNCHANGED leaseVars
  BY <1>8 DEF leaseVars
<1> QED BY <1>1, <1>2, <1>3, <1>4, <1>5, <1>6, <1>7, <1>8
        DEF Next, Beat, Acquire, Steal, StartTick, TickEnds, Release, Dispatch, ActionEnds, Abort,
            StrayEnds, Die, vars

LEMMA TypeStep ==
    ASSUME TypeOK, [Next]_vars
    PROVE  TypeOK'
<1>1. LeaseTypeOK'
  BY LeaseTypeStep
<1>2. tick' \in [Proc -> TickStates] /\ stray' \subseteq Proc /\ stolen' \in BOOLEAN
  BY DEF TypeOK, TickStates, Next, Beat, Acquire, Steal, StartTick, TickEnds, Release, Dispatch,
         ActionEnds, Abort, StrayEnds, Die, vars, supVars
<1> QED BY <1>1, <1>2 DEF TypeOK

\* The exclusive create succeeds only when nobody is past it.
LEMMA OwnStep ==
    ASSUME IInv, [Next]_vars
    PROVE  OwnsFile'
<1> USE DEF IInv, TypeOK, LeaseTypeOK, Goto
<1> SUFFICES ASSUME ~stolen', NEW q \in Proc, Past(q)' PROVE Mine(q)'
  BY DEF OwnsFile
<1>0. ~stolen
  BY DEF Next, Beat, Acquire, Steal, StartTick, TickEnds, Release, Dispatch,
         ActionEnds, Abort, StrayEnds, Die, vars, supVars
<1>1. \A p \in Proc : Past(p) => Mine(p)
  BY <1>0 DEF OwnsFile
<1>2. ASSUME NEW p \in Proc, Attempt(p) PROVE Mine(q)'
  <2>1. q # p /\ Past(q) /\ gen'[q] = gen[q] /\ file' = file
    BY <1>2 DEF Attempt, Past
  <2> QED BY <1>1, <2>1 DEF Mine
<1>3. ASSUME NEW p \in Proc, Create(p) \/ Recreate(p) PROVE Mine(q)'
  <2>1. CASE file = None
    <3>1. q = p
      BY <1>1, <1>3, <2>1 DEF Create, Recreate, Past, Mine
    <3>2. file' = EmptyInode(p) /\ gen' = gen
      BY <1>3, <2>1 DEF Create, Recreate
    <3>3. EmptyInode(p).who = p /\ EmptyInode(p).gen = gen[p]
      BY DEF EmptyInode
    <3>4. EmptyInode(p) # None
      <4>1. EmptyInode(p) \in Inode
        BY DEF EmptyInode, Inode
      <4> QED BY <4>1, NoneAssumption
    <3> QED BY <3>1, <3>2, <3>3, <3>4 DEF Mine
  <2>2. CASE file # None
    BY <1>1, <1>3, <2>2 DEF Create, Recreate, Past, Mine
  <2> QED BY <2>1, <2>2
<1>4. ASSUME NEW p \in Proc, Write(p) PROVE Mine(q)'
  <2>1. Past(q) /\ gen' = gen
    BY <1>4 DEF Write, Past
  <2>2. file \in Inode /\ file.who = q /\ file.gen = gen[q]
    BY <1>1, <2>1 DEF Mine
  <2>3. file' \in Inode /\ file'.who = q /\ file'.gen = gen[q]
    BY <1>4, <2>2 DEF Write, Inode
  <2> QED BY <2>1, <2>3, NoneAssumption DEF Mine
<1>5. ASSUME NEW p \in Proc, Read(p) PROVE Mine(q)'
  BY <1>1, <1>5 DEF Read, Past, Mine
<1>6. ASSUME NEW p \in Proc, StartRelease(p) \/ ReleaseRead(p) PROVE Mine(q)'
  BY <1>1, <1>6 DEF StartRelease, ReleaseRead, Past, Mine
<1>7. ASSUME NEW p \in Proc, ReleaseUnlink(p) PROVE Mine(q)'
  <2>1. q # p /\ Past(q) /\ Past(p)
    BY <1>7 DEF ReleaseUnlink, Past
  <2> QED BY <1>1, <2>1 DEF Mine
<1>8. ASSUME NEW p \in Proc, Crash(p) PROVE Mine(q)'
  BY <1>1, <1>8 DEF Crash, Past, Mine
<1>9. CASE Clock
  <2>1. Past(q) /\ gen' = gen
    BY <1>9 DEF Clock, Past
  <2>2. file \in Inode /\ file.who = q /\ file.gen = gen[q]
    BY <1>1, <2>1 DEF Mine
  <2>3. file' \in Inode /\ file'.who = q /\ file'.gen = gen[q]
    BY <1>1, <1>9, <2>1, <2>2, AgeTypes DEF Clock, Inode, Mine
  <2> QED BY <2>1, <2>3, NoneAssumption DEF Mine
<1>10. CASE UNCHANGED leaseVars
  BY <1>1, <1>10 DEF leaseVars, Past, Mine
<1> QED BY <1>2, <1>3, <1>4, <1>5, <1>6, <1>7, <1>8, <1>9, <1>10
        DEF Next, Beat, Acquire, Steal, StartTick, TickEnds, Release, Dispatch, ActionEnds, Abort,
            StrayEnds, Die, vars

-----------------------------------------------------------------------------
\* Every variable keeps its type; ages stay within MaxAge.
THEOREM TypeCorrect == Spec => []TypeOK
<1>1. Init => TypeOK
  BY InitInv DEF IInv
<1>2. TypeOK /\ [Next]_vars => TypeOK'
  BY TypeStep
<1> QED BY <1>1, <1>2, PTL DEF Spec

\* OwnsFile is inductive: without a steal nobody but its creator unlinks the file at
\* the path of a lease, and the exclusive create needs the path to be free.
THEOREM Invariance == Spec => []IInv
<1>1. IInv /\ [Next]_vars => IInv'
  BY TypeStep, OwnStep DEF IInv
<1> QED BY <1>1, InitInv, PTL DEF Spec

\* As long as nobody has stolen the lease, the O_EXCL create admits one holder:
\* two supervisors never both hold it, whatever their ages.
THEOREM Exclusive == Spec => []CreateIsExclusive
<1>1. IInv => CreateIsExclusive
  BY DEF IInv, OwnsFile, CreateIsExclusive, HoldsUnexpired, Past, Mine
<1> QED BY <1>1, Invariance, PTL
=============================================================================
