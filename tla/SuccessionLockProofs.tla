------------------------ MODULE SuccessionLockProofs ------------------------
(* Proofs about SuccessionLock, for every set of incarnations, every machine,  *)
(* boot, namespace, pid and anchor they may have, every chain and round limit  *)
(* and every set of failing publications and unlinks: IInv is inductive, and   *)
(* from it the lemmas of the protocol's proof sketch.                          *)
EXTENDS SuccessionLock, TLAPS

\* The main thread of o, which takes its steps, has ended.
Dead(o) == status[o] \in {"husk", "zombie", "gone"}

\* The token x has been published by its owner.
Published(x) == x[2] < cnt[x[1]]

\* A machine runs one boot at a time and one process per pid of a namespace, and a
\* process that was never started has done nothing.
KernelOK == /\ \A p, q \in Proc : Present(p) /\ Present(q) /\ Machine[p] = Machine[q]
                  => Boot[p] = Boot[q]
            /\ \A p, q \in Proc : /\ Present(p) /\ Present(q) /\ Machine[p] = Machine[q]
                                  /\ Ns[p] = Ns[q] /\ Pid[p] = Pid[q]
                  => p = q
            /\ \A p \in Proc : status[p] = "unborn" => cnt[p] = 0 /\ pc[p] = "idle"

\* No token is used before it is drawn, and the token of a link is no other's.
TokensOK == /\ lock # None => Published(lock)
            /\ \A r \in succ : /\ Published(r.tok) /\ Published(r.key) /\ Published(r.target)
                               /\ r.tok # lock
            /\ \A r, s \in succ : r.tok = s.tok => r = s
            /\ \A p \in Proc : /\ g[p] # None => Published(g[p])
                               /\ key[p] # None => Published(key[p])

\* The links for the token in LOCK form one chain, and only its last link may have
\* a running owner.
ChainOK == \A r \in succ : r.target = lock =>
              /\ \A s \in succ : s.target = lock /\ s.depth = r.depth => s = r
              /\ r.depth = 0 => r.key = lock
              /\ r.depth > 0 => \E s \in succ : /\ s.target = lock /\ s.depth = r.depth - 1
                                                /\ s.tok = r.key
              /\ \A k \in 0 .. (r.depth - 1) :
                    \E s \in succ : s.target = lock /\ s.depth = k /\ Dead(Owner(s.tok))

\* A process that walks the chain has seen the owner of every link behind it dead.
WalkOK(p) == /\ depth[p] = 0 => key[p] = lock
             /\ depth[p] > 0 => \E s \in succ : /\ s.target = lock /\ s.depth = depth[p] - 1
                                                /\ s.tok = key[p]
             /\ \A k \in 0 .. (depth[p] - 1) :
                   \E s \in succ : s.target = lock /\ s.depth = k /\ Dead(Owner(s.tok))

Walking == {"check", "elect", "readsucc"}
Elected == {"retire", "confirm", "unlink"}
Purging == {"purge", "purging"}

\* What holds of a running process at each step of its call.
ProcOK(p) ==
    status[p] = "alive" =>
       /\ pc[p] \in Walking \cup Elected \cup Purging => g[p] \in Tok /\ Dead(Owner(g[p]))
       /\ pc[p] \in Walking => key[p] \in Tok /\ (g[p] = lock => WalkOK(p))
       /\ pc[p] \in Elected /\ g[p] = lock => \E r \in succ : r.target = lock /\ Owner(r.tok) = p
       /\ pc[p] = "unlink" => lock = g[p]
       /\ pc[p] \in Purging => lock # g[p]
       /\ Holding(p) => lock \in Tok /\ lock = mine[p] /\ Owner(lock) = p

IInv == /\ TypeOK
        /\ KernelOK
        /\ TokensOK
        /\ ChainOK
        /\ \A p \in Proc : ProcOK(p)
        /\ UniqueSuccessor
-----------------------------------------------------------------------------
(* Facts about tokens, links and verdicts *)

\* A token has an owner; the one a process draws is its own.
LEMMA TokFacts ==
    /\ \A x \in Tok : Owner(x) \in Proc /\ x[1] \in Proc /\ x[2] \in Nat /\ x # None
    /\ \A p \in Proc : TypeOK => /\ Fresh(p) \in Tok /\ Fresh(p) # None /\ Owner(Fresh(p)) = p
                                 /\ Fresh(p)[1] = p /\ Fresh(p)[2] = cnt[p]
BY NoneAssumption DEF Tok, Owner, Fresh, TypeOK

\* The fields of a link.
LEMMA LinkFacts ==
    /\ \A r \in Link : r.key \in Tok /\ r.tok \in Tok /\ r.target \in Tok /\ r.depth \in Nat
    /\ \A k, x, t \in Tok, d \in Nat : [key |-> k, tok |-> x, target |-> t, depth |-> d] \in Link
BY DEF Link

\* Where a process that still has its pid is looked for in its own boot and namespace,
\* it alone answers, and start times that may be compared agree.
LEMMA Probe ==
    ASSUME TypeOK, KernelOK, NEW o \in Proc, NEW s \in Proc, Present(o),
           Boot[o] = Boot[s], SameSpace(o, s)
    PROVE  /\ o \in HasPid(o, s)
           /\ \A q \in HasPid(o, s) : q = o
           /\ ~Reused(o, s)
<1>1. Machine[o] = Machine[s] /\ Ns[o] = Ns[s]
  BY BootAssumption DEF SameSpace
<1>2. o \in HasPid(o, s)
  BY <1>1 DEF HasPid
<1>3. \A q \in HasPid(o, s) : q = o
  BY <1>1 DEF HasPid, KernelOK
<1>4. Comparable(o, s) => Start(o, s) = Start(o, o)
  BY DEF Comparable, Start
<1> QED
  BY <1>2, <1>3, <1>4 DEF Reused

\* I3 for the prefix lock: a process called dead has no main thread.
LEMMA VerdictSound ==
    ASSUME TypeOK, KernelOK, NEW o \in Proc, NEW s \in Proc, Verdict(o, s) = "dead"
    PROVE  status[o] # "alive"
<1> SUFFICES ASSUME status[o] = "alive" PROVE FALSE
  OBVIOUS
<1>1. /\ Boot[o] = Boot[s] /\ SameSpace(o, s)
      /\ Vanished(o, s) \/ Reused(o, s)
  BY DEF Verdict
<1>2. Present(o)
  BY DEF Present
<1>3. ~Vanished(o, s) /\ ~Reused(o, s)
  BY <1>1, <1>2, Probe DEF Vanished
<1> QED
  BY <1>1, <1>3

\* I3 for the identity protocol: a process called dead has no thread left, unless
\* another machine has the id of the verdict's.
LEMMA IdentitySound ==
    ASSUME TypeOK, KernelOK, NEW o \in Proc, NEW s \in Proc, status[s] = "alive",
           IdentityVerdict(o, s) = "dead", Host[o] = Host[s] => Machine[o] = Machine[s]
    PROVE  status[o] \notin {"alive", "husk"}
<1> SUFFICES ASSUME status[o] \in {"alive", "husk"} PROVE FALSE
  OBVIOUS
<1>1. Present(o) /\ Present(s)
  BY DEF Present
<1>2. SameHost(o, s) /\ Machine[o] = Machine[s]
  BY DEF IdentityVerdict, SameHost
<1>3. Boot[o] = Boot[s]
  BY <1>1, <1>2 DEF KernelOK
<1>4. SameSpace(o, s)
  BY <1>3 DEF IdentityVerdict
<1>5. HasPid(o, s) # {} /\ ~Reused(o, s)
  BY <1>1, <1>3, <1>4, Probe
<1> QED
  BY <1>3, <1>4, <1>5 DEF IdentityVerdict

\* The owner of a published token that does not run is dead, and so for ever.
LEMMA PublishedDead ==
    ASSUME TypeOK, KernelOK, NEW x \in Tok, Published(x), status[Owner(x)] # "alive"
    PROVE  Dead(Owner(x))
<1>1. Owner(x) \in Proc /\ Owner(x) = x[1] /\ x[2] \in Nat
  BY TokFacts DEF Owner
<1>2. cnt[Owner(x)] # 0
  BY <1>1 DEF Published, TypeOK
<1>3. status[Owner(x)] # "unborn"
  BY <1>1, <1>2 DEF KernelOK
<1> QED
  BY <1>1, <1>3 DEF Dead, TypeOK
-----------------------------------------------------------------------------
(* Initial states and types *)

\* The empty prefix satisfies IInv.
LEMMA InitInv == Init => IInv
BY LimitAssumption
   DEF Init, IInv, TypeOK, PC, KernelOK, Present, TokensOK, ChainOK, ProcOK, Holding, UniqueSuccessor

\* The locals of the processes have their types.
LocalType == /\ pc \in [Proc -> PC]
             /\ op \in [Proc -> {"acquire", "break"}]
             /\ round \in [Proc -> 0 .. MaxRounds - 1]
             /\ g \in [Proc -> Tok \cup {None}]
             /\ key \in [Proc -> Tok \cup {None}]
             /\ depth \in [Proc -> 0 .. MaxChain - 1]
             /\ mine \in [Proc -> Tok \cup {None}]
             /\ todo \in [Proc -> SUBSET Tok]
             /\ after \in [Proc -> {"republish", "retry", "done"}]

\* A call that returns, and one that goes on to its next round, leave typed locals.
LEMMA ExitType ==
    ASSUME LocalType, NEW p \in Proc, Return(p) \/ NextRound(p)
    PROVE  LocalType'
<1>1. CASE Return(p)
  BY <1>1, LimitAssumption DEF Return, LocalType, PC
<1>2. CASE NextRound(p) /\ ~Return(p)
  <2>1. round[p] + 1 \in 0 .. MaxRounds - 1
    BY <1>2, LimitAssumption DEF NextRound, LocalType
  <2> QED
    BY <1>2, <2>1, LimitAssumption DEF NextRound, Goto, LocalType, PC
<1> QED
  BY <1>1, <1>2

\* So does every step of a process.
LEMMA LocalTypeStep ==
    ASSUME TypeOK, NEW p \in Proc, ProcOK(p), Begin(p) \/ BeginBreak(p) \/ Step(p) \/ Kernel(p)
    PROVE  LocalType'
<1> USE LimitAssumption, TokFacts DEF TypeOK, At, Goto
<1> LocalType
  BY DEF LocalType
<1>1. CASE Return(p) \/ NextRound(p)
  BY <1>1, ExitType
<1>2. CASE \E x \in PC : pc' = [pc EXCEPT ![p] = x] /\ UNCHANGED locals
  BY <1>2 DEF LocalType, locals
<1>17. CASE Begin(p) \/ PublishExists(p) \/ ElectExists(p) \/ PurgeFails(p) \/ GcDone(p)
  BY <1>2, <1>17 DEF Begin, PublishExists, ElectExists, PurgeFails, GcDone, PC, locals
<1>16. CASE Retire(p)
  BY <1>16 DEF Retire, LocalType, PC, locals
<1>3. CASE BeginBreak(p)
  BY <1>3 DEF BeginBreak, Succeed, LocalType, PC
<1>4. CASE TakeLock(p)
  <2>1. Fresh(p) \in Tok
    OBVIOUS
  <2> QED
    BY <1>4, <2>1 DEF TakeLock, LocalType, PC
<1>5. CASE ReadLock(p) /\ ~Return(p) /\ ~NextRound(p)
  <2>1. lock \in Tok /\ Succeed(p, lock, "elect") /\ UNCHANGED <<op, after>>
    BY <1>5 DEF ReadLock
  <2> QED
    BY <2>1 DEF Succeed, LocalType, PC
<1>6. CASE CheckTarget(p)
  BY <1>6, ExitType DEF CheckTarget, locals, LocalType, PC
<1>7. CASE Elect(p)
  BY <1>7 DEF Elect, locals, LocalType, PC
<1>8. CASE ReadSucc(p) /\ ~Return(p) /\ ~NextRound(p)
  <2>1. PICK r \in SuccOf(key[p]) : /\ depth[p] + 1 < MaxChain
                                    /\ key' = [key EXCEPT ![p] = r.tok]
                                    /\ depth' = [depth EXCEPT ![p] = @ + 1]
                                    /\ Goto(p, IF op[p] = "break" THEN "check" ELSE "elect")
                                    /\ UNCHANGED <<op, round, g, mine, todo, after>>
    BY <1>8 DEF ReadSucc
  <2>2. r.tok \in Tok
    BY LinkFacts DEF SuccOf
  <2>3. depth[p] + 1 \in 0 .. MaxChain - 1
    BY <2>1
  <2> QED
    BY <2>1, <2>2, <2>3 DEF LocalType, PC
<1>9. CASE Confirm(p)
  BY <1>9 DEF Confirm, LocalType, PC
<1>10. CASE Unlink(p)
  BY <1>10 DEF Unlink, locals, LocalType, PC
<1>11. CASE PurgeList(p) \/ GcList(p)
  <2>1. {r.key : r \in succ} \in SUBSET Tok
    BY LinkFacts
  <2>2. PICK L \in SUBSET Tok : todo' = [todo EXCEPT ![p] = L]
    BY <1>11, <2>1 DEF PurgeList, GcList, ListSucc
  <2>3. todo' \in [Proc -> SUBSET Tok]
    BY <2>2 DEF LocalType
  <2>4. \E x \in {"purging", "collect"} : pc' = [pc EXCEPT ![p] = x]
    BY <1>11 DEF PurgeList, GcList, ListSucc
  <2>5. pc' \in [Proc -> PC]
    BY <2>4 DEF LocalType, PC
  <2>6. UNCHANGED <<op, round, g, key, depth, mine, after>>
    BY <1>11 DEF PurgeList, GcList, ListSucc
  <2> QED
    BY <2>3, <2>5, <2>6 DEF LocalType
<1>12. CASE PurgeOne(p) \/ GcOne(p)
  BY <1>12 DEF PurgeOne, GcOne, Visit, LocalType
<1>13. CASE PurgeDone(p)
  BY <1>13, ExitType DEF PurgeDone, locals, LocalType, PC
<1>14. CASE Release(p)
  BY <1>14, ExitType DEF Release, locals, LocalType, PC
<1>15. CASE Spawn(p) \/ Reap(p)
  BY <1>15 DEF Spawn, Reap, locals, LocalType
<1> QED
  BY <1>1, <1>2, <1>3, <1>4, <1>5, <1>6, <1>7, <1>8, <1>9, <1>10, <1>11, <1>12, <1>13, <1>14, <1>15, <1>16, <1>17
  DEF Step, Kernel, ReadFirst, PublishFails, Publish, UnlinkFails, Republish, RepublishExists, ReleaseUnlink, Crash
-----------------------------------------------------------------------------
(* What a step does to the files, and to the other processes *)

Act(p) == Begin(p) \/ BeginBreak(p) \/ Step(p) \/ Kernel(p)

\* The locals of q that the invariant speaks of, and its status, are as before.
Same(q) == /\ status'[q] = status[q] /\ pc'[q] = pc[q] /\ g'[q] = g[q] /\ key'[q] = key[q]
           /\ depth'[q] = depth[q] /\ mine'[q] = mine[q]

\* A process changes its own locals only.
LEMMA Others ==
    ASSUME TypeOK, NEW p \in Proc, NEW q \in Proc, q # p, Act(p)
    PROVE  Same(q)
<1> USE DEF TypeOK, At, Goto, Same
<1>1. ASSUME Return(p) \/ NextRound(p)
      PROVE  /\ pc'[q] = pc[q] /\ g'[q] = g[q] /\ key'[q] = key[q]
             /\ depth'[q] = depth[q] /\ mine'[q] = mine[q]
  BY <1>1 DEF Return, NextRound
<1>2. CASE Begin(p) \/ PublishExists(p) \/ ElectExists(p) \/ Retire(p) \/ PurgeFails(p) \/ GcDone(p)
  BY <1>2 DEF Begin, PublishExists, ElectExists, Retire, PurgeFails, GcDone, locals
<1>3. CASE BeginBreak(p) \/ ReadLock(p)
  BY <1>3, <1>1 DEF BeginBreak, ReadLock, Succeed
<1>4. CASE Publish(p) \/ Republish(p)
  BY <1>4 DEF Publish, Republish, TakeLock
<1>5. CASE CheckTarget(p) \/ PurgeDone(p) \/ Release(p)
  BY <1>5, <1>1 DEF CheckTarget, PurgeDone, Release, locals
<1>6. CASE Elect(p) \/ Confirm(p) \/ Unlink(p)
  BY <1>6 DEF Elect, Confirm, Unlink, locals
<1>7. CASE ReadSucc(p)
  BY <1>7, <1>1 DEF ReadSucc
<1>8. CASE PurgeList(p) \/ GcList(p) \/ PurgeOne(p) \/ GcOne(p)
  BY <1>8 DEF PurgeList, GcList, ListSucc, PurgeOne, GcOne, Visit
<1>9. CASE ReadFirst(p) \/ PublishFails(p) \/ UnlinkFails(p) \/ RepublishExists(p) \/ ReleaseUnlink(p)
  BY <1>9, <1>1 DEF ReadFirst, PublishFails, UnlinkFails, RepublishExists, ReleaseUnlink
<1>10. CASE Crash(p)
  BY <1>10, <1>1 DEF Crash
<1>11. CASE Spawn(p) \/ Reap(p)
  BY <1>11 DEF Spawn, Reap, locals
<1> QED
  BY <1>2, <1>3, <1>4, <1>5, <1>6, <1>7, <1>8, <1>9, <1>10, <1>11 DEF Act, Step, Kernel

\* The files a step of p leaves: nothing changes for the chain of the token in LOCK, or
\* the lock is taken with a fresh token, or given up by its holder or by the elected
\* successor of its dead owner.
Keeps == lock' = lock /\ \A r \in succ : r.target = lock => r \in succ'
Takes(p) == lock = None /\ lock' = Fresh(p) /\ succ' = succ /\ cnt' = [cnt EXCEPT ![p] = @ + 1]
Drops(p) == /\ lock # None /\ lock' = None /\ succ' = succ /\ status[p] = "alive"
            /\ \/ pc[p] = "unlink" /\ g[p] = lock
               \/ pc[p] = "letgo" /\ Owner(lock) = p

\* Every step of p is of one of these kinds.
LEMMA FileSteps ==
    ASSUME IInv, NEW p \in Proc, Act(p)
    PROVE  Keeps \/ Takes(p) \/ Drops(p)
<1> USE DEF IInv, At
<1> ProcOK(p)
  OBVIOUS
<1>1. CASE UNCHANGED <<lock, succ>>
  BY <1>1 DEF Keeps
<1>2. CASE Publish(p) \/ Republish(p)
  BY <1>2 DEF Publish, Republish, TakeLock, Takes
<1>3. CASE Elect(p)
  BY <1>3 DEF Elect, Keeps
<1>4. CASE Unlink(p)
  <2>1. lock = g[p] /\ g[p] \in Tok /\ pc[p] = "unlink" /\ status[p] = "alive"
    BY <1>4 DEF Unlink, ProcOK, Elected
  <2> QED
    BY <1>4, <2>1, TokFacts DEF Unlink, Drops, locals
<1>5. CASE ReleaseUnlink(p)
  BY <1>5, <1>1, TokFacts DEF ReleaseUnlink, ProcOK, Holding, Drops
<1>6. CASE PurgeOne(p)
  BY <1>6 DEF PurgeOne, Visit, ProcOK, Purging, Keeps
<1>7. CASE GcOne(p)
  BY <1>7 DEF GcOne, Visit, ProcOK, Holding, Keeps
<1> QED
  BY <1>1, <1>2, <1>3, <1>4, <1>5, <1>6, <1>7
  DEF Act, Step, Kernel, Begin, BeginBreak, ReadFirst, PublishFails, PublishExists, ReadLock, CheckTarget,
      ElectExists, ReadSucc, Retire, Confirm, UnlinkFails, PurgeList, PurgeFails, PurgeDone,
      RepublishExists, GcList, GcDone, ListSucc, Release, Spawn, Crash, Reap

\* Counters only grow, the dead stay dead, and what was published stays published.
LEMMA Monotone ==
    ASSUME TypeOK, NEW p \in Proc, Act(p)
    PROVE  /\ cnt' = cnt \/ cnt' = [cnt EXCEPT ![p] = @ + 1]
           /\ \A o \in Proc : Dead(o) => Dead(o)'
           /\ \A x \in Tok : Published(x) => Published(x)'
<1>1. cnt' = cnt \/ cnt' = [cnt EXCEPT ![p] = @ + 1]
  BY DEF Act, Step, Kernel, Begin, BeginBreak, ReadFirst, PublishFails, Publish, Republish, TakeLock, PublishExists,
      ReadLock, CheckTarget, Elect, ElectExists, ReadSucc, Retire, Confirm, Unlink, UnlinkFails,
      PurgeList, PurgeFails, PurgeOne, PurgeDone, RepublishExists, GcList, GcOne, GcDone, ListSucc,
      Visit, Release, ReleaseUnlink, Spawn, Crash, Reap
<1>2. \/ status' = status
      \/ status[p] # "gone" /\ \E v \in {"alive", "husk", "zombie", "gone"} :
            status' = [status EXCEPT ![p] = v] /\ (v = "alive" => status[p] = "unborn")
  BY DEF Act, Step, Kernel, Begin, BeginBreak, ReadFirst, PublishFails, Publish, Republish, TakeLock, PublishExists,
      ReadLock, CheckTarget, Elect, ElectExists, ReadSucc, Retire, Confirm, Unlink, UnlinkFails,
      PurgeList, PurgeFails, PurgeOne, PurgeDone, RepublishExists, GcList, GcOne, GcDone, ListSucc,
      Visit, Release, ReleaseUnlink, Spawn, Crash, Reap
<1>3. ASSUME NEW o \in Proc, Dead(o) PROVE Dead(o)'
  <2>1. status[o] \in {"husk", "zombie", "gone"}
    BY <1>3 DEF Dead
  <2>2. CASE status' = status
    BY <2>1, <2>2 DEF Dead
  <2>3. ASSUME NEW v \in {"alive", "husk", "zombie", "gone"}, status' = [status EXCEPT ![p] = v],
               v = "alive" => status[p] = "unborn"
        PROVE  Dead(o)'
    <3>1. status'[o] = IF o = p THEN v ELSE status[o]
      BY <2>3 DEF TypeOK
    <3>2. o = p => v # "alive"
      BY <2>1, <2>3
    <3>3. status'[o] \in {"husk", "zombie", "gone"}
      BY <2>1, <2>3, <3>1, <3>2
    <3> QED
      BY <3>3 DEF Dead
  <2> QED
    BY <1>2, <2>2, <2>3
<1>4. ASSUME NEW x \in Tok, Published(x) PROVE Published(x)'
  <2>1. x[1] \in Proc /\ x[2] \in Nat
    BY TokFacts
  <2>2. cnt[x[1]] \in Nat /\ x[2] < cnt[x[1]]
    BY <1>4, <2>1 DEF Published, TypeOK
  <2>3. cnt'[x[1]] = cnt[x[1]] \/ cnt'[x[1]] = cnt[x[1]] + 1
    BY <1>1, <2>1 DEF TypeOK
  <2>4. x[2] < cnt'[x[1]]
    BY <2>1, <2>2, <2>3
  <2> QED
    BY <2>4 DEF Published
<1> QED
  BY <1>1, <1>3, <1>4

\* A fresh token is not published before it is drawn, and is afterwards.
LEMMA FreshFacts ==
    ASSUME TypeOK, NEW p \in Proc
    PROVE  /\ \A x \in Tok : Published(x) => x # Fresh(p)
           /\ cnt' = [cnt EXCEPT ![p] = @ + 1] => \A x \in Tok : x = Fresh(p) => Published(x)'
<1>1. \A x \in Tok : Published(x) => x # Fresh(p)
  BY TokFacts DEF Published, TypeOK
<1>2. ASSUME cnt' = [cnt EXCEPT ![p] = @ + 1], NEW x \in Tok, x = Fresh(p) PROVE Published(x)'
  <2>1. x[1] = p /\ x[2] = cnt[p]
    BY <1>2, TokFacts
  <2> QED
    BY <1>2, <2>1 DEF TypeOK, Published
<1> QED
  BY <1>1, <1>2

\* The tokens p takes up are None, its own, the one in LOCK or the one of a link.
LEMMA OwnTokens ==
    ASSUME TypeOK, NEW p \in Proc, Act(p)
    PROVE  /\ g'[p] \in {g[p], None, lock}
           /\ key'[p] \in {key[p], None, lock} \cup {r.tok : r \in succ}
<1> USE DEF TypeOK, At, Goto
<1>1. ASSUME Return(p) \/ NextRound(p)
      PROVE  g'[p] = None /\ key'[p] = None
  BY <1>1 DEF Return, NextRound
<1>2. CASE UNCHANGED <<g, key>>
  BY <1>2
<1>3. CASE BeginBreak(p) \/ ReadLock(p)
  BY <1>3, <1>1 DEF BeginBreak, ReadLock, Succeed
<1>4. CASE TakeLock(p)
  BY <1>4 DEF TakeLock
<1>5. CASE ReadSucc(p)
  BY <1>5, <1>1 DEF ReadSucc, SuccOf
<1> QED
  BY <1>1, <1>2, <1>3, <1>4, <1>5
  DEF Act, Step, Kernel, Begin, ReadFirst, PublishFails, Publish, PublishExists, CheckTarget, Elect, ElectExists,
      Retire, Confirm, Unlink, UnlinkFails, PurgeList, PurgeFails, PurgeOne, PurgeDone, Republish,
      RepublishExists, GcList, GcOne, GcDone, ListSucc, Visit, Release, ReleaseUnlink, Spawn, Crash,
      Reap, locals

\* Links come from elections only.
LEMMA LinkSteps ==
    ASSUME NEW p \in Proc, Act(p)
    PROVE  succ' \subseteq succ \/ Elect(p)
BY DEF Act, Step, Kernel, Begin, BeginBreak, ReadFirst, PublishFails, Publish, Republish, TakeLock, PublishExists,
       ReadLock, CheckTarget, ElectExists, ReadSucc, Retire, Confirm, Unlink, UnlinkFails,
       PurgeList, PurgeFails, PurgeOne, PurgeDone, RepublishExists, GcList, GcOne, GcDone, ListSucc,
       Visit, Release, ReleaseUnlink, Spawn, Crash, Reap

\* The link an election publishes.
NewLink(p) == [key |-> key[p], tok |-> Fresh(p), target |-> g[p], depth |-> depth[p]]

LEMMA ElectFacts ==
    ASSUME IInv, NEW p \in Proc, Elect(p)
    PROVE  /\ NewLink(p) \in Link /\ succ' = succ \cup {NewLink(p)} /\ lock' = lock
           /\ cnt' = [cnt EXCEPT ![p] = @ + 1]
           /\ NewLink(p).key = key[p] /\ NewLink(p).tok = Fresh(p)
           /\ NewLink(p).target = g[p] /\ NewLink(p).depth = depth[p]
           /\ key[p] \in Tok /\ g[p] \in Tok /\ Published(key[p]) /\ Published(g[p])
           /\ \A r \in succ : r.key # key[p]
           /\ g[p] = lock => WalkOK(p)
<1>1. ProcOK(p) /\ TypeOK
  BY DEF IInv
<1>2. key[p] \in Tok /\ g[p] \in Tok /\ (g[p] = lock => WalkOK(p))
  BY <1>1 DEF Elect, At, ProcOK, Walking
<1>3. Published(key[p]) /\ Published(g[p])
  BY <1>2, TokFacts DEF IInv, TokensOK
<1>4. depth[p] \in Nat /\ Fresh(p) \in Tok
  BY <1>1, TokFacts, LimitAssumption DEF TypeOK
<1>5. NewLink(p) \in Link
  BY <1>2, <1>4, LinkFacts DEF NewLink
<1> QED
  BY <1>2, <1>3, <1>5 DEF Elect, NewLink, SuccOf

\* Types are kept.
LEMMA TypeStep == ASSUME IInv, NEW p \in Proc, Act(p) PROVE TypeOK'
<1> TypeOK /\ ProcOK(p)
  BY DEF IInv
<1>1. LocalType'
  BY LocalTypeStep DEF Act
<1>2. status' \in [Proc -> {"unborn", "alive", "husk", "zombie", "gone"}]
  BY DEF Act, Step, Kernel, Begin, BeginBreak, ReadFirst, PublishFails, Publish, Republish, TakeLock, PublishExists,
      ReadLock, CheckTarget, Elect, ElectExists, ReadSucc, Retire, Confirm, Unlink, UnlinkFails,
      PurgeList, PurgeFails, PurgeOne, PurgeDone, RepublishExists, GcList, GcOne, GcDone, ListSucc,
      Visit, Release, ReleaseUnlink, Spawn, Crash, Reap, TypeOK
<1>3. lock' \in Tok \cup {None}
  BY FileSteps, TokFacts DEF Keeps, Takes, Drops, TypeOK
<1>4. succ' \subseteq Link
  BY LinkSteps, ElectFacts DEF TypeOK
<1>5. cnt' \in [Proc -> Nat]
  BY Monotone DEF TypeOK
<1> QED
  BY <1>1, <1>2, <1>3, <1>4, <1>5 DEF LocalType, TypeOK

\* The kernel's promises are kept.
LEMMA KernelStep == ASSUME IInv, NEW p \in Proc, Act(p) PROVE KernelOK'
<1> TypeOK /\ KernelOK
  BY DEF IInv
<1>0. \A q \in Proc : q # p => status'[q] = status[q] /\ pc'[q] = pc[q]
  BY Others DEF Same
<1>1. CASE Spawn(p)
  BY <1>0, <1>1 DEF Spawn, KernelOK, Present, TypeOK
<1>2. CASE Crash(p) \/ Reap(p)
  BY <1>0, <1>2 DEF Crash, Reap, KernelOK, Present, TypeOK
<1>3. CASE /\ status' = status /\ status[p] = "alive"
           /\ cnt' = cnt \/ cnt' = [cnt EXCEPT ![p] = @ + 1]
  BY <1>0, <1>3 DEF KernelOK, Present, TypeOK
<1>4. Step(p) => status' = status
  BY DEF Step, ReadFirst, PublishFails, Publish, Republish, TakeLock, PublishExists,
      ReadLock, CheckTarget, Elect, ElectExists, ReadSucc, Retire, Confirm, Unlink, UnlinkFails,
      PurgeList, PurgeFails, PurgeOne, PurgeDone, RepublishExists, GcList, GcOne, GcDone, ListSucc,
      Visit, Release, ReleaseUnlink
<1>5. Step(p) => status[p] = "alive"
  BY DEF Step, ReadFirst, PublishFails, Publish, Republish, PublishExists,
      ReadLock, CheckTarget, Elect, ElectExists, ReadSucc, Retire, Confirm, Unlink, UnlinkFails,
      PurgeList, PurgeFails, PurgeOne, PurgeDone, RepublishExists, GcList, GcOne, GcDone, ListSucc,
      Release, ReleaseUnlink, At
<1>6. CASE Begin(p) \/ BeginBreak(p) \/ Step(p)
  <2>1. status' = status /\ status[p] = "alive"
    BY <1>4, <1>5, <1>6 DEF Begin, BeginBreak, At
  <2>2. cnt' = cnt \/ cnt' = [cnt EXCEPT ![p] = @ + 1]
    BY Monotone
  <2> QED
    BY <1>3, <2>1, <2>2
<1> QED
  BY <1>1, <1>2, <1>6 DEF Act, Kernel

\* Tokens stay unique.
LEMMA TokensStep == ASSUME IInv, NEW p \in Proc, Act(p) PROVE TokensOK'
<1> TypeOK /\ TokensOK
  BY DEF IInv
<1>1. \A r \in succ : r.key \in Tok /\ r.tok \in Tok /\ r.target \in Tok
  BY LinkFacts DEF TypeOK
<1>2. lock' # None => Published(lock)'
  <2>1. CASE lock' = lock
    <3>1. lock # None => lock \in Tok
      BY DEF TypeOK
    <3>2. lock # None => \A x \in Tok : x = lock => Published(x)'
      BY <3>1, Monotone DEF TokensOK
    <3> QED
      BY <2>1, <3>1, <3>2 DEF Published
  <2>2. CASE Takes(p)
    <3>1. PICK x \in Tok : x = Fresh(p)
      BY TokFacts
    <3>2. Published(x)'
      BY <2>2, <3>1, FreshFacts DEF Takes
    <3> QED
      BY <2>2, <3>1, <3>2 DEF Takes, Published
  <2> QED
    BY <2>1, <2>2, FileSteps DEF Keeps, Drops
<1>3. \A r \in succ : /\ Published(r.tok)' /\ Published(r.key)' /\ Published(r.target)'
                      /\ r.tok # lock'
  <2> TAKE r \in succ
  <2>1. Published(r.tok)' /\ Published(r.key)' /\ Published(r.target)'
    BY <1>1, Monotone DEF TokensOK
  <2>2. r.tok # lock'
    BY <1>1, FileSteps, FreshFacts, TokFacts DEF TokensOK, Keeps, Takes, Drops
  <2> QED
    BY <2>1, <2>2
<1>4. \A r \in succ' : /\ Published(r.tok)' /\ Published(r.key)' /\ Published(r.target)'
                       /\ r.tok # lock'
  <2>1. CASE succ' \subseteq succ
    BY <2>1, <1>3
  <2>2. CASE Elect(p)
    <3>0. PICK n \in Link : n = NewLink(p)
      BY <2>2, ElectFacts
    <3>1. Published(n.tok)'
      BY <2>2, <3>0, ElectFacts, FreshFacts, TokFacts
    <3>2. Published(n.key)' /\ Published(n.target)'
      BY <2>2, <3>0, ElectFacts, Monotone
    <3>3. n.tok # lock'
      BY <2>2, <3>0, ElectFacts, FreshFacts, TokFacts DEF TokensOK, TypeOK
    <3> QED
      BY <2>2, <1>3, <3>0, <3>1, <3>2, <3>3, ElectFacts
  <2> QED
    BY <2>1, <2>2, LinkSteps
<1>5. \A r, s \in succ' : r.tok = s.tok => r = s
  <2>1. CASE succ' \subseteq succ
    BY <2>1 DEF TokensOK
  <2>2. CASE Elect(p)
    BY <2>2, <1>1, ElectFacts, FreshFacts DEF TokensOK
  <2> QED
    BY <2>1, <2>2, LinkSteps
<1>6. ASSUME NEW q \in Proc, NEW x \in {g'[q], key'[q]}, x # None PROVE Published(x)'
  <2>1. x \in Tok /\ Published(x)
    <3>1. CASE q = p
      BY <3>1, <1>1, <1>6, OwnTokens DEF TypeOK, TokensOK
    <3>2. CASE q # p
      <4>1. g'[q] = g[q] /\ key'[q] = key[q]
        BY <3>2, Others DEF Same
      <4> QED
        BY <1>6, <4>1 DEF TypeOK, TokensOK
    <3> QED
      BY <3>1, <3>2
  <2> QED
    BY <2>1, Monotone
<1>7. \A q \in Proc : /\ g'[q] # None => Published(g[q])'
                      /\ key'[q] # None => Published(key[q])'
  BY <1>6 DEF Published
<1> QED
  BY <1>2, <1>4, <1>5, <1>7 DEF TokensOK
-----------------------------------------------------------------------------
(* The chain *)

\* A link for the token in LOCK, at the depth a walking process has reached, is the
\* link SUCC(key) it tries to publish.
LEMMA SameLink ==
    ASSUME IInv, NEW p \in Proc, WalkOK(p), NEW r \in succ, r.target = lock,
           depth[p] = r.depth
    PROVE  r.key = key[p]
<1> TypeOK /\ ChainOK
  BY DEF IInv
<1>1. r.depth \in Nat /\ depth[p] \in Nat
  BY LinkFacts DEF TypeOK
<1>2. CASE r.depth = 0
  BY <1>2 DEF WalkOK, ChainOK
<1>3. CASE r.depth > 0
  <2>1. PICK s \in succ : s.target = lock /\ s.depth = r.depth - 1 /\ s.tok = r.key
    BY <1>3 DEF ChainOK
  <2>2. PICK t \in succ : t.target = lock /\ t.depth = r.depth - 1 /\ t.tok = key[p]
    BY <1>3 DEF WalkOK
  <2>3. s = t
    BY <2>1, <2>2 DEF ChainOK
  <2> QED
    BY <2>1, <2>2, <2>3
<1> QED
  BY <1>1, <1>2, <1>3

\* Conversely, the link SUCC(key) for the token in LOCK is at that depth.
LEMMA SameDepth ==
    ASSUME IInv, NEW p \in Proc, WalkOK(p), NEW r \in succ, r.target = lock,
           r.key = key[p]
    PROVE  r.depth = depth[p]
<1> TypeOK /\ ChainOK /\ TokensOK
  BY DEF IInv
<1>1. r.depth \in Nat /\ depth[p] \in Nat
  BY LinkFacts DEF TypeOK
<1>2. depth[p] > 0 => \E t \in succ : t.depth = depth[p] - 1 /\ t.tok = r.key
  BY DEF WalkOK
<1>3. r.depth > 0 => \E s \in succ : s.depth = r.depth - 1 /\ s.tok = r.key
  BY DEF ChainOK
<1>4. \A s \in succ : s.tok # lock /\ s.depth \in Nat
  BY LinkFacts DEF TokensOK, TypeOK
<1>5. CASE r.depth = 0
  <2>1. r.key = lock
    BY <1>5 DEF ChainOK
  <2> QED
    BY <1>1, <1>2, <1>4, <1>5, <2>1
<1>6. CASE depth[p] = 0
  <2>1. r.key = lock
    BY <1>6 DEF WalkOK
  <2> QED
    BY <1>1, <1>3, <1>4, <1>6, <2>1
<1>7. CASE r.depth > 0 /\ depth[p] > 0
  <2>1. PICK s \in succ : s.depth = r.depth - 1 /\ s.tok = r.key
    BY <1>3, <1>7
  <2>2. PICK t \in succ : t.depth = depth[p] - 1 /\ t.tok = r.key
    BY <1>2, <1>7
  <2>3. s = t
    BY <2>1, <2>2 DEF TokensOK
  <2> QED
    BY <1>1, <2>1, <2>2, <2>3
<1> QED
  BY <1>1, <1>5, <1>6, <1>7

\* Before p publishes its link, no link for the token in LOCK is as deep as p.
LEMMA NoLinkAhead ==
    ASSUME IInv, NEW p \in Proc, Elect(p), g[p] = lock, NEW r \in succ, r.target = lock
    PROVE  r.depth < depth[p]
<1> TypeOK /\ ChainOK /\ WalkOK(p)
  BY ElectFacts DEF IInv
<1>1. r.depth \in Nat /\ depth[p] \in Nat
  BY LinkFacts DEF TypeOK
<1>2. \A s \in succ : s.target = lock => s.depth # depth[p]
  BY SameLink, ElectFacts
<1>3. r.depth > depth[p] => \E s \in succ : s.target = lock /\ s.depth = depth[p]
  <2>1. r.depth > depth[p] => depth[p] \in 0 .. (r.depth - 1)
    BY <1>1
  <2> QED
    BY <2>1 DEF ChainOK
<1> QED
  BY <1>1, <1>2, <1>3

\* The links for the token in LOCK stay a chain.
LEMMA ChainStep == ASSUME IInv, NEW p \in Proc, Act(p) PROVE ChainOK'
<1> TypeOK /\ ChainOK /\ TokensOK
  BY DEF IInv
<1>0. \A r \in succ : /\ r.target \in Tok /\ r.tok \in Tok /\ r.depth \in Nat /\ Published(r.target)
                      /\ Owner(r.tok) \in Proc
  BY LinkFacts, TokFacts DEF TypeOK, TokensOK
<1>1. CASE Takes(p) \/ Drops(p)
  <2>1. \A r \in succ' : r.target # lock'
    BY <1>0, <1>1, FreshFacts, TokFacts DEF Takes, Drops
  <2> QED
    BY <2>1 DEF ChainOK
<1>2. CASE Keeps /\ succ' \subseteq succ
  <2>1. \A r \in succ : r.target = lock => r \in succ'
    BY <1>2 DEF Keeps
  <2>2. \A r \in succ : Dead(Owner(r.tok)) => Dead(Owner(r.tok))'
    BY <1>0, Monotone
  <2> SUFFICES ASSUME NEW r \in succ', r.target = lock
               PROVE  /\ \A s \in succ' : s.target = lock /\ s.depth = r.depth => s = r
                      /\ r.depth = 0 => r.key = lock
                      /\ r.depth > 0 => \E s \in succ' : /\ s.target = lock /\ s.depth = r.depth - 1
                                                          /\ s.tok = r.key
                      /\ \A k \in 0 .. (r.depth - 1) :
                            \E s \in succ' : s.target = lock /\ s.depth = k /\ Dead(Owner(s.tok))'
    BY <1>2 DEF ChainOK, Keeps
  <2>3. r \in succ
    BY <1>2
  <2> QED
    BY <1>2, <2>1, <2>2, <2>3 DEF ChainOK
<1>3. CASE Elect(p)
  <2> DEFINE n == NewLink(p)
  <2>1. /\ succ' = succ \cup {n} /\ lock' = lock /\ n.target = g[p] /\ n.depth = depth[p]
        /\ n.key = key[p] /\ (g[p] = lock => WalkOK(p)) /\ depth[p] \in Nat
    BY <1>3, ElectFacts, LimitAssumption DEF TypeOK
  <2>2. \A r \in succ : Dead(Owner(r.tok)) => Dead(Owner(r.tok))'
    BY <1>0, Monotone
  <2>3. n.target = lock => \A r \in succ : r.target = lock => r.depth < n.depth
    BY <1>3, <2>1, NoLinkAhead
  <2> HIDE DEF n
  <2> SUFFICES ASSUME NEW r \in succ', r.target = lock
               PROVE  /\ \A s \in succ' : s.target = lock /\ s.depth = r.depth => s = r
                      /\ r.depth = 0 => r.key = lock
                      /\ r.depth > 0 => \E s \in succ' : /\ s.target = lock /\ s.depth = r.depth - 1
                                                          /\ s.tok = r.key
                      /\ \A k \in 0 .. (r.depth - 1) :
                            \E s \in succ' : s.target = lock /\ s.depth = k /\ Dead(Owner(s.tok))'
    BY <2>1 DEF ChainOK
  <2>4. CASE r \in succ
    <3>1. \A s \in succ' : s.target = lock /\ s.depth = r.depth => s = r
      BY <1>0, <2>1, <2>3, <2>4 DEF ChainOK
    <3> QED
      BY <2>1, <2>2, <2>4, <3>1 DEF ChainOK
  <2>5. CASE r = n
    <3>1. \A s \in succ' : s.target = lock /\ s.depth = r.depth => s = r
      BY <1>0, <2>1, <2>3, <2>5
    <3> QED
      BY <2>1, <2>2, <2>5, <3>1 DEF WalkOK
  <2> QED
    BY <2>1, <2>4, <2>5
<1> QED
  BY <1>1, <1>2, <1>3, FileSteps, LinkSteps
-----------------------------------------------------------------------------
(* The processes *)

\* A step of p leaves what holds of the others.
LEMMA OthersOK ==
    ASSUME IInv, NEW p \in Proc, NEW q \in Proc, q # p, Act(p)
    PROVE  ProcOK(q)'
<1> TypeOK /\ TokensOK /\ ProcOK(p) /\ ProcOK(q) /\ UniqueSuccessor
  BY DEF IInv
<1> Same(q)
  BY Others
<1> SUFFICES ASSUME status[q] = "alive" PROVE ProcOK(q)'
  BY DEF ProcOK, Same
<1>1. \A o \in Proc : Dead(o) => Dead(o)'
  BY Monotone
<1>2. pc[q] \in Walking \cup Elected \cup Purging =>
         /\ g[q] \in Tok /\ g[q] # None /\ Owner(g[q]) \in Proc /\ Dead(Owner(g[q]))
         /\ g[q] # Fresh(p)
  BY TokFacts, FreshFacts DEF ProcOK, TokensOK
<1>3. \A r \in succ : Owner(r.tok) \in Proc
  BY LinkFacts, TokFacts DEF TypeOK
<1>4. CASE Keeps
  <2>1. WalkOK(q) /\ g[q] = lock => WalkOK(q)'
    BY <1>1, <1>3, <1>4 DEF WalkOK, Keeps, Same
  <2> QED
    BY <1>1, <1>2, <1>4, <2>1 DEF ProcOK, Keeps, Same, Holding
<1>5. CASE Takes(p)
  <2>1. ~Holding(q) /\ pc[q] # "unlink"
    BY <1>2, <1>5, TokFacts DEF ProcOK, Takes, Elected
  <2> QED
    BY <1>1, <1>2, <1>5, <2>1 DEF ProcOK, Takes, Same, Holding
<1>6. CASE Drops(p)
  <2>1. ~Dead(p) /\ ~Dead(q)
    BY <1>6 DEF Dead, Drops
  <2>2. pc[p] = "unlink" => Dead(Owner(g[p]))
    BY <1>6 DEF ProcOK, Drops, Elected
  <2>3. ~Holding(q)
    BY <1>6, <2>1, <2>2 DEF ProcOK, Drops
  <2>4. pc[q] # "unlink"
    BY <1>2, <1>6, <2>1 DEF ProcOK, Drops, Elected, UniqueSuccessor, Successors
  <2> QED
    BY <1>1, <1>2, <1>6, <2>3, <2>4 DEF ProcOK, Drops, Same, Holding
<1> QED
  BY <1>4, <1>5, <1>6, FileSteps

\* The owner of a token in LOCK that p judges dead, or that an operator vouches for, is.
LEMMA LockDead ==
    ASSUME IInv, NEW p \in Proc, status[p] = "alive", lock # None,
           Verdict(Owner(lock), p) = "dead" \/ status[Owner(lock)] # "alive"
    PROVE  lock \in Tok /\ Dead(Owner(lock))
<1> TypeOK /\ KernelOK /\ TokensOK
  BY DEF IInv
<1>1. lock \in Tok /\ Owner(lock) \in Proc /\ Published(lock)
  BY TokFacts DEF TypeOK, TokensOK
<1>2. status[Owner(lock)] # "alive"
  BY <1>1, VerdictSound
<1> QED
  BY <1>1, <1>2, PublishedDead

\* One link further, p still has only dead owners behind it.
LEMMA WalkFurther ==
    ASSUME IInv, NEW p \in Proc, status[p] = "alive", pc[p] \in Walking, g[p] = lock,
           NEW r \in SuccOf(key[p]), r.target = g[p], Verdict(Owner(r.tok), p) = "dead"
    PROVE  /\ \E s \in succ : s.target = lock /\ s.depth = depth[p] /\ s.tok = r.tok
           /\ \A k \in 0 .. depth[p] :
                 \E s \in succ : s.target = lock /\ s.depth = k /\ Dead(Owner(s.tok))
<1> TypeOK /\ KernelOK /\ TokensOK /\ ProcOK(p)
  BY DEF IInv
<1>1. WalkOK(p) /\ r \in succ /\ r.key = key[p]
  BY DEF ProcOK, SuccOf
<1>2. r.depth = depth[p] /\ depth[p] \in Nat
  BY <1>1, SameDepth, LimitAssumption DEF TypeOK
<1>3. r.tok \in Tok /\ Owner(r.tok) \in Proc /\ Published(r.tok)
  BY <1>1, LinkFacts, TokFacts DEF TypeOK, TokensOK
<1>4. Dead(Owner(r.tok))
  BY <1>3, VerdictSound, PublishedDead
<1>5. \A k \in 0 .. depth[p] : k = depth[p] \/ k \in 0 .. (depth[p] - 1)
  BY <1>2
<1> QED
  BY <1>1, <1>2, <1>4, <1>5 DEF WalkOK

\* A step of p establishes what holds of p afterwards.
LEMMA OwnOK == ASSUME IInv, NEW p \in Proc, Act(p) PROVE ProcOK(p)'
<1> TypeOK /\ KernelOK /\ TokensOK /\ ProcOK(p)
  BY DEF IInv
<1> USE DEF TypeOK, At, Goto
<1>0. \A o \in Proc : Dead(o) => Dead(o)'
  BY Monotone
<1>1. CASE pc'[p] \in {"idle", "publish", "read", "republish"} \/ status'[p] # "alive"
  BY <1>1 DEF ProcOK, Walking, Elected, Purging, Holding
<1>2. CASE Return(p) \/ NextRound(p)
  BY <1>1, <1>2 DEF Return, NextRound
<1>3. CASE Begin(p) \/ PublishExists(p)
  BY <1>1, <1>3 DEF Begin, PublishExists
<1>4. CASE TakeLock(p)
  <2>1. /\ pc'[p] = "gc" /\ lock' = Fresh(p) /\ mine'[p] = Fresh(p)
        /\ Fresh(p) \in Tok /\ Owner(Fresh(p)) = p
    BY <1>4, TokFacts DEF TakeLock
  <2>2. lock' \in Tok /\ lock' = mine'[p] /\ Owner(lock') = p
    BY <2>1
  <2> QED
    BY <2>1, <2>2 DEF ProcOK, Walking, Elected, Purging, Holding, Owner
<1>5. CASE (ReadLock(p) \/ BeginBreak(p)) /\ ~Return(p) /\ ~NextRound(p)
  <2>1. /\ status[p] = "alive" /\ lock # None /\ UNCHANGED <<status, lock, succ>>
        /\ Verdict(Owner(lock), p) = "dead" \/ status[Owner(lock)] # "alive"
        /\ pc'[p] \in {"elect", "check"} /\ g'[p] = lock /\ key'[p] = lock /\ depth'[p] = 0
    BY <1>5 DEF ReadLock, BeginBreak, Succeed
  <2>2. lock \in Tok /\ Dead(Owner(lock))
    BY <2>1, LockDead
  <2>3. Dead(Owner(g[p]))' /\ g'[p] \in Tok /\ key'[p] \in Tok
    BY <2>1, <2>2 DEF Dead, Owner
  <2>4. WalkOK(p)'
    BY <2>1 DEF WalkOK
  <2> QED
    BY <2>1, <2>3, <2>4 DEF ProcOK, Walking, Elected, Purging, Holding
<1>6. ASSUME UNCHANGED <<status, lock, succ, g, key, depth, mine>>,
             \/ pc[p] \in Walking /\ pc'[p] \in Walking
             \/ pc[p] \in Elected /\ pc'[p] \in Elected /\ (pc'[p] = "unlink" => lock = g[p])
             \/ pc[p] \in Elected \cup Purging /\ pc'[p] \in Purging /\ lock # g[p]
             \/ Holding(p) /\ pc'[p] \in {"gc", "collect", "hold", "letgo"}
      PROVE  ProcOK(p)'
  <2>1. WalkOK(p) => WalkOK(p)'
    BY <1>6 DEF WalkOK, Dead
  <2>2. Dead(Owner(g[p])) => Dead(Owner(g[p]))'
    BY <1>6 DEF Dead
  <2> QED
    BY <1>6, <2>1, <2>2 DEF ProcOK, Walking, Elected, Purging, Holding
<1>7. CASE (CheckTarget(p) \/ ElectExists(p)) /\ ~Return(p)
  BY <1>6, <1>7 DEF CheckTarget, ElectExists, Walking, locals
<1>8. CASE Elect(p)
  <2>1. PICK n \in Link : n = NewLink(p)
    BY <1>8, ElectFacts
  <2>2. n \in succ' /\ n.target = g[p] /\ Owner(n.tok) = p /\ lock' = lock /\ g[p] \in Tok
    BY <1>8, <2>1, ElectFacts, TokFacts
  <2>3. /\ UNCHANGED <<status, g, mine>> /\ pc'[p] \in {"retire", "confirm"}
        /\ status[p] = "alive" /\ pc[p] = "elect"
    BY <1>8 DEF Elect, locals
  <2>4. Dead(Owner(g[p]))'
    BY <2>3 DEF ProcOK, Walking, Dead, Owner
  <2> QED
    BY <2>2, <2>3, <2>4 DEF ProcOK, Walking, Elected, Purging, Holding
<1>9. CASE ReadSucc(p) /\ ~Return(p) /\ ~NextRound(p)
  <2>1. PICK r \in SuccOf(key[p]) :
            /\ r.target = g[p] /\ Verdict(Owner(r.tok), p) = "dead"
            /\ key' = [key EXCEPT ![p] = r.tok]
            /\ depth' = [depth EXCEPT ![p] = @ + 1]
            /\ pc' = [pc EXCEPT ![p] = IF op[p] = "break" THEN "check" ELSE "elect"]
            /\ UNCHANGED <<g, mine, status, lock, succ>>
    BY <1>9 DEF ReadSucc
  <2>2. /\ status[p] = "alive" /\ pc[p] = "readsucc" /\ depth[p] \in Nat
        /\ key'[p] = r.tok /\ depth'[p] = depth[p] + 1 /\ r.tok \in Tok
        /\ pc'[p] \in {"check", "elect"}
    BY <1>9, <2>1, LinkFacts, LimitAssumption DEF ReadSucc, SuccOf
  <2>3. ASSUME g[p] = lock PROVE WalkOK(p)'
    <3>1. /\ \E s \in succ : s.target = lock /\ s.depth = depth[p] /\ s.tok = r.tok
          /\ \A k \in 0 .. depth[p] :
                \E s \in succ : s.target = lock /\ s.depth = k /\ Dead(Owner(s.tok))
      BY <2>1, <2>2, <2>3, WalkFurther DEF Walking
    <3>2. depth'[p] - 1 = depth[p] /\ depth'[p] # 0
      BY <2>2
    <3> QED
      BY <2>1, <2>2, <3>1, <3>2 DEF WalkOK, Dead
  <2>4. g[p] \in Tok /\ Dead(Owner(g[p]))'
    BY <2>1, <2>2 DEF ProcOK, Walking, Dead, Owner
  <2> QED
    BY <2>1, <2>2, <2>3, <2>4 DEF ProcOK, Walking, Elected, Purging, Holding
<1>10. CASE Retire(p)
  BY <1>6, <1>10 DEF Retire, Elected, Purging, locals
<1>11. CASE Confirm(p)
  BY <1>6, <1>11 DEF Confirm, Elected, Purging
<1>12. CASE Unlink(p)
  <2>1. /\ UNCHANGED <<status, g>> /\ lock' = None /\ pc'[p] = "purge"
        /\ status[p] = "alive" /\ pc[p] = "unlink"
    BY <1>12 DEF Unlink, locals
  <2>2. g[p] \in Tok /\ Dead(Owner(g[p]))' /\ g[p] # None
    BY <2>1, TokFacts DEF ProcOK, Elected, Dead, Owner
  <2> QED
    BY <2>1, <2>2 DEF ProcOK, Walking, Elected, Purging, Holding
<1>13. CASE PurgeList(p) \/ PurgeFails(p)
  BY <1>6, <1>13 DEF PurgeList, PurgeFails, ListSucc, locals, ProcOK, Purging
<1>14. CASE PurgeOne(p)
  <2>1. /\ UNCHANGED <<status, lock, g>> /\ pc'[p] = "purging"
        /\ status[p] = "alive" /\ pc[p] = "purging"
    BY <1>14 DEF PurgeOne, Visit
  <2>2. g[p] \in Tok /\ Dead(Owner(g[p]))' /\ lock # g[p]
    BY <2>1 DEF ProcOK, Purging, Dead, Owner
  <2> QED
    BY <2>1, <2>2 DEF ProcOK, Walking, Elected, Purging, Holding
<1>15. CASE PurgeDone(p)
  BY <1>1, <1>2, <1>15 DEF PurgeDone
<1>16. CASE GcOne(p)
  <2>1. /\ UNCHANGED <<status, lock, mine>> /\ pc'[p] = "collect"
        /\ status[p] = "alive" /\ pc[p] = "collect"
    BY <1>16 DEF GcOne, Visit
  <2> QED
    BY <2>1 DEF ProcOK, Walking, Elected, Purging, Holding
<1>17. CASE GcList(p) \/ GcDone(p) \/ (Release(p) /\ ~Return(p))
  BY <1>6, <1>17 DEF GcList, GcDone, Release, ListSucc, locals, Holding
<1>18. CASE Spawn(p) \/ Crash(p) \/ Reap(p)
  BY <1>1, <1>18 DEF Spawn, Crash, Reap, KernelOK
<1> QED
  BY <1>2, <1>3, <1>4, <1>5, <1>7, <1>8, <1>9, <1>10, <1>11, <1>12, <1>13, <1>14, <1>15, <1>16, <1>17, <1>18
  DEF Act, Step, Kernel, ReadFirst, PublishFails, Publish, UnlinkFails, Republish, RepublishExists, ReleaseUnlink

\* A process becomes a successor by an election.
LEMMA NewSuccessor ==
    ASSUME IInv, NEW p \in Proc, Act(p), lock' = lock, status'[p] = "alive",
           pc'[p] \in Elected, g'[p] = lock, ~Elect(p)
    PROVE  p \in Successors(lock)
<1> TypeOK /\ KernelOK
  BY DEF IInv
<1> USE DEF TypeOK, At, Goto, Elected
<1>1. ~Return(p) /\ ~NextRound(p) /\ ~TakeLock(p)
  BY DEF Return, NextRound, TakeLock
<1>2. CASE Retire(p) \/ Confirm(p)
  BY <1>2 DEF Retire, Confirm, Successors, locals
<1>3. ~Begin(p) /\ ~PublishExists(p) /\ ~ElectExists(p) /\ ~GcDone(p) /\ ~PurgeFails(p)
  BY DEF Begin, PublishExists, ElectExists, GcDone, PurgeFails
<1>4. ~BeginBreak(p) /\ ~ReadLock(p) /\ ~CheckTarget(p) /\ ~ReadSucc(p)
  BY <1>1 DEF BeginBreak, ReadLock, Succeed, CheckTarget, ReadSucc
<1>5. ~Unlink(p) /\ ~PurgeList(p) /\ ~PurgeDone(p) /\ ~GcList(p) /\ ~Release(p)
  BY <1>1 DEF Unlink, PurgeList, ListSucc, PurgeDone, GcList, Release
<1>6. ~PurgeOne(p) /\ ~GcOne(p)
  BY DEF PurgeOne, GcOne, Visit
<1>7. ~Spawn(p) /\ ~Crash(p) /\ ~Reap(p)
  BY <1>1 DEF Spawn, Crash, Reap, KernelOK
<1> QED
  BY <1>1, <1>2, <1>3, <1>4, <1>5, <1>6, <1>7
  DEF Act, Step, Kernel, ReadFirst, PublishFails, Publish, UnlinkFails, Republish, RepublishExists, ReleaseUnlink

\* Lemma B is kept: an election finds no other running successor of the token in LOCK.
LEMMA UniqueStep == ASSUME IInv, NEW p \in Proc, Act(p) PROVE UniqueSuccessor'
<1> TypeOK /\ TokensOK /\ ChainOK /\ UniqueSuccessor
  BY DEF IInv
<1> SUFFICES ASSUME NEW x \in Proc, NEW y \in Proc, lock' # None,
                    x \in Successors(lock)', y \in Successors(lock)'
             PROVE  x = y
  BY DEF UniqueSuccessor
<1>1. \A q \in Proc : q \in Successors(lock)' /\ q # p => /\ status[q] = "alive" /\ pc[q] \in Elected
                                                          /\ g[q] = lock'
  BY Others DEF Same, Successors, Elected
<1>2. CASE lock' = lock
  <2>1. \A q \in Proc : q \in Successors(lock)' /\ q # p => q \in Successors(lock)
    BY <1>1, <1>2 DEF Successors, Elected
  <2>2. p \in Successors(lock)' => p \in Successors(lock) \/ Elect(p)
    BY <1>2, NewSuccessor DEF Successors, Elected
  <2>3. ASSUME Elect(p), g[p] = lock, NEW q \in Successors(lock) PROVE FALSE
    <3>1. q \in Proc /\ ProcOK(q) /\ status[q] = "alive" /\ pc[q] \in Elected /\ g[q] = lock
      BY <2>3 DEF Successors, IInv, Elected
    <3>2. PICK r \in succ : r.target = lock /\ Owner(r.tok) = q
      BY <3>1 DEF ProcOK
    <3>3. r.depth < depth[p] /\ r.depth \in Nat /\ depth[p] \in Nat
      BY <2>3, <3>2, NoLinkAhead, LinkFacts DEF TypeOK
    <3>4. r.depth \in 0 .. (depth[p] - 1)
      BY <3>3
    <3>5. WalkOK(p)
      BY <2>3, ElectFacts
    <3>6. PICK s \in succ : s.target = lock /\ s.depth = r.depth /\ Dead(Owner(s.tok))
      BY <3>4, <3>5 DEF WalkOK
    <3>7. s = r
      BY <3>2, <3>6 DEF ChainOK
    <3> QED
      BY <3>1, <3>2, <3>6, <3>7 DEF Dead
  <2>4. Elect(p) => g' = g
    BY DEF Elect, locals
  <2>5. p \in Successors(lock)' => g'[p] = lock
    BY <1>2 DEF Successors
  <2>6. x \in Successors(lock) /\ y \in Successors(lock) => x = y
    BY <1>2 DEF UniqueSuccessor
  <2> QED
    BY <2>1, <2>2, <2>3, <2>4, <2>5, <2>6
<1>3. CASE Takes(p)
  <2>1. \A q \in Proc : g[q] # None => g[q] # Fresh(p)
    BY FreshFacts DEF TokensOK, TypeOK
  <2>2. \A q \in Proc : q \in Successors(lock)' => q = p
    BY <1>1, <1>3, <2>1, TokFacts DEF Takes
  <2> QED
    BY <2>2
<1> QED
  BY <1>2, <1>3, FileSteps DEF Keeps, Drops
-----------------------------------------------------------------------------
(* The theorems *)

\* IInv is preserved by a step of any process and by stuttering.
LEMMA InductiveStep == IInv /\ [Next]_vars => IInv'
<1> SUFFICES ASSUME IInv, [Next]_vars PROVE IInv'
  OBVIOUS
<1>1. ASSUME NEW p \in Proc, Act(p) PROVE IInv'
  <2>1. TypeOK' /\ KernelOK' /\ TokensOK' /\ ChainOK' /\ UniqueSuccessor'
    BY <1>1, TypeStep, KernelStep, TokensStep, ChainStep, UniqueStep
  <2>2. \A q \in Proc : ProcOK(q)'
    BY <1>1, OwnOK, OthersOK
  <2> QED
    BY <2>1, <2>2 DEF IInv
<1>2. CASE UNCHANGED vars
  <2> USE <1>2 DEF vars
  <2>1. TypeOK' /\ KernelOK'
    BY DEF IInv, TypeOK, KernelOK, Present
  <2>2. TokensOK'
    BY DEF IInv, TokensOK, Published
  <2>3. ChainOK'
    BY DEF IInv, ChainOK, Dead
  <2>4. \A q \in Proc : ProcOK(q)'
    BY DEF IInv, ProcOK, WalkOK, Dead, Holding
  <2>5. UniqueSuccessor'
    BY DEF IInv, UniqueSuccessor, Successors
  <2> QED
    BY <2>1, <2>2, <2>3, <2>4, <2>5 DEF IInv
<1> QED
  BY <1>1, <1>2 DEF Next, Act

\* IInv holds in every reachable state of the lock directory and its processes.
THEOREM Invariance == Spec => []IInv
BY InitInv, InductiveStep, PTL DEF Spec

\* Every file and every local of acquirePrefixLock, breakLockAsOperator and release
\* keeps its type; in particular round and depth stay below their limits.
THEOREM TypeCorrect == Spec => []TypeOK
<1>1. IInv => TypeOK
  BY DEF IInv
<1> QED
  BY <1>1, Invariance, PTL

\* Mutual exclusion of acquirePrefixLock: a holder's token is the one in LOCK, and a
\* token has one owner.
THEOREM MutualExclusion == Spec => []AtMostOneHolder
<1>1. IInv => AtMostOneHolder
  BY DEF IInv, ProcOK, AtMostOneHolder, Holding
<1> QED
  BY <1>1, Invariance, PTL

\* Lemma A of the proof sketch: LOCK holds a running holder's token until release().
THEOREM LeaseStaysHeld == Spec => []HolderKeepsLock
<1>1. IInv => HolderKeepsLock
  BY DEF IInv, ProcOK, HolderKeepsLock, Holding
<1> QED
  BY <1>1, Invariance, PTL

\* I3: classifyLiveness and classifyIdentityLiveness never call a running process dead.
THEOREM NoFalseDeathHolds == Spec => []NoFalseDeath
<1>1. IInv => NoFalseDeath
  BY VerdictSound, IdentitySound DEF IInv, NoFalseDeath, Running, Husks
<1> QED
  BY <1>1, Invariance, PTL

\* Lemma B of the proof sketch: one running process at most is past its election.
THEOREM OneSuccessor == Spec => []UniqueSuccessor
<1>1. IInv => UniqueSuccessor
  BY DEF IInv
<1> QED
  BY <1>1, Invariance, PTL

\* I5: purgeSuccession and collectLockDebris leave the chain of the token in LOCK alone.
THEOREM ChainStays == Spec => ChainKept
<1>1. IInv /\ [Next]_vars => [\A r \in succ : r.target = lock => r \in succ']_vars
  <2> SUFFICES ASSUME IInv, NEW p \in Proc, Act(p)
               PROVE  \A r \in succ : r.target = lock => r \in succ'
    BY DEF Next, Act
  <2> QED
    BY FileSteps DEF Keeps, Takes, Drops
<1> QED
  BY <1>1, Invariance, PTL DEF Spec, ChainKept

\* I4 and Lemma C: a token leaves LOCK by its owner's release() or when its owner is dead.
THEOREM UnlinkIsTargeted == Spec => TargetedUnlink
<1>1. IInv /\ [Next]_vars =>
         [lock # None /\ lock' # lock => \/ status[Owner(lock)] # "alive"
                                         \/ pc[Owner(lock)] = "letgo"]_vars
  <2> SUFFICES ASSUME IInv, NEW p \in Proc, Act(p), lock # None, lock' # lock
               PROVE  status[Owner(lock)] # "alive" \/ pc[Owner(lock)] = "letgo"
    BY DEF Next, Act
  <2>1. Drops(p)
    BY FileSteps DEF Keeps, Takes
  <2>2. ProcOK(p)
    BY DEF IInv
  <2> QED
    BY <2>1, <2>2 DEF Drops, ProcOK, Elected, Dead
<1> QED
  BY <1>1, Invariance, PTL DEF Spec, TargetedUnlink
=============================================================================
