--------------------------- MODULE SuccessionLock ---------------------------
(* The prefix lock of runtime/local-files/succession-lock.ts.  A lock file is  *)
(* never broken by its age: a process that proves the owner of token g dead    *)
(* publishes the one link SUCC(g); if the process that published it dies too,  *)
(* the next one publishes SUCC of that link's token, and so on.  The last link *)
(* of the chain alone may unlink LOCK = g, after which the links are purged.   *)
(*                                                                             *)
(* A publication (staging file, fsync, link(2)) is one step, because the name  *)
(* appears with link(2) only.  Every other read, unlink and listing is a step  *)
(* of its own, but for the visit of a listed SUCC file, read and unlinked at   *)
(* once: the target in a SUCC file is fixed by its name, so it does not change *)
(* in between.  A process of the model is one incarnation: a pid reused by the *)
(* kernel, or a pid after a reboot, is another element of Proc.                *)
EXTENDS Naturals, FiniteSets

CONSTANTS Proc,       \* the incarnations of processes that may ever run
          Machine,    \* incarnation -> the machine it runs on
          Host,       \* incarnation -> the machine id; clones of an image share it
          Boot,       \* incarnation -> boot id
          Ns,         \* incarnation -> its pid namespace
          Pid,        \* incarnation -> its pid there; two may share one, not at once
          TimeNs,     \* incarnation -> its time namespace
          Source,     \* incarnation -> where it reads start times, or "none"
          Blind,      \* incarnation -> the anchors it cannot read, null in its records
          Linux,      \* the incarnations on Linux; the others are on darwin
          MaxRounds,  \* PREFIX_LOCK_MAX_ROUNDS
          MaxChain,   \* PREFIX_LOCK_MAX_CHAIN
          MaxTok,     \* bound: incarnation -> tokens it draws before it stops trying
          Faults,     \* what may fail: "publish", and the unlinks "retire", "release", "purge"
          None        \* no lock file

Tok == Proc \X Nat
Owner(x) == x[1]
\* A link SUCC(key); the chain position `depth` is auxiliary, the file has no such field.
Link == [key : Tok, tok : Tok, target : Tok, depth : Nat]

\* The anchors of a record: a weak host and a null boot, ns or timeNs are unread ones.
Anchor == {"host", "boot", "ns", "timeNs"}
\* startSource; "none" when /proc describes another pid namespace.
StartSource == {"proc", "ps", "legacy", "none"}

ASSUME PlaceAssumption == /\ Machine \in [Proc -> Nat] /\ Host \in [Proc -> Nat]
                          /\ Boot \in [Proc -> Nat] /\ Ns \in [Proc -> Nat]
                          /\ Pid \in [Proc -> Nat] /\ TimeNs \in [Proc -> Nat]
ASSUME AnchorAssumption == /\ Source \in [Proc -> StartSource]
                           /\ Blind \in [Proc -> SUBSET Anchor] /\ Linux \subseteq Proc
\* A boot id is drawn at random when a machine boots.
ASSUME BootAssumption == \A p, q \in Proc : Boot[p] = Boot[q] => Machine[p] = Machine[q]
ASSUME LimitAssumption == /\ MaxRounds \in Nat \ {0} /\ MaxChain \in Nat \ {0}
                          /\ MaxTok \in [Proc -> Nat]
ASSUME FaultAssumption == Faults \subseteq {"publish", "retire", "release", "purge"}
ASSUME NoneAssumption == None \notin Tok

VARIABLES status,  \* incarnation -> unborn, alive, husk, zombie or gone
          lock,    \* the token in LOCK, or None
          succ,    \* the SUCC files
          pc,      \* incarnation -> next step
          op,      \* incarnation -> acquirePrefixLock or breakLockAsOperator
          round,   \* incarnation -> round of the acquisition
          g,       \* incarnation -> the dead token it wants to succeed
          key,     \* incarnation -> the token whose SUCC it publishes next
          depth,   \* incarnation -> depth in the succession chain
          mine,    \* incarnation -> token of its lease
          todo,    \* incarnation -> keys of the listed SUCC files still to visit
          after,   \* incarnation -> where purgeSuccession returns to
          cnt      \* incarnation -> tokens it has published

vars == <<status, lock, succ, pc, op, round, g, key, depth, mine, todo, after, cnt>>

PC == {"idle", "publish", "read", "check", "elect", "readsucc", "retire", "confirm",
       "unlink", "purge", "purging", "republish", "gc", "collect", "hold", "letgo"}

\* The process table.  A husk is a process whose main thread has ended before its
\* other threads; /proc shows it as a zombie with several threads.
Present(q) == status[q] \in {"alive", "husk", "zombie"}

\* What answers kill(pid, 0) when s asks for the pid that o recorded.
HasPid(o, s) == {q \in Proc : /\ Present(q) /\ Machine[q] = Machine[s]
                              /\ Ns[q] = Ns[s] /\ Pid[q] = Pid[o]}

\* The start of q as s reads it: /proc counts from the reader's time namespace.
Start(q, s) == <<q, IF Source[s] = "proc" THEN TimeNs[s] ELSE 0>>

Read(a, o, s) == a \notin Blind[o] \cup Blind[s]
SameHost(o, s) == Read("host", o, s) /\ Host[o] = Host[s] /\ Read("boot", o, s)
SameSpace(o, s) == Read("ns", o, s) /\ Ns[o] = Ns[s]

Dated(o, s) == Source[o] # "none" /\ Source[s] # "none"
Malformed(o, s) == Dated(o, s) /\ (Source[o] = "legacy" \/ Source[s] = "legacy")
Comparable(o, s) ==
    /\ Dated(o, s) /\ ~Malformed(o, s) /\ Source[o] = Source[s]
    /\ Source[o] = "proc" => Read("timeNs", o, s) /\ TimeNs[o] = TimeNs[s]
Reused(o, s) == Comparable(o, s) /\ \E q \in HasPid(o, s) : Start(q, s) # Start(o, o)

\* ESRCH, or a pid that /proc shows as a zombie, with whatever threads.
Vanished(o, s) == \/ HasPid(o, s) = {}
                  \/ Source[s] = "proc" /\ \E q \in HasPid(o, s) : status[q] \in {"husk", "zombie"}

\* Mutant of Verdict: the start times are compared without the time namespaces.
VerdictTimeless(o, s) ==
    IF ~(SameHost(o, s) /\ Boot[o] = Boot[s] /\ SameSpace(o, s)) THEN "undecidable"
    ELSE IF Vanished(o, s) THEN "dead"
    ELSE IF Malformed(o, s) THEN "undecidable"
    ELSE IF Dated(o, s) /\ \E q \in HasPid(o, s) : Start(q, s) # Start(o, o) THEN "dead"
    ELSE "live"

\* classifyLiveness: the verdict of s on the recorded process o.
Verdict(o, s) ==
    IF ~(SameHost(o, s) /\ Boot[o] = Boot[s] /\ SameSpace(o, s)) THEN "undecidable"
    ELSE IF Vanished(o, s) THEN "dead"
    ELSE IF Malformed(o, s) THEN "undecidable"
    ELSE IF Reused(o, s) THEN "dead"
    ELSE "live"

\* classifyIdentityLiveness: the verdict under the identity protocol.  A zombie is
\* dead only with a concordant start and exactly one thread.
IdentityVerdict(o, s) ==
    IF ~(s \in Linux /\ SameHost(o, s)) THEN "undecidable"
    ELSE IF Boot[o] # Boot[s] THEN "dead"
    ELSE IF ~SameSpace(o, s) THEN "undecidable"
    ELSE IF HasPid(o, s) = {} THEN "dead"
    ELSE IF ~Comparable(o, s) THEN "undecidable"
    ELSE IF Reused(o, s) \/ status[o] = "zombie" THEN "dead"
    ELSE IF status[o] = "husk" THEN "undecidable"
    ELSE "live"

Init == /\ status = [p \in Proc |-> "unborn"]
        /\ lock = None
        /\ succ = {}
        /\ pc = [p \in Proc |-> "idle"]
        /\ op = [p \in Proc |-> "acquire"]
        /\ round = [p \in Proc |-> 0]
        /\ g = [p \in Proc |-> None]
        /\ key = [p \in Proc |-> None]
        /\ depth = [p \in Proc |-> 0]
        /\ mine = [p \in Proc |-> None]
        /\ todo = [p \in Proc |-> {}]
        /\ after = [p \in Proc |-> "republish"]
        /\ cnt = [p \in Proc |-> 0]

At(p, s) == status[p] = "alive" /\ pc[p] = s
Goto(p, s) == pc' = [pc EXCEPT ![p] = s]
locals == <<op, round, g, key, depth, mine, todo, after>>

\* The call returns: lockDenied, a refusal, or a lease given back.
Return(p) == /\ pc' = [pc EXCEPT ![p] = "idle"]
             /\ op' = [op EXCEPT ![p] = "acquire"]
             /\ round' = [round EXCEPT ![p] = 0]
             /\ g' = [g EXCEPT ![p] = None]
             /\ key' = [key EXCEPT ![p] = None]
             /\ depth' = [depth EXCEPT ![p] = 0]
             /\ mine' = [mine EXCEPT ![p] = None]
             /\ todo' = [todo EXCEPT ![p] = {}]
             /\ after' = [after EXCEPT ![p] = "republish"]

\* Mutant of NextRound: the rounds are not counted against the limit.
NextRoundEndless(p) == /\ Goto(p, "publish")
                       /\ round' = [round EXCEPT ![p] = @ + 1]
                       /\ g' = [g EXCEPT ![p] = None]
                       /\ key' = [key EXCEPT ![p] = None]
                       /\ depth' = [depth EXCEPT ![p] = 0]
                       /\ after' = [after EXCEPT ![p] = "republish"]
                       /\ UNCHANGED <<op, mine, todo>>

\* "retry": the next round of the acquisition, or busy after the last one.
NextRound(p) == \/ /\ round[p] + 1 < MaxRounds
                   /\ Goto(p, "publish")
                   /\ round' = [round EXCEPT ![p] = @ + 1]
                   /\ g' = [g EXCEPT ![p] = None]
                   /\ key' = [key EXCEPT ![p] = None]
                   /\ depth' = [depth EXCEPT ![p] = 0]
                   /\ after' = [after EXCEPT ![p] = "republish"]
                   /\ UNCHANGED <<op, mine, todo>>
                \/ round[p] + 1 >= MaxRounds /\ Return(p)

\* acquirePrefixLock is called.
Begin(p) == /\ At(p, "idle")
            /\ cnt[p] < MaxTok[p]
            /\ Goto(p, "publish")
            /\ UNCHANGED <<status, lock, succ, locals, cnt>>

\* With readFirst, a lock that is not provably dead is refused before publishing.
ReadFirst(p) == /\ At(p, "publish")
                /\ lock # None
                /\ Verdict(Owner(lock), p) # "dead"
                /\ Return(p)
                /\ UNCHANGED <<status, lock, succ, cnt>>

Fresh(p) == <<p, cnt[p]>>

\* LOCK is published with a fresh token and the lease begins.
TakeLock(p) == /\ lock' = Fresh(p)
               /\ mine' = [mine EXCEPT ![p] = Fresh(p)]
               /\ cnt' = [cnt EXCEPT ![p] = @ + 1]
               /\ g' = [g EXCEPT ![p] = None]
               /\ key' = [key EXCEPT ![p] = None]
               /\ depth' = [depth EXCEPT ![p] = 0]
               /\ Goto(p, "gc")
               /\ UNCHANGED <<status, succ, op, round, todo, after>>

Publish(p) == At(p, "publish") /\ lock = None /\ TakeLock(p)

\* A publication that fails: "error" is a refusal, whichever file it was for, and
\* "retry" (the staging file was collected before link(2)) the next round, but for
\* an operator, who is refused.
PublishFails(p) == /\ "publish" \in Faults
                   /\ status[p] = "alive" /\ pc[p] \in {"publish", "elect", "republish"}
                   /\ \/ Return(p)
                      \/ op[p] = "acquire" /\ NextRound(p)
                   /\ UNCHANGED <<status, lock, succ, cnt>>

PublishExists(p) == /\ At(p, "publish")
                    /\ lock # None
                    /\ Goto(p, "read")
                    /\ UNCHANGED <<status, lock, succ, locals, cnt>>

\* p sets out to succeed the dead token x, at step s.
Succeed(p, x, s) == /\ Goto(p, s)
                    /\ g' = [g EXCEPT ![p] = x]
                    /\ key' = [key EXCEPT ![p] = x]
                    /\ depth' = [depth EXCEPT ![p] = 0]
                    /\ UNCHANGED <<round, mine, todo>>

\* The read after EEXIST, the sole entry to succession.
ReadLock(p) == /\ At(p, "read")
               /\ \/ lock = None /\ NextRound(p)
                  \/ /\ lock # None
                     /\ Verdict(Owner(lock), p) = "dead"
                     /\ Succeed(p, lock, "elect")
                     /\ UNCHANGED <<op, after>>
                  \/ /\ lock # None
                     /\ Verdict(Owner(lock), p) # "dead"
                     /\ Return(p)
               /\ UNCHANGED <<status, lock, succ, cnt>>

\* breakLockAsOperator for the token it reads.  `assertDead` is the operator's
\* word on an undecidable owner; the model's operators do not lie.
BeginBreak(p) == /\ At(p, "idle")
                 /\ cnt[p] < MaxTok[p]
                 /\ lock # None
                 /\ \/ Verdict(Owner(lock), p) = "dead"
                    \/ /\ Verdict(Owner(lock), p) = "undecidable"
                       /\ status[Owner(lock)] # "alive"
                 /\ Succeed(p, lock, "check")
                 /\ op' = [op EXCEPT ![p] = "break"]
                 /\ after' = [after EXCEPT ![p] = "done"]
                 /\ UNCHANGED <<status, lock, succ, cnt>>

\* The operator never moves on to a token it was not given.
CheckTarget(p) == /\ At(p, "check")
                  /\ \/ lock = g[p] /\ Goto(p, "elect") /\ UNCHANGED locals
                     \/ lock # g[p] /\ Return(p)
                  /\ UNCHANGED <<status, lock, succ, cnt>>

SuccOf(x) == {r \in succ : r.key = x}

\* Mutant of Elect: SUCC is published over the one that is there.
ElectReplacing(p) ==
    /\ At(p, "elect")
    /\ succ' = (succ \ SuccOf(key[p]))
               \cup {[key |-> key[p], tok |-> Fresh(p), target |-> g[p], depth |-> depth[p]]}
    /\ cnt' = [cnt EXCEPT ![p] = @ + 1]
    /\ Goto(p, IF op[p] = "break" THEN "confirm" ELSE "retire")
    /\ UNCHANGED <<status, lock, locals>>

\* publish(SUCC(t)) succeeds: p is the successor.
Elect(p) ==
    /\ At(p, "elect")
    /\ SuccOf(key[p]) = {}
    /\ succ' = succ \cup {[key |-> key[p], tok |-> Fresh(p), target |-> g[p], depth |-> depth[p]]}
    /\ cnt' = [cnt EXCEPT ![p] = @ + 1]
    /\ Goto(p, IF op[p] = "break" THEN "confirm" ELSE "retire")
    /\ UNCHANGED <<status, lock, locals>>

ElectExists(p) == /\ At(p, "elect")
                  /\ SuccOf(key[p]) # {}
                  /\ Goto(p, "readsucc")
                  /\ UNCHANGED <<status, lock, succ, locals, cnt>>

\* Another link is there: its owner must be proven dead before p goes past it.
ReadSucc(p) ==
    /\ At(p, "readsucc")
    /\ \/ /\ SuccOf(key[p]) = {}
          /\ IF op[p] = "break" THEN Return(p) ELSE NextRound(p)
       \/ \E r \in SuccOf(key[p]) :
             LET past == r.target = g[p] /\ Verdict(Owner(r.tok), p) = "dead"
             IN  \/ /\ past
                    /\ depth[p] + 1 < MaxChain
                    /\ key' = [key EXCEPT ![p] = r.tok]
                    /\ depth' = [depth EXCEPT ![p] = @ + 1]
                    /\ Goto(p, IF op[p] = "break" THEN "check" ELSE "elect")
                    /\ UNCHANGED <<op, round, g, mine, todo, after>>
                 \/ ~(past /\ depth[p] + 1 < MaxChain) /\ Return(p)
    /\ UNCHANGED <<status, lock, succ, cnt>>

\* retireDeadToken reads LOCK.
Retire(p) == /\ At(p, "retire")
             /\ Goto(p, IF lock = g[p] THEN "confirm" ELSE "purge")
             /\ UNCHANGED <<status, lock, succ, locals, cnt>>

\* Mutant of Confirm: the unlink follows without a fresh read.
ConfirmBlind(p) == /\ At(p, "confirm")
                   /\ Goto(p, "unlink")
                   /\ after' = [after EXCEPT ![p] = IF op[p] = "break" THEN "done" ELSE "republish"]
                   /\ UNCHANGED <<status, lock, succ, op, round, g, key, depth, mine, todo, cnt>>

\* The read that precedes the unlink: another token is left alone.
Confirm(p) == /\ At(p, "confirm")
              /\ Goto(p, IF lock = g[p] THEN "unlink" ELSE "purge")
              /\ after' = [after EXCEPT ![p] = IF op[p] = "break" THEN "done"
                                               ELSE IF lock \in {g[p], None} THEN "republish"
                                               ELSE "retry"]
              /\ UNCHANGED <<status, lock, succ, op, round, g, key, depth, mine, todo, cnt>>

\* unlink(2) removes whatever has the name by now.
Unlink(p) == /\ At(p, "unlink")
             /\ lock' = None
             /\ Goto(p, "purge")
             /\ UNCHANGED <<status, succ, locals, cnt>>

\* Mutant of UnlinkFails: the links are purged although LOCK = g may still be there.
UnlinkFailsPurging(p) == /\ At(p, "unlink")
                         /\ "retire" \in Faults
                         /\ Goto(p, "purge")
                         /\ after' = [after EXCEPT ![p] = "done"]
                         /\ UNCHANGED <<status, lock, succ, op, round, g, key, depth, mine, todo, cnt>>

\* LOCK # g is not established: the link stays, so nobody overtakes it.
UnlinkFails(p) == /\ At(p, "unlink")
                  /\ "retire" \in Faults
                  /\ Return(p)
                  /\ UNCHANGED <<status, lock, succ, cnt>>

\* purgeSuccession and collectLockDebris list the directory, then visit each name.
ListSucc(p, from, to) == /\ At(p, from)
                         /\ todo' = [todo EXCEPT ![p] = {r.key : r \in succ}]
                         /\ Goto(p, to)
                         /\ UNCHANGED <<status, lock, succ, op, round, g, key, depth, mine, after, cnt>>

Visit(p, k, doomed) == /\ succ' = succ \ doomed
                       /\ todo' = [todo EXCEPT ![p] = @ \ {k}]
                       /\ UNCHANGED <<status, lock, pc, op, round, g, key, depth, mine, after, cnt>>

PurgeList(p) == ListSucc(p, "purge", "purging")

\* The directory cannot be read: the links stay.
PurgeFails(p) == /\ At(p, "purge")
                 /\ "purge" \in Faults
                 /\ Goto(p, "purging")
                 /\ UNCHANGED <<status, lock, succ, locals, cnt>>

PurgeOne(p) == /\ At(p, "purging")
               /\ \E k \in todo[p] : Visit(p, k, {r \in SuccOf(k) : r.target = g[p]})

PurgeDone(p) == /\ At(p, "purging")
                /\ todo[p] = {}
                /\ \/ after[p] = "republish" /\ Goto(p, "republish") /\ UNCHANGED locals
                   \/ after[p] = "retry" /\ NextRound(p)
                   \/ after[p] = "done" /\ Return(p)
                /\ UNCHANGED <<status, lock, succ, cnt>>

Republish(p) == At(p, "republish") /\ lock = None /\ TakeLock(p)

RepublishExists(p) == /\ At(p, "republish")
                      /\ lock # None
                      /\ NextRound(p)
                      /\ UNCHANGED <<status, lock, succ, cnt>>

\* makeLease: the holder collects the links that do not target its token.
GcList(p) == ListSucc(p, "gc", "collect")

GcOne(p) == /\ At(p, "collect")
            /\ \E k \in todo[p] : Visit(p, k, {r \in SuccOf(k) : r.target # mine[p]})

GcDone(p) == /\ At(p, "collect")
             /\ todo[p] = {}
             /\ Goto(p, "hold")
             /\ UNCHANGED <<status, lock, succ, locals, cnt>>

\* release(): read LOCK, unlink it if the token is still ours.
Release(p) == /\ At(p, "hold")
              /\ \/ lock = mine[p] /\ Goto(p, "letgo") /\ UNCHANGED locals
                 \/ lock # mine[p] /\ Return(p)
              /\ UNCHANGED <<status, lock, succ, cnt>>

ReleaseUnlink(p) == /\ At(p, "letgo")
                    /\ \/ lock' = None
                       \/ "release" \in Faults /\ lock' = lock
                    /\ Return(p)
                    /\ UNCHANGED <<status, succ, cnt>>

\* The kernel: a pid of a namespace is given to one process at a time, and the
\* processes of a boot are gone when the next one begins.
Spawn(p) == /\ status[p] = "unborn"
            /\ \A q \in Proc : Machine[q] = Machine[p] =>
                  /\ Present(q) => Boot[q] = Boot[p] /\ ~(Ns[q] = Ns[p] /\ Pid[q] = Pid[p])
                  /\ status[q] # "unborn" => Boot[q] <= Boot[p]
            /\ status' = [status EXCEPT ![p] = "alive"]
            /\ UNCHANGED <<lock, succ, pc, locals, cnt>>

Crash(p) == /\ status[p] = "alive"
            /\ \E s \in {"husk", "zombie", "gone"} : status' = [status EXCEPT ![p] = s]
            /\ Return(p)
            /\ UNCHANGED <<lock, succ, cnt>>

\* The last threads of a husk end; the parent waits for a zombie.
Reap(p) == /\ \/ status[p] = "husk" /\ status' = [status EXCEPT ![p] = "zombie"]
              \/ status[p] = "zombie" /\ status' = [status EXCEPT ![p] = "gone"]
           /\ UNCHANGED <<lock, succ, pc, locals, cnt>>

\* The steps of a call that is under way.
Step(p) == \/ ReadFirst(p) \/ Publish(p) \/ PublishFails(p) \/ PublishExists(p) \/ ReadLock(p)
           \/ CheckTarget(p) \/ Elect(p) \/ ElectExists(p) \/ ReadSucc(p)
           \/ Retire(p) \/ Confirm(p) \/ Unlink(p) \/ UnlinkFails(p)
           \/ PurgeList(p) \/ PurgeFails(p) \/ PurgeOne(p) \/ PurgeDone(p)
           \/ Republish(p) \/ RepublishExists(p)
           \/ GcList(p) \/ GcOne(p) \/ GcDone(p) \/ Release(p) \/ ReleaseUnlink(p)

Kernel(p) == Spawn(p) \/ Crash(p) \/ Reap(p)

Next == \E p \in Proc : Begin(p) \/ BeginBreak(p) \/ Step(p) \/ Kernel(p)

Spec == Init /\ [][Next]_vars
-----------------------------------------------------------------------------
Running == {p \in Proc : status[p] = "alive"}
Husks == {p \in Proc : status[p] = "husk"}
Holding(p) == status[p] = "alive" /\ pc[p] \in {"gc", "collect", "hold", "letgo"}

TypeOK == /\ status \in [Proc -> {"unborn", "alive", "husk", "zombie", "gone"}]
          /\ lock \in Tok \cup {None}
          /\ succ \subseteq Link
          /\ pc \in [Proc -> PC]
          /\ op \in [Proc -> {"acquire", "break"}]
          /\ round \in [Proc -> 0 .. MaxRounds - 1]
          /\ g \in [Proc -> Tok \cup {None}]
          /\ key \in [Proc -> Tok \cup {None}]
          /\ depth \in [Proc -> 0 .. MaxChain - 1]
          /\ mine \in [Proc -> Tok \cup {None}]
          /\ todo \in [Proc -> SUBSET Tok]
          /\ after \in [Proc -> {"republish", "retry", "done"}]
          /\ cnt \in [Proc -> Nat]

\* At most one running process holds a lease on the prefix, whatever dies and is
\* succeeded in between ("at most one holder" of the protocol's proof sketch).
AtMostOneHolder == \A p, q \in Proc : Holding(p) /\ Holding(q) => p = q

\* Lemma A of the proof sketch: the lock file keeps the token of a running holder,
\* so stillHeld() stays true until it releases.
HolderKeepsLock == \A p \in Proc : Holding(p) => lock = mine[p]

\* I3: neither protocol's classifier calls a running process dead, across pid reuse,
\* zombies, reboots, other namespaces, machines and clocks, and missing provenance.
\* For the prefix lock that is the main thread, which alone takes its steps.  The
\* identity protocol waits for the last thread, but its stale-boot rule needs a
\* machine id that no clone shares.
NoFalseDeath == \A s \in Running :
    /\ \A o \in Running : Verdict(o, s) # "dead"
    /\ \A o \in Running \cup Husks : (Host[o] = Host[s] => Machine[o] = Machine[s])
                                        => IdentityVerdict(o, s) # "dead"

\* Lemma B: while LOCK = g, one running process at most is past its election for g.
Successors(x) == {p \in Proc : status[p] = "alive" /\ g[p] = x /\ pc[p] \in {"retire", "confirm", "unlink"}}
UniqueSuccessor == \A p, q \in Proc :
    lock # None /\ p \in Successors(lock) /\ q \in Successors(lock) => p = q

\* I5: no link that targets the token in LOCK is removed while that token is there,
\* so a chain under way is never cut under a process walking it.
ChainKept == [][\A r \in succ : r.target = lock => r \in succ']_vars

\* I4 and Lemma C: LOCK loses a token only when its owner releases it or is dead.
TargetedUnlink == [][lock # None /\ lock' # lock
                       => \/ status[Owner(lock)] # "alive"
                          \/ pc[Owner(lock)] = "letgo"]_vars

=============================================================================
