---------------------------- MODULE AdvisoryLock ----------------------------
(* The cross-process advisory lock of runtime/local-files/locks.ts: a lock     *)
(* file published whole by link(2) (or, where hard links are unavailable, by   *)
(* an exclusive create followed by a write), and the recovery of a lock whose  *)
(* owner is provably dead.  Recovery takes a guard, `<lock>.recovery`, that is *)
(* itself such a lock and is recovered the same way, one level deeper.         *)
(*                                                                             *)
(* One step is one system call another process can interleave with.  A file is *)
(* the record of the inode at a path: who wrote it, whether its payload parses *)
(* (and how), and the inode metadata that the `unchanged` comparison sees.     *)
EXTENDS Naturals, FiniteSets

CONSTANTS Proc,        \* process ids on the host
          MaxDepth,    \* nesting bound of the recovery guards (8 in the code)
          MaxInc,      \* bound: incarnations of one pid
          MaxBoot,     \* bound: reboots of the host
          LinkWorks,   \* outcomes of link(2) here: TRUE, or FALSE for EPERM/ENOTSUP/ENOSYS
          Qualified,   \* the filesystem is one on which recovery is attempted
          Decidable,   \* pids whose death this host can prove (same pid namespace)
          Reclaimers,  \* processes that do not pass reclaimStale: false
          Faults,      \* the system calls that may fail, by the step they belong to
          Leftovers,   \* what an earlier run may have left at the lock path
          None         \* no file, no capture

Levels == 0 .. MaxDepth
Kinds == {"prov", "legacy", "opaque"}
Stages == {"staged", "linked", "final"}
Rec == [pid : Proc, inc : Nat, kind : Kinds, st : Stages, boot : Nat]

ASSUME DepthAssumption == MaxDepth \in Nat
ASSUME BoundAssumption == MaxInc \in Nat \ {0} /\ MaxBoot \in Nat
ASSUME FlagAssumption == LinkWorks \subseteq BOOLEAN /\ Qualified \in BOOLEAN
ASSUME FaultAssumption ==
    Faults \subseteq {"publish", "write", "unstage", "verify", "sync", "recovery", "unlink"}
ASSUME SetAssumption == Decidable \subseteq Proc /\ Reclaimers \subseteq Proc
\* Leftovers predate every process of the model: they carry incarnation 0.
ASSUME LeftoverAssumption == \A r \in Leftovers : r = None \/ (r \in Rec /\ r.inc = 0 /\ r.boot < 2)
ASSUME NoneAssumption == None \notin Rec
ASSUME IdentAssumption == None \notin [pid : Proc, inc : Nat]

VARIABLES file,        \* level -> what is at that path (0: the lock, l: its l-th guard)
          pc,          \* process -> next step
          lvl,         \* process -> level of the acquire() it is executing
          owned,       \* process -> its `owned` capture at that level
          seen,        \* process -> its `seen` capture one level below
          ret,         \* process -> where it goes once `release` returns
          inc,         \* process -> current incarnation of the pid
          boot,        \* current boot of the host
          quarantine   \* records saved in quarantine files

vars == <<file, pc, lvl, owned, seen, ret, inc, boot, quarantine>>

PC == {"idle", "look", "publish", "unstage", "write", "cleanup", "verify", "inspect",
       "recheck", "backup", "confirm", "remove", "release", "unlink", "cs", "poll", "dead"}

Alive(p) == pc[p] # "dead"
\* The process incarnation that wrote r is no longer running.
Dead(r) == ~(Alive(r.pid) /\ inc[r.pid] = r.inc)

\* classifyLiveness with the identity protocol: a stale boot is dead; on this
\* boot a vanished pid, or one with another start time, is dead where /proc can
\* be consulted; anything else is undecidable and counts as live.
ProvenDead(r) == \/ r.boot # boot
                 \/ r.pid \in Decidable /\ Dead(r)

\* Mutant of Reclaimable: an unparsable file is recovered whatever its age.
ReclaimableAnyAge(r) ==
    /\ Qualified
    /\ \/ r.kind = "prov" /\ ProvenDead(r)
       \/ r.kind = "legacy" /\ ~Alive(r.pid)
       \/ r.kind = "opaque" /\ r.st # "linked"

\* reclaimable(): provenance is judged by identity, a legacy owner by its pid
\* alone (so a reused pid looks alive), an unparsable file by its age: it must
\* predate the boot and have no second link.
Reclaimable(r) ==
    /\ Qualified
    /\ \/ r.kind = "prov" /\ ProvenDead(r)
       \/ r.kind = "legacy" /\ ~Alive(r.pid)
       \/ r.kind = "opaque" /\ r.st # "linked" /\ r.boot < boot

Unchanged(l, r) == file[l] = r

MyRec(p, k, s) == [pid |-> p, inc |-> inc[p], kind |-> k, st |-> s, boot |-> boot]
\* The inode at level l is the one p created.
MyInode(p, l) == file[l] # None /\ file[l].pid = p /\ file[l].inc = inc[p]

Init == /\ file \in {[l \in Levels |-> IF l = 0 THEN r ELSE None] : r \in Leftovers}
        /\ pc = [p \in Proc |-> "idle"]
        /\ lvl = [p \in Proc |-> 0]
        /\ owned = [p \in Proc |-> None]
        /\ seen = [p \in Proc |-> None]
        /\ ret = [p \in Proc |-> "idle"]
        /\ inc = [p \in Proc |-> 1]
        /\ boot = 1
        /\ quarantine = {}

Goto(p, s) == pc' = [pc EXCEPT ![p] = s]

\* p leaves acquire() or withLock() for s, forgetting the attempt's captures.
Leave(p, s) == /\ pc' = [pc EXCEPT ![p] = s]
               /\ lvl' = [lvl EXCEPT ![p] = 0]
               /\ owned' = [owned EXCEPT ![p] = None]
               /\ seen' = [seen EXCEPT ![p] = None]
               /\ ret' = [ret EXCEPT ![p] = "idle"]

\* p starts release(path, owned) and continues at s afterwards.
ReleaseThen(p, s) == Goto(p, "release") /\ ret' = [ret EXCEPT ![p] = s]

locals == <<lvl, owned, seen, ret>>
world == <<inc, boot, quarantine>>

\* withLock / withLockSync: the first attempt, and the next one after a pause.
Request(p) == /\ pc[p] \in {"idle", "poll"}
              /\ Goto(p, "look")
              /\ UNCHANGED <<file, locals, world>>

\* The deadline passed, or the caller's signal aborted the wait.
GiveUp(p) == /\ pc[p] = "poll"
             /\ Goto(p, "idle")
             /\ UNCHANGED <<file, locals, world>>

\* existsSync, and if nothing is there the private staging file.
Look(p) ==
    /\ pc[p] = "look"
    /\ \/ /\ file[lvl[p]] # None
          /\ Goto(p, "inspect")
          /\ UNCHANGED owned
       \/ /\ file[lvl[p]] = None
          /\ Goto(p, "publish")
          /\ owned' = [owned EXCEPT ![p] = MyRec(p, "prov", "staged")]
    /\ UNCHANGED <<file, lvl, seen, ret, world>>

\* EEXIST at either publication: another owner won.
Contended(p) ==
    /\ pc[p] = "publish"
    /\ file[lvl[p]] # None
    /\ Goto(p, "inspect")
    /\ owned' = [owned EXCEPT ![p] = None]
    /\ UNCHANGED <<file, lvl, seen, ret, world>>

\* Mutant of Link: rename(2) instead of link(2), which replaces an owner.
LinkReplacing(p) ==
    /\ pc[p] = "publish"
    /\ TRUE \in LinkWorks
    /\ file' = [file EXCEPT ![lvl[p]] = MyRec(p, "prov", "linked")]
    /\ Goto(p, "unstage")
    /\ UNCHANGED <<locals, world>>

\* Staging or publication fails otherwise: nothing was published, the error is
\* thrown through every level.
PublishFails(p) ==
    /\ pc[p] = "publish"
    /\ "publish" \in Faults
    /\ Leave(p, "idle")
    /\ UNCHANGED <<file, world>>

\* linkSync(temporary, lockPath): the payload appears whole, with two links.
Link(p) ==
    /\ pc[p] = "publish"
    /\ TRUE \in LinkWorks
    /\ file[lvl[p]] = None
    /\ file' = [file EXCEPT ![lvl[p]] = MyRec(p, "prov", "linked")]
    /\ Goto(p, "unstage")
    /\ UNCHANGED <<locals, world>>

\* unlinkSync(temporary) changes the link count and ctime of the published inode.
Unstage(p) ==
    /\ pc[p] = "unstage"
    /\ file' = IF MyInode(p, lvl[p]) THEN [file EXCEPT ![lvl[p]].st = "final"] ELSE file
    /\ Goto(p, "verify")
    /\ UNCHANGED <<locals, world>>

\* Mutant of CreateExclusive: flag "w" instead of "wx".
CreateTruncating(p) ==
    /\ pc[p] = "publish"
    /\ FALSE \in LinkWorks
    /\ file' = [file EXCEPT ![lvl[p]] = MyRec(p, "opaque", "final")]
    /\ Goto(p, "write")
    /\ UNCHANGED <<locals, world>>

\* The fallback's openSync(lockPath, "wx"): an empty file until it is written.
CreateExclusive(p) ==
    /\ pc[p] = "publish"
    /\ FALSE \in LinkWorks
    /\ file[lvl[p]] = None
    /\ file' = [file EXCEPT ![lvl[p]] = MyRec(p, "opaque", "final")]
    /\ Goto(p, "write")
    /\ UNCHANGED <<locals, world>>

\* The write goes to p's inode, whether or not a path still leads there.
WriteFallback(p) ==
    /\ pc[p] = "write"
    /\ file' = IF MyInode(p, lvl[p]) THEN [file EXCEPT ![lvl[p]].kind = "prov"] ELSE file
    /\ owned' = [owned EXCEPT ![p] = MyRec(p, "prov", "final")]
    /\ Goto(p, "verify")
    /\ UNCHANGED <<lvl, seen, ret, world>>

\* writeFileSync or fsyncSync failed: the torn file is removed and the error thrown.
WriteFails(p) ==
    /\ pc[p] = "write"
    /\ "write" \in Faults
    /\ Goto(p, "cleanup")
    /\ UNCHANGED <<file, locals, world>>

Cleanup(p) ==
    /\ pc[p] = "cleanup"
    /\ file' = [file EXCEPT ![lvl[p]] = None]
    /\ Leave(p, "idle")
    /\ UNCHANGED world

\* capture(lockPath) finds p's payload: acquired.  At level 0 that is the lock;
\* deeper it is the guard, and the caller goes on to recheck the stale lock.
Verify(p) ==
    /\ pc[p] = "verify"
    /\ MyInode(p, lvl[p])
    /\ owned' = [owned EXCEPT ![p] = file[lvl[p]]]
    /\ Goto(p, IF lvl[p] = 0 THEN "cs" ELSE "recheck")
    /\ UNCHANGED <<file, lvl, seen, ret, world>>

\* The unlink of the staging file throws, or the capture fails or shows another
\* payload; `owned` is the one from before.
VerifyFails(p) ==
    /\ \/ pc[p] = "unstage" /\ "unstage" \in Faults
       \/ pc[p] = "verify" /\ ("verify" \in Faults \/ ~MyInode(p, lvl[p]))
    /\ ReleaseThen(p, "idle")
    /\ UNCHANGED <<file, lvl, owned, seen, world>>

\* syncDirectory throws.  With a link that is after `owned = linked`; in the
\* fallback it is before the capture, and `owned` is the written file's.
SyncFails(p) ==
    /\ pc[p] = "verify"
    /\ "sync" \in Faults
    /\ MyInode(p, lvl[p])
    /\ owned' = [owned EXCEPT ![p] = file[lvl[p]]]
    /\ ReleaseThen(p, "idle")
    /\ UNCHANGED <<file, lvl, seen, world>>

\* Mutants of Recoverable: no nesting bound; a bound one level too small.
RecoverableUnbounded(p) ==
    LET l == lvl[p] IN
    /\ file[l] # None
    /\ l = 0 => p \in Reclaimers
    /\ Reclaimable(file[l])

RecoverableShallow(p) ==
    LET l == lvl[p] IN
    /\ file[l] # None
    /\ l = 0 => p \in Reclaimers
    /\ l + 1 < MaxDepth
    /\ Reclaimable(file[l])

\* What acquire() does after EEXIST: recovery is for a captured file that is
\* reclaimable, unless the caller opted out or the guards are nested too deep.
Recoverable(p) ==
    LET l == lvl[p] IN
    /\ file[l] # None
    /\ l = 0 => p \in Reclaimers
    /\ l < MaxDepth
    /\ Reclaimable(file[l])

\* Mutant of Inspect: recovery without taking the guard.
InspectUnguarded(p) ==
    /\ pc[p] = "inspect"
    /\ Recoverable(p)
    /\ seen' = [seen EXCEPT ![p] = file[lvl[p]]]
    /\ lvl' = [lvl EXCEPT ![p] = @ + 1]
    /\ Goto(p, "recheck")
    /\ UNCHANGED <<file, owned, ret, world>>

\* The stale lock is pursued one level deeper, where the same acquire() takes
\* the recovery guard.
Inspect(p) ==
    /\ pc[p] = "inspect"
    /\ Recoverable(p)
    /\ seen' = [seen EXCEPT ![p] = file[lvl[p]]]
    /\ lvl' = [lvl EXCEPT ![p] = @ + 1]
    /\ Goto(p, "look")
    /\ UNCHANGED <<file, owned, ret, world>>

\* Otherwise acquire() returns ok: false, through every level of the recursion.
InspectBusy(p) ==
    /\ pc[p] = "inspect"
    /\ ~Recoverable(p)
    /\ Leave(p, "poll")
    /\ UNCHANGED <<file, world>>

\* Mutant of Recheck: the quarantine copy is skipped.
RecheckNoBackup(p) ==
    /\ pc[p] = "recheck"
    /\ \/ /\ Unchanged(lvl[p] - 1, seen[p]) /\ Reclaimable(seen[p])
          /\ Goto(p, "confirm")
          /\ UNCHANGED ret
       \/ /\ ~(Unchanged(lvl[p] - 1, seen[p]) /\ Reclaimable(seen[p]))
          /\ ReleaseThen(p, "poll")
    /\ UNCHANGED <<file, lvl, owned, seen, world>>

\* Holding the guard: the stale lock must be the one inspected, and still stale.
Recheck(p) ==
    /\ pc[p] = "recheck"
    /\ \/ /\ Unchanged(lvl[p] - 1, seen[p]) /\ Reclaimable(seen[p])
          /\ Goto(p, "backup")
          /\ UNCHANGED ret
       \/ /\ ~(Unchanged(lvl[p] - 1, seen[p]) /\ Reclaimable(seen[p]))
          /\ ReleaseThen(p, "poll")
    /\ UNCHANGED <<file, lvl, owned, seen, world>>

\* The quarantine copy is written and made durable before the removal.
Backup(p) ==
    /\ pc[p] = "backup"
    /\ quarantine' = quarantine \cup {seen[p]}
    /\ Goto(p, "confirm")
    /\ UNCHANGED <<file, locals, inc, boot>>

\* The backup or the removal throws: `finally` releases the guard all the same.
RecoveryFails(p) ==
    /\ pc[p] \in {"backup", "remove"}
    /\ "recovery" \in Faults
    /\ ReleaseThen(p, "idle")
    /\ UNCHANGED <<file, lvl, owned, seen, world>>

Confirm(p) ==
    /\ pc[p] = "confirm"
    /\ \/ /\ Unchanged(lvl[p] - 1, seen[p])
          /\ Goto(p, "remove")
          /\ UNCHANGED ret
       \/ /\ ~Unchanged(lvl[p] - 1, seen[p])
          /\ ReleaseThen(p, "poll")
    /\ UNCHANGED <<file, lvl, owned, seen, world>>

\* unlinkSync(lockPath) removes whatever is at the path by then.
Remove(p) ==
    /\ pc[p] = "remove"
    /\ file' = [file EXCEPT ![lvl[p] - 1] = None]
    /\ ReleaseThen(p, "poll")
    /\ UNCHANGED <<lvl, owned, seen, world>>

\* The caller's function returned or threw.
Exit(p) ==
    /\ pc[p] = "cs"
    /\ ReleaseThen(p, "idle")
    /\ UNCHANGED <<file, lvl, owned, seen, world>>

\* release(): first the comparison with `owned`, then the unlink of the path.
Release(p) ==
    /\ pc[p] = "release"
    /\ \/ Unchanged(lvl[p], owned[p]) /\ Goto(p, "unlink") /\ UNCHANGED locals
       \/ ~Unchanged(lvl[p], owned[p]) /\ Leave(p, ret[p])
    /\ UNCHANGED <<file, world>>

Unlink(p) ==
    /\ pc[p] = "unlink"
    /\ file' = [file EXCEPT ![lvl[p]] = None]
    /\ Leave(p, ret[p])
    /\ UNCHANGED world

\* The unlink of release() or of the cleanup throws; its callers swallow that, or
\* throw it in turn.
UnlinkFails(p) ==
    /\ pc[p] \in {"cleanup", "unlink"}
    /\ "unlink" \in Faults
    /\ Leave(p, "idle")
    /\ UNCHANGED <<file, world>>

\* The process dies at any step and leaves its files behind.
Crash(p) ==
    /\ Alive(p)
    /\ inc[p] < MaxInc
    /\ Leave(p, "dead")
    /\ UNCHANGED <<file, world>>

\* The kernel hands the pid to a new process.
Spawn(p) ==
    /\ pc[p] = "dead"
    /\ inc' = [inc EXCEPT ![p] = @ + 1]
    /\ Goto(p, "idle")
    /\ UNCHANGED <<file, locals, boot, quarantine>>

\* The host reboots: every process dies, and older files predate the boot.
Reboot ==
    /\ boot <= MaxBoot
    /\ \A p \in Proc : inc[p] < MaxInc
    /\ boot' = boot + 1
    /\ pc' = [p \in Proc |-> "dead"]
    /\ lvl' = [p \in Proc |-> 0]
    /\ owned' = [p \in Proc |-> None]
    /\ seen' = [p \in Proc |-> None]
    /\ ret' = [p \in Proc |-> "idle"]
    /\ UNCHANGED <<file, inc, quarantine>>

\* The steps a running process takes by itself once it has asked for the lock.
Step(p) == \/ Look(p) \/ Contended(p) \/ Link(p) \/ Unstage(p) \/ CreateExclusive(p)
           \/ WriteFallback(p) \/ Cleanup(p) \/ Verify(p) \/ Inspect(p) \/ InspectBusy(p)
           \/ Recheck(p) \/ Backup(p) \/ Confirm(p) \/ Remove(p) \/ Exit(p)
           \/ Release(p) \/ Unlink(p)
Fault(p) == \/ PublishFails(p) \/ WriteFails(p) \/ VerifyFails(p) \/ SyncFails(p)
            \/ RecoveryFails(p) \/ UnlinkFails(p)

Next == \/ \E p \in Proc : \/ Request(p) \/ GiveUp(p) \/ Step(p) \/ Fault(p)
                           \/ Crash(p) \/ Spawn(p)
        \/ Reboot

Spec == Init /\ [][Next]_vars

-----------------------------------------------------------------------------
TypeOK == /\ file \in [Levels -> Rec \cup {None}]
          /\ pc \in [Proc -> PC]
          /\ lvl \in [Proc -> Levels]
          /\ owned \in [Proc -> Rec \cup {None}]
          /\ seen \in [Proc -> Rec \cup {None}]
          /\ ret \in [Proc -> {"idle", "poll"}]
          /\ inc \in [Proc -> Nat]
          /\ boot \in Nat
          /\ quarantine \subseteq Rec

\* Two processes are never both inside the function passed to withLock or
\* withLockSync, whatever dies, is recovered, fails or reboots meanwhile.
MutualExclusion == \A p, q \in Proc : pc[p] = "cs" /\ pc[q] = "cs" => p = q

Recovering == {"recheck", "backup", "confirm", "remove"}

\* "Serialize reclaimers": two processes never recover the same stale lock at
\* once, at any nesting level, even when a recovering process died midway.
RecoverySerialized ==
    \A p, q \in Proc : /\ pc[p] \in Recovering /\ pc[q] \in Recovering
                       /\ lvl[p] = lvl[q]
                       => p = q

\* The file of a running process changes by a step of that process only.
OwnStepOnly ==
    \A l \in Levels :
        /\ file[l] # None /\ file'[l] # file[l]
        /\ ~Dead(file[l])
        => LET p == file[l].pid IN
           /\ pc[p] \in {"unstage", "write", "cleanup", "unlink"}
           /\ lvl[p] = l
           /\ pc'[p] # pc[p]

\* "Never unlink a replacement": no release, recovery or failed publication
\* changes or removes the lock, or a guard, of another running process.
LiveRecordKept == [][OwnStepOnly]_vars

\* A dead owner's file changes only when it is in quarantine.
SavedFirst ==
    \A l \in Levels : /\ file[l] # None /\ file'[l] # file[l]
                      /\ Dead(file[l])
                      => file[l] \in quarantine

\* "backup durable BEFORE removal": the payload of a dead owner leaves its path
\* only once a quarantine file holds it.
QuarantinedFirst == [][SavedFirst]_vars

\* The release a failed acquire() owes: a running process that is outside the
\* lock functions has left no lock file of its own behind.
ReleasedOnFailure == \A p \in Proc : pc[p] = "idle" => \A l \in Levels : ~MyInode(p, l)

\* The fairness the code's scheduling gives: a running process that is inside
\* acquire() or release() goes on, callers that time out come back, and
\* supervised processes are restarted.
Fairness == \A p \in Proc : /\ WF_vars(Step(p))
                            /\ WF_vars(Request(p))
                            /\ WF_vars(Spawn(p))
LiveSpec == Spec /\ Fairness

\* "A crashed reclaimer is recoverable too": a lock whose owner is provably dead
\* is eventually evicted, however its reclaimers die, as long as fewer of them
\* die than there are guard levels.
StaleLockEvicted ==
    (file[0] # None /\ Reclaimable(file[0])) ~> (file[0] = None \/ ~Reclaimable(file[0]))

\* The lock implements LockService: publishing takes the lock, the eviction of a
\* dead owner is the only other way it changes hands.
Id(p) == [pid |-> p, inc |-> inc[p]]
Service == INSTANCE LockService WITH
    Ident <- [pid : Proc, inc : 0 .. MaxInc],
    Nobody <- None,
    holder <- IF file[0] = None THEN None
              ELSE [pid |-> file[0].pid, inc |-> file[0].inc],
    inside <- {Id(p) : p \in {q \in Proc : pc[q] = "cs"}},
    live <- {Id(p) : p \in {q \in Proc : Alive(q)}}
ImplementsLockService == Service!SSpec

-----------------------------------------------------------------------------
(* The inductive invariant behind these properties. *)

\* From publication to the unlink of release(), the inode at the level p works
\* on is p's own.
Holding == {"unstage", "write", "cleanup", "verify", "recheck", "backup", "confirm",
            "remove", "cs", "release", "unlink"}
HoldersOwn == \A p \in Proc : pc[p] \in Holding => MyInode(p, lvl[p])

\* Only the guards' levels are used for recovery, only level 0 for the caller.
LevelsOK == \A p \in Proc : /\ pc[p] = "cs" => lvl[p] = 0
                            /\ pc[p] \in Recovering => lvl[p] > 0
                            /\ lvl[p] > 0 => seen[p] # None

\* No file names a future incarnation, and a running owner's is of this boot.
FilesOK == \A l \in Levels : file[l] # None =>
               /\ file[l].inc <= inc[file[l].pid]
               /\ ~Dead(file[l]) => file[l].boot = boot

\* Past the recheck the captured owner is dead for good; past the backup its
\* payload is saved; past the confirmation it is still the file at the path.
RecoveryOK == \A p \in Proc :
    /\ pc[p] \in {"backup", "confirm", "remove"} =>
           Dead(seen[p]) /\ seen[p].inc <= inc[seen[p].pid]
    /\ pc[p] \in {"confirm", "remove"} => seen[p] \in quarantine
    /\ pc[p] = "remove" => file[lvl[p] - 1] = seen[p]

IInv == TypeOK /\ HoldersOwn /\ LevelsOK /\ FilesOK /\ RecoveryOK

=============================================================================
