# TLA+ models of h2a

h2a lets agents ("instances") of several hosts and processes work on shared state
without a server: a directory of files that many short-lived processes read and
write. Its correctness rests on the way those processes exclude each other,
recover from each other's death and order their writes. This project models that
core from the source, checks it with TLC and proves its safety properties with TLAPS.

All paths below are relative to `packages/h2a/src/` unless they start with
`packages/` or `apps/`.

## Inventory

| Part | State | Operations | What is hard, what must hold |
|---|---|---|---|
| Advisory lock, `runtime/local-files/locks.ts` | lock file, nested `.recovery` guards, quarantine files | `withLock`, `withLockSync`; inside: `acquire`, `release` | processes die anywhere, pids are reused, the host reboots, link(2) may be missing; one process inside, no live lock removed, dead ones removed and saved first |
| Lease lock, `runtime/local-files/lease.ts` | lease file with expiry, nonce, token | `tryAcquireLease`, `releaseLeaseHandle`, `withLease(Sync)` | read-decide-unlink races, time; a crashed holder must not wedge the resource |
| Loop executor lease and supervisor, `runtime/loop/` | one lease per loop, heartbeat | `runSupervisorBeat`, `runTick`, `executePlan` | abort races a running action; one executor per loop, loops keep being ticked |
| Negotiations, `runtime/local-files/store.ts`, `journal.ts` | `state.json`, chained journal, artefact files | open, update status, append, stabilize | crash between three files, two negotiations on one artefact; chain intact, quorum real, artefact immutable |
| Registry, keyring, sub-agents, offboarding, `store.ts` | append-only JSONL files | register, add/revoke key, revoke sub-agent, offboard | lists made outside the lock, two offboardings at once, a key added again; what a tombstone names stays revoked |
| Mailboxes, routing, `store.ts`, `runtime/send.ts` | inbox and outbox files | put, pop, list, route | the revocation of a sub-agent races a routing that has checked it; the generic put checks nothing |
| Drive consent, `store.ts`, `runtime/drive/` | consent records and fence | request, grant, revoke, drive | a drive after a revocation |
| Succession lock, `runtime/local-files/succession-lock.ts` | `LOCK` with a token, `SUCC(token)` links | `acquirePrefixLock`, `breakLockAsOperator`, release, purge, collection | successors die in turn, pids are reused, unlinks fail; one holder, one successor, no live owner judged dead |
| Identity fence, `identity-fence.ts` | fence epochs | enter, leave, break | stale epochs |
| Presence and launch index, `presence.ts`, `launch-index.ts` | heartbeat files, index | stamp, read, rebuild | index behind its log |
| Conductor claims, `runtime/governance/` | claims | claim, release | two conductors |
| Replay guard and remote server, `replay.ts`, `runtime/remote/` | ids seen, in memory | accept, deliver | restarts, a delivery that throws, keys revoked meanwhile; accepted once per process, nothing remembered and lost |
| Lineage and session leases, `packages/h2a-runtime/src/`, `apps/control-plane/src/` | lease rows | acquire, renew, release | clocks, lost answers |
| Track, `packages/track/src/` | event log, head, lock file, item leases | `appendCommand`, `reseal`, claim | cut writes, retries, deaths, merged branches, orphaned locks; the log stays valid, retries append nothing, receipts stay true |
| Mirror push, drumbeat, handover | cursors, debounce, ownership records | push, scan, hand over | retries, partial progress |
| MCP servers, terminals, control-plane routes, focus | — | transport, UI | not modelled: input and output around the parts above |

The parts interact through files only: the store's methods run inside `lock()`
(`store.ts:457`), which is the advisory lock or, in lock mode `lease`, the lease
lock; the supervisor uses the lease lock; the identity fence runs the succession
lock's election with records of its own, and the advisory lock uses its liveness
classifier. The remote server reads the registry's keys and writes its inboxes. Track
keeps a store and a lock of its own.

`PROJECT.json` lists the components, the hazards at their lines, and the source
lines of each definition.

## Modules

* `LockService` — abstract: a holder, who is inside, who lives. A lock changes
  hands only by its holder's release or after its holder's death.
* `AdvisoryLock` — `acquire()` and `release()`, one action per system call that
  another process can interleave with. `file[0]` is the lock, `file[l]` its l-th
  recovery guard. A file is the record of an inode: its writer (`pid`, `inc`), what
  its payload parses to (`prov`: with provenance, `legacy`: without, `opaque`: not
  at all), the metadata that `unchanged()` compares (`st` stands for link count and
  ctime) and the boot it was written in. `pc`, `lvl`, `owned`, `seen`, `ret` are a
  process's place in the code and its captures. The recursion `acquire(guard,
  depth + 1)` is `lvl + 1` in the same actions; only the innermost `seen` and
  `owned` matter, because every outer call then returns `ok: false`.
* `Negotiation` — the store's four negotiation operations and `journal.ts`, over
  the lock that `LockService` promises (`Call`, `Unlock`, `Evict`). A hash stands
  for the artefact it identifies; `writeFileSync` is a truncation and a write.
* `LeaseLock` — `attemptAcquire` and `releaseLease`. Time is kept as ages, so
  states repeat and fairness can be checked.
* `LoopSupervisor` — extends `LeaseLock`: a beat takes the lease, runs the tick's
  actions, and releases, also when it is aborted with an action in flight.
* `SuccessionLock` — the prefix lock. `lock` is the token in `LOCK`, `succ` the `SUCC`
  files; an element of `Proc` is one incarnation of a process. Constants say where it
  runs: on which machine (`Machine`) with which machine id (`Host`, which clones of an
  image share), in which boot, pid namespace and time namespace, with which pid there;
  and what it can read of that: its start source (`Source`) and the anchors it cannot
  read (`Blind`, null or weak in its records). `Verdict` is `classifyLiveness` and
  `IdentityVerdict` is `classifyIdentityLiveness`, check by check in the code's order.
  Pid reuse is two incarnations with one pid in one namespace; a `husk` is a process
  whose main thread ended before its other threads, a zombie with several threads to
  `/proc`. `kill(pid, 0)` and the read of `/proc` are one step. The operator's break is
  the same election with other exits (`op`). `depth` in a link is auxiliary.
* `TrackStore` — `appendCommand`, `reseal` and `withFileLock`. `log` holds the lines
  that parse; `newline` and `malformed` say what else is in the file, so that a write
  can be cut between lines, inside one and before its newline. An event's id stands
  for its hash as well. `validate` is `Chained`, `BatchesWhole` and `HeadAgrees`.
* `Registry` — the registry files as logs and sets; a section under a lock is a step,
  and `offboardInstance` and `routeToSubagent`, which run outside, are one step per
  read or section. `late` (auxiliary) notes the envelope ids whose routing had checked a
  sub-agent before it was revoked. An inbox has one envelope per id, since the file is
  named by it.
* `RemoteServer` — extends `Registry` with the remote endpoint: the two share the
  keyring and the inboxes. The target of an envelope (`To`) is any actor, a sub-agent
  included; the guard knows an envelope by its id alone, and ids may be shared.
* `MC…` — instances for TLC.
* `AdvisoryLockProofs`, `LockServiceProofs` (which extends it with the refinement),
  `SuccessionLockProofs`, `RemoteServerProofs`, `NegotiationProofs`,
  `LoopSupervisorProofs`, `TrackLogProofs` (lemmas on logs as sequences) and
  `TrackStoreProofs` (which extends it) — the theorems.

Definitions whose comment says "Mutant of X" are plausible mistakes in X; the
properties are known to catch them.

## Runs

| Run | Shows |
|---|---|
| `lock_safety` | `MutualExclusion`, `RecoverySerialized`, `LiveRecordKept`, `QuarantinedFirst`, `ImplementsLockService` with crashes, pid reuse, a reboot, leftovers of an earlier run, link(2) working or not at each attempt |
| `lock_faults` | the same lock when each call may fail (staging, write, unlink, verification, directory sync, recovery) |
| `lock_liveness` | `StaleLockEvicted` |
| `lock_leak` | finding: `ReleasedOnFailure` is violated |
| `nego_safety` | `JournalChained`, `StabilizedByQuorum`, `AnnouncedOnDisk`, `StateFollowsJournal`, `WriteNotStale`, `ArtifactWriteOnce` |
| `nego_revoked` | finding: `RevokedKeysDoNotCount` is violated |
| `supervisor` | `CreateIsExclusive` until a lease is stolen, `LoopKeepsTicking` |
| `supervisor_overlap` | finding: `OneExecutor` is violated |
| `succession` | `AtMostOneHolder`, `NoFalseDeath` (I3), `UniqueSuccessor` (Lemma B), `ChainKept` (I5), `TargetedUnlink` (I4, Lemma C) of the proof sketch in `succession-lock.ts`, over two machines and four boots (743,810 states) |
| `track_store` | `OneWriter`, `LogSound`, `ExactlyOnce`, `AckedKept`, `NothingLost` with every fault but a missing newline |
| `track_newline` | finding: `AckedKept` is violated |
| `registry` | `OffboardComplete`, `RevokedOnce`, `LateRoutesOnly` of the registry; `AcceptedOnce`, `RememberedDelivered`, `NoAcceptAfterOffboard` of the remote server over it (1,854,864 states) |

Bounds, and why they are enough:

* Lock: two processes, since every race in the code is between an owner or
  reclaimer and one other process; a third only adds another reclaimer, which the
  theorems cover. `MaxDepth` 2 (8 in the code) lets a guard be recovered under a
  guard of its own; 1 with failing calls. `MaxInc` 2: each pid dies once and is
  reused once. `MaxBoot` 1: one reboot. Initially the path is empty or holds a
  legacy or an empty file of an earlier process. In `lock_safety` and `lock_faults`
  the two pids are symmetric, and neither run checks liveness.
* `lock_liveness` has three guard levels and at most one death per process: with as
  many deaths as levels the bound of 8 is exhausted and the lock stays, by design.
  Faults and the fallback are off: a payload torn in the fallback on this boot is
  kept until the next one.
* Negotiation: two clients (symmetric, each dying at most once), two negotiations
  that are each one signature short of a quorum on their own version of one
  contract, so that both compete for one artefact path; a signature that does not
  verify; journals of at most 4 entries before the final one. Clients set only
  `proposed`: the CLI contract lets them set `stabilized` as well, and then the
  state file says no more than they do. Stopping is allowed: both clients may be
  dead. The registrations are fixed during a run.
* Supervisor: two supervisors, a lease of 2 clock steps, attempts of at most 1,
  two crashes.
* Succession: nine incarnations. Three contend: `p1`, `p2`, and `p3` with the pid of
  `p1`, after it. With a dead owner, a dead first successor and a live contender the
  chain is two links long (`MaxChain` 2, 8 in the code), and a walk that would go
  further is refused. A new call needs a process that has published no token (`MaxTok`
  1); a call under way publishes as many as it needs. The other six take no lock: they
  are there to judge and be judged. `far` is another machine; `m1` and `m2` run in the
  next boot of the contenders' machine, in two time namespaces; `c1` to `c3` run in the
  boot after, from an image of `far`'s machine and so with its id, `c2` and `c3` in
  another pid namespace, `c3` with a `/proc` that is not its namespace's, so that it
  reads no namespace and dates nothing. Every check of the two classifiers on places
  decides in this run: dropping the one on the machine id, the boot, the pid namespace,
  a null namespace, the time namespace or the number of threads makes `NoFalseDeath`
  fail. A `ps` or `legacy` start, an unread boot and a process that is not on Linux are
  left to the theorem.
* Track: two writers (symmetric), a one-event command, a batch and a command that
  reuse its token on other aggregates, a command without token, one merge of a branch
  that received the first command too. No command begins after two events, so that a
  log has at most two commands and one merged line.
* Registry and remote server: two processes that offboard and route at once, one
  instance with one key, which may be added again after its revocation, one sub-agent,
  which may be registered after the list, two envelopes of different age that share an
  id and are both for the sub-agent, a freshness window of one tick, one restart. The
  same envelopes are routed locally. More keys repeat the same loop. The clock does not
  step back.

Stopping is allowed in all of these: processes may be dead, and bounds end the calls.

## Fairness

* `AdvisoryLock`: weak fairness of a running process's own steps (`Step`; the code
  between two calls never waits), of `Request` (the polling loop, and callers that
  come back after a timeout) and of `Spawn` (the hosts restart agents). None of
  crashes, faults, reboots or `GiveUp`.
* `LoopSupervisor`: weak fairness of the beat (`runLoopSupervisor` loops for ever),
  of the end of actions and of the abort (its timer), and of the clock.

## Findings

1. `lock_leak` — after `linkSync`, `owned` is still the staging file's `fstat`.
   Linking and unlinking changed the inode's link count and ctime, so when the
   verification fails the `release` in the handler sees a changed file and keeps it.
   The process lives, so nobody may reclaim its lock. The comments at `locks.ts:319`
   and `:328` intend the release.
2. `nego_revoked` — `stabilizeNegotiation` verifies signatures against the keys of
   the registration rather than `listInstanceKeys`, so a key revoked before the
   signature was made still counts.
3. `supervisor_overlap` — a lease file read between its creation and its write counts
   as malformed; the reader later unlinks whatever is at the path, by then a valid
   lease, and both supervisors execute the loop.
4. `track_newline` — a write cut just before its last newline leaves a line that
   `readAll` and `validate` accept: a retry is answered from it. The next append is
   written right behind it, the two become one line that does not parse, and the
   acknowledged event is gone from the log, which every later call refuses.

## Proofs

Every invariant and action property of the passing runs is a theorem, for every value
of the constants within the assumptions named in the modules; so is the refinement of
`LockService`. Each is derived from an inductive invariant `IInv`, which TLC also finds
to hold on the instance of the component's run. Hypotheses beyond the modules'
assumptions are written in the theorems and named below.

### Advisory lock

`AdvisoryLockProofs` proves, for every set of processes, every `MaxDepth`, every
bound on incarnations and reboots, every set of faults and every choice of the other
constants within the assumptions named in `AdvisoryLock`: `TypeCorrect`,
`MutualExclusionHolds`, `RecoverySerializedHolds`, `LiveRecordKeptHolds` and
`QuarantinedFirstHolds`.

The argument. Mutual exclusion is not inductive: a process inside says nothing of the
file. `IInv` adds
* `HoldersOwn` — from publication to the unlink of its release, the inode at the level
  a process works on is its own; two holders of a level are therefore one
  (`OneHolder`);
* `LevelsOK` — callers run at level 0, recovery above it, with a capture;
* `FilesOK` — no file names a future incarnation, and a running owner's file is of
  this boot, so that a stale boot does prove death (`ReclaimableIsDead`);
* `RecoveryOK` — past the recheck the captured owner is dead, for good since
  incarnations only grow; past the backup it is saved; past the confirmation it is
  still the file at the path, because only another holder of the same guard could
  have removed it.
`HoldersOwn` needs `RecoveryOK` (a removal hits a dead owner's file) and the reverse
(nobody else holds the guard): neither is inductive alone. `FileChanges` then lists the
steps that touch a file, which gives the two action properties.

`LockServiceProofs` proves `LockServiceImplemented`: the lock belongs to the creator of
the inode at level 0 (`Holder`), inside are the processes in their section, live those
that run. Initial states map to initial states, and every kind of step (publication,
release, removal by a recovery, entry, exit, death, respawn, everything else) maps to a
step of the service or a stutter. Besides `IInv` it needs incarnations bounded by
`MaxInc`, because the service's identities are.

### Succession lock

`SuccessionLockProofs` proves the lemmas of the proof sketch in `succession-lock.ts`
for every set of incarnations, every assignment of machines, machine ids, boots,
namespaces, pids, start sources and unread anchors, every chain and round limit and
every set of failing publications and unlinks: `MutualExclusion`,
`LeaseStaysHeld` (Lemma A), `OneSuccessor` (Lemma B), `UnlinkIsTargeted` (I4, Lemma C),
`NoFalseDeathHolds` (I3), `ChainStays` (I5) and `TypeCorrect`.

What `NoFalseDeathHolds` says, and from what. A process is running for the prefix lock
while its main thread is, which alone takes the lock's steps: `classifyLiveness` calls a
zombie dead whatever its threads ("zombie never runs again"). `classifyIdentityLiveness`
asks for exactly one thread, and the theorem says so: it calls no process dead that has
a thread left. Its stale-boot rule concludes from two boot ids under one machine id, so
for that half the theorem assumes that the two processes, if they share a machine id,
share the machine. `classifyLiveness` needs no such hypothesis: it asks for the same
boot, and the comment above its checks names clones as the reason. `BootAssumption` says
that a boot id belongs to one machine.

The argument. A holder loses the lock only through an elected successor, so mutual
exclusion rests on what elections mean. `IInv` is `TypeOK`, `UniqueSuccessor` and
* `KernelOK` — on each machine one process per pid and pid namespace, and one boot at a
  time: the pid that answers a probe in the record's boot and namespace is the recorded
  process or its successor (`Probe`), which makes both classifiers sound
  (`VerdictSound`, `IdentitySound`);
* `TokensOK` — every token in a file or a local has been drawn, and a link's token is
  in no other link and not in `LOCK`: a fresh token is met nowhere (`FreshFacts`), so
  a new lock starts with no links and no successor;
* `ChainOK` — the links for the token in `LOCK` have pairwise different depths, each
  hangs on the one before, and all but the last were published by processes now dead;
* `ProcOK` — a process that walks the chain has dead owners behind it (`WalkOK`); an
  elected one has a link of its own in the chain; at the unlink `LOCK` is the token it
  was elected for, and while it purges it is not; a holder's token is in `LOCK`.

Two elections for one token would be two links. The later one's owner has walked past
the earlier link, so the earlier owner is dead (`UniqueStep`). At the unlink `LOCK = g`
still holds because the only other process that could have changed it would be a second
successor; that is where `UniqueSuccessor` and `ProcOK` need each other. `FileSteps`
says what a step may do to `LOCK` and to the chain, and gives the two action properties.

### Registry and remote server

`RemoteServerProofs` proves all properties of the `registry` run, for every number of
processes, instances, keys, sub-agents and envelopes and every freshness window.
`RegInv` says that what an offboarding has gone through of its lists is revoked already
(`ProcOK`), and so is what a tombstone lists (`TombsOK`); both stay true because the
logs only grow and a revocation outweighs an addition. `ServerInv` says that an id this
incarnation accepted is remembered or too old to be accepted again (`GuardOK`): the
guard remembers an id at least as long as the freshness check lets it pass.
`NoLateRouting` says that a routing audited after the revocation of its sub-agent had
passed its check before. It speaks of the audit trail and not of the inbox on purpose: the
generic put takes any actor, so a remote envelope for `parent~name` reaches a revoked
sub-agent's inbox without a check and without a row (`Deliver`). The decision DEC-070
leaves that put open, and `docs/subagents.md` promises the refusal of `route` alone.

### Negotiations

`NegotiationProofs` proves, for every set of clients, negotiations, actors, artefacts
and payloads and every authority matrix: `JournalAlwaysChained`, `WriteOnce`, `NeverStale`
and `TypeCorrect`; `QuorumAlways` and `OnDiskAlways` if `NoClaims`; and `StateAlwaysFollows`
if clients do not set the status `stabilized`. `NoClaims` says that no client appends,
and no initial journal has, a `stabilized` payload: `appendNegotiationEvent` takes any
payload, so without it a journal says what clients say. The run's constants satisfy both
hypotheses.

A property of the journal is not inductive because a stabilization takes five steps.
`IInv` adds `LockOK` (a section runs under the lock of its negotiation), `ClientOK` (the
last entry it read is still the last; the artefact it is about to announce is backed by
an offer and all signatures, torn while it fills it and whole when it announces it),
`FreshOK` (the state file is as it read it until it truncates it) and
`FillOK` (two negotiations do not fill one path, since the create is exclusive). A dead
client's half-done work stays as it is: the exclusive create fails for everyone after.

### Lease and supervisor

`LoopSupervisorProofs` proves `TypeCorrect` and `Exclusive` for every number of
supervisors, every lease duration and every number of crashes. `OwnsFile`: until a
steal, everyone past the exclusive create owns the inode at the path. The run
`supervisor_overlap` shows why the hypothesis `~stolen` inside `CreateIsExclusive` is
needed.

### Event store

`TrackStoreProofs` proves `OneWriter`, `TypeOK`, `LogSound` and `ExactlyOnce` for every
set of writers, commands, foreign lines and failing steps, the missing newline included;
and `AckedKept` and `NothingLost` if `"newline" \notin Faults`, which is what finding 4
is about.

The lock comes first: a running writer in its section is the one named in the lock file
(`SectionOwned`), so a writer is alone with the file. `IInv` adds what it relies on:
* `Framed` — a writer about to append has framed its command after the log as it still
  is, a valid log in which the command is fresh, with numbers given out to it alone;
* `Appended`, `Resealing`, `Rewritten` — the same for the head, the rewrite and the
  head after the rewrite;
* `Data` — ids are numbers given out (`Numbered`); `ExactlyOnce`; and a log that is
  neither malformed nor waiting for a reseal is `Sound`: chained, every id once, head
  right, and whole but perhaps for a batch cut at the end. Being invalid is not
  repaired by appending, since `appendCommand` refuses, so a partial tail stays one;
* `Receipts` — the last line has its newline or the log is malformed, and what calls
  return is in the log.

`TrackLogProofs` has the lemmas on logs: a frame, or any first part of it, continues
the hash chain and the numbering of each aggregate (`FrameChained`), a whole one is a
whole batch and a part shows at the end (`FrameBatches`), ids stay distinct
(`FrameDistinct`); a reseal keeps every id, each once, and a log without copies line by
line (`ResealFacts`); what is left of lines written into one another (`GluedLines`).
`resealEvents` is modelled by positions (`Firsts`, `Keep`) so that these need
cardinalities and no induction over sequences.

### Only model-checked

The liveness properties `StaleLockEvicted` and `LoopKeepsTicking`: TLAPS as used here
proves neither fairness nor ENABLED. The findings are counterexamples of TLC.

## Not modelled

* Two overlapping asynchronous `withLock` calls of one process: the record names the
  process, and the model gives each process one attempt at a time.
* Cross-host owners, other users' files and unqualified filesystems: recovery is off
  for them (`Decidable`, `Qualified`, `Reclaimers`). The runs take the case in which
  recovery may act; the theorems cover the others too.
* The fencing token of a lease: nothing compares it.
* A failing syncDirectory after the removal of a stale lock: the guard is released and
  the caller sees an error instead of another poll, which changes no file.
* Reads that fail with an I/O error in the succession lock (they end the call as a
  refusal does), its staging files (private until link(2)), and records of older
  versions, which only an operator may break: both classifiers refuse them, as they
  refuse a record without a machine id.
* The item leases of track, the hooks its ingest layer injects into `appendCommand`,
  and the checks of `validate` on payloads.
* Organisation grants, identity aliases and outboxes. Puts by other local callers (the
  CLI, MCP, `runtime/send.ts`): they are the generic put that `Deliver` performs, and no
  property depends on what an inbox holds besides.
* The status `stabilized` set by a client, which the CLI contract allows: the run of
  `Negotiation` leaves it out, and the theorem on `StateFollowsJournal` assumes it away.
* A wall clock that steps back: the replay guard would accept an id it has pruned.
* The contents and wording of entries, errors and observer events.
* The parts marked so in the inventory.

## Plan

1. Drive consent and its fence; conductor claims; the identity fence, as a second
   binding of `SuccessionLock`'s election.
2. `Negotiation` over `LeaseLock` (lock mode `lease`).
3. Track's item leases; lineage and session leases.
4. Proofs for what these add; an abstract specification of the event store (a set of
   commands delivered once, a log of their events) and the refinement of it.
