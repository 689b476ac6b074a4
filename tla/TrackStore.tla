----------------------------- MODULE TrackStore -----------------------------
(* The event log of packages/track (events/store.ts, lock.ts, head.ts,         *)
(* validate.ts, reseal.ts): appendCommand and reseal run under an O_EXCL lock  *)
(* file; a call reads and validates the log, deduplicates by delivery token,   *)
(* frames its events (seq, prevHash), appends them, moves the head and reads   *)
(* its own write back before it answers.                                       *)
(*                                                                             *)
(* The id of an event stands for its contentHash too: the hash is over the     *)
(* event without its frame and nothing in the model tampers with one.          *)
(* Payloads, and the checks of validate on payloads, are left out.             *)
EXTENDS Naturals, Sequences, FiniteSets

CONSTANTS Writer,    \* the processes that may ever write
          Agg,       \* aggregate ids
          Token,     \* delivery tokens (clientToken)
          Commands,  \* the commands that are sent: a token and a sequence of aggregates
          Foreign,   \* the events of another branch: a token and an aggregate
          Faults,    \* the steps that may fail, see FaultKinds
          MaxId,     \* bound: no command begins once so many events were made
          MaxMerge,  \* bound: merges of another branch
          NoToken,   \* a command without a delivery token
          Reseal,    \* the call of reseal()
          None       \* no lock file, no head file

FaultKinds == {"crash", "holder", "unlink", "head", "torn", "newline"}

ASSUME CommandAssumption ==
    Commands \subseteq [tok : Token \cup {NoToken}, aggs : Seq(Agg) \ {<<>>}]
ASSUME ForeignAssumption == Foreign \subseteq [tok : Token \cup {NoToken}, agg : Agg]
ASSUME FaultAssumption == Faults \subseteq FaultKinds
ASSUME BoundAssumption == MaxId \in Nat /\ MaxMerge \in Nat

\* A line of the log.  prev and cmd are 0 where the code has null and no cmdId;
\* local (auxiliary): appended to this file, not merged from another branch.
Event == [id : Nat, agg : Agg, tok : Token \cup {NoToken}, cmd : Nat, i : Nat, n : Nat,
          seq : Nat, prev : Nat, local : BOOLEAN]
Anchor == [len : Nat, last : Nat]
Lock == [own : Writer, written : BOOLEAN]
ASSUME NoneAssumption == None \notin Lock \cup Anchor

VARIABLES alive,     \* the writers that run
          log,       \* the lines of events.jsonl that parse
          newline,   \* the last of them ends with '\n'
          malformed, \* some line does not parse
          head,      \* head.json, or None
          lock,      \* events.jsonl.lock, or None
          pc,        \* writer -> next step
          call,      \* writer -> the command under way, or Reseal
          before,    \* writer -> length of the log it read
          batch,     \* writer -> the events it writes: a suffix, or a whole resealed log
          res,       \* writer -> ids of the events the call will return
          ids,       \* events made so far
          merges,    \* merges so far
          unsealed,  \* a branch was merged and the log not resealed since
          acked      \* ids of the events that successful calls have returned

vars == <<alive, log, newline, malformed, head, lock, pc, call, before, batch, res,
          ids, merges, unsealed, acked>>
file == <<log, newline, malformed>>
world == <<alive, ids, merges, unsealed, acked>>
PC == {"idle", "wait", "stamp", "read", "append", "head", "verify", "rewrite", "rehead", "release"}
Section == PC \ {"idle", "wait"}

IdsOf(s) == {s[i].id : i \in DOMAIN s}
\* Mutant of LastId: an empty log has no last hash to continue.
LastIdMissing(s) == IF s = <<>> THEN None ELSE s[Len(s)].id
LastId(s) == IF s = <<>> THEN 0 ELSE s[Len(s)].id
-----------------------------------------------------------------------------
(* validate *)

\* Positions of the events of aggregate a before position i.
Earlier(s, a, i) == {j \in 1 .. (i - 1) : s[j].agg = a}

\* (iii): the seq that continues the last event of the aggregate.
NextSeq(s, a, i) ==
    IF Earlier(s, a, i) = {} THEN 1
    ELSE LET j == CHOOSE j \in Earlier(s, a, i) : \A k \in Earlier(s, a, i) : k <= j
         IN  s[j].seq + 1

Chained(s) == \A i \in DOMAIN s : /\ s[i].prev = (IF i = 1 THEN 0 ELSE s[i - 1].id)
                                  /\ s[i].seq = NextSeq(s, s[i].agg, i)

Members(s, c) == {i \in DOMAIN s : s[i].cmd = c}

\* validateBatches: a batch is whole, contiguous and numbered 0 .. n-1.
BatchesWhole(s) ==
    \A i \in DOMAIN s : s[i].cmd # 0 =>
        LET M == Members(s, s[i].cmd)
        IN  /\ \A j \in M : s[j].n = s[i].n
            /\ Cardinality(M) = s[i].n
            /\ \A j, k \in M : k - j < s[i].n
            /\ {s[j].i : j \in M} = 0 .. (s[i].n - 1)

\* validateHead: a head that is behind is stale, not wrong.
HeadAgrees(s, h) ==
    IF h = None THEN TRUE
    ELSE h.len <= Len(s) /\ (IF h.len = 0 THEN TRUE ELSE s[h.len].id = h.last)

Valid(s, h) == Chained(s) /\ BatchesWhole(s) /\ HeadAgrees(s, h)
-----------------------------------------------------------------------------
(* appendCommand: what is computed under the lock *)

\* The aggregates of the command that already carry its token in the log.
Present(s, c) == {a \in {c.aggs[k] : k \in DOMAIN c.aggs} :
                     \E i \in DOMAIN s : s[i].tok = c.tok /\ s[i].agg = a}
Aggregates(c) == {c.aggs[k] : k \in DOMAIN c.aggs}

\* dedupByClientToken: append, answer with the originals, or refuse.
Fresh(s, c) == c.tok = NoToken \/ Present(s, c) = {}
Retry(s, c) == c.tok # NoToken /\ Present(s, c) = Aggregates(c)
Originals(s, c) == {s[i].id : i \in {i \in DOMAIN s : s[i].tok = c.tok /\ s[i].agg \in Aggregates(c)}}

\* The events of the command, framed after s; `made` events exist already.
Frame(s, c, made) ==
    LET n == Len(c.aggs)
        same(k) == {j \in 1 .. (k - 1) : c.aggs[j] = c.aggs[k]}
    IN  [k \in 1 .. n |->
           [id |-> made + k, agg |-> c.aggs[k], tok |-> c.tok,
            cmd |-> IF n > 1 THEN made + 1 ELSE 0, i |-> k - 1, n |-> n,
            seq |-> NextSeq(s, c.aggs[k], Len(s) + 1) + Cardinality(same(k)),
            prev |-> IF k = 1 THEN LastId(s) ELSE made + k - 1,
            local |-> TRUE]]

\* The lines of s at the positions F, in the order of the file.
Keep(s, F) == [k \in 1 .. Cardinality(F) |->
                  s[CHOOSE i \in F : Cardinality({j \in F : j <= i}) = k]]

\* resealEvents: keep the first line of each id, then frame the stream anew.
Firsts(s) == {i \in DOMAIN s : \A j \in 1 .. (i - 1) : s[j].id # s[i].id}
Unique(s) == Keep(s, Firsts(s))

Reframe(s) == [k \in DOMAIN s |->
                 [s[k] EXCEPT !.seq = Cardinality(Earlier(s, s[k].agg, k)) + 1,
                              !.prev = IF k = 1 THEN 0 ELSE s[k - 1].id]]

\* Mutant of Resealed: lines with one token are taken for copies of one event.
ResealedByToken(s) ==
    Reframe(Keep(s, {i \in DOMAIN s : \A j \in 1 .. (i - 1) : s[j].tok # s[i].tok}))

\* Mutant of Resealed: copies are not collapsed.
ResealedWithCopies(s) == Reframe(s)

Resealed(s) == Reframe(Unique(s))
-----------------------------------------------------------------------------
Init == /\ alive = Writer
        /\ log = <<>>
        /\ newline = TRUE
        /\ malformed = FALSE
        /\ head = None
        /\ lock = None
        /\ pc = [p \in Writer |-> "idle"]
        /\ call = [p \in Writer |-> Reseal]
        /\ before = [p \in Writer |-> 0]
        /\ batch = [p \in Writer |-> <<>>]
        /\ res = [p \in Writer |-> {}]
        /\ ids = 0
        /\ merges = 0
        /\ unsealed = FALSE
        /\ acked = {}

At(p, s) == p \in alive /\ pc[p] = s
Goto(p, s) == pc' = [pc EXCEPT ![p] = s]

\* The call is over; the locals are forgotten.
Forget(p) == /\ Goto(p, "idle")
             /\ call' = [call EXCEPT ![p] = Reseal]
             /\ before' = [before EXCEPT ![p] = 0]
             /\ batch' = [batch EXCEPT ![p] = <<>>]
             /\ res' = [res EXCEPT ![p] = {}]

Begin(p) == /\ At(p, "idle")
            /\ \E c \in Commands \cup {Reseal} : /\ c # Reseal => ids < MaxId
                                               /\ call' = [call EXCEPT ![p] = c]
            /\ Goto(p, "wait")
            /\ UNCHANGED <<file, head, lock, before, batch, res, world>>

\* openSync(lockPath, 'wx')
CreateLock(p) == /\ At(p, "wait")
                 /\ lock = None
                 /\ lock' = [own |-> p, written |-> FALSE]
                 /\ Goto(p, "stamp")
                 /\ UNCHANGED <<file, head, call, before, batch, res, world>>

\* Mutant of TimeOut: a lock waited for too long is taken over.
TimeOutStealing(p) == /\ At(p, "wait")
                      /\ lock # None
                      /\ lock' = [own |-> p, written |-> FALSE]
                      /\ Goto(p, "stamp")
                      /\ UNCHANGED <<file, head, call, before, batch, res, world>>

\* The deadline has passed and the lock is still held: the call throws.
TimeOut(p) == /\ At(p, "wait")
              /\ lock # None
              /\ Forget(p)
              /\ UNCHANGED <<file, head, lock, world>>

\* The holder record is written; a failure leaves the empty lock file behind.
Stamp(p) == /\ At(p, "stamp")
            /\ \/ /\ lock' = [lock EXCEPT !.written = TRUE]
                  /\ Goto(p, "read")
                  /\ UNCHANGED <<call, before, batch, res>>
               \/ /\ "holder" \in Faults
                  /\ Forget(p)
                  /\ lock' = lock
            /\ UNCHANGED <<file, head, world>>

Refuse(p) == Goto(p, "release") /\ UNCHANGED <<before, batch, res, ids>>

\* Mutant of ReadLog: the log is not looked up for the delivery token.
ReadLogUndeduped(p) ==
    /\ At(p, "read")
    /\ call[p] # Reseal
    /\ IF malformed \/ ~Valid(log, head) THEN Refuse(p)
       ELSE /\ batch' = [batch EXCEPT ![p] = Frame(log, call[p], ids)]
            /\ before' = [before EXCEPT ![p] = Len(log)]
            /\ ids' = ids + Len(call[p].aggs)
            /\ Goto(p, "append")
            /\ UNCHANGED res
    /\ UNCHANGED <<alive, file, head, lock, call, merges, unsealed, acked>>

\* appendCommand reads the log and the head: it refuses an invalid log, answers a
\* retry, refuses a token reused on other aggregates, or frames its events.
ReadLog(p) ==
    /\ At(p, "read")
    /\ call[p] # Reseal
    /\ LET c == call[p]
           ok == ~malformed /\ Valid(log, head)
       IN  \/ ~ok /\ Refuse(p)
           \/ /\ ok /\ Retry(log, c)
              /\ res' = [res EXCEPT ![p] = Originals(log, c)]
              /\ Goto(p, "release")
              /\ UNCHANGED <<before, batch, ids>>
           \/ ok /\ ~Retry(log, c) /\ ~Fresh(log, c) /\ Refuse(p)
           \/ /\ ok /\ Fresh(log, c)
              /\ batch' = [batch EXCEPT ![p] = Frame(log, c, ids)]
              /\ before' = [before EXCEPT ![p] = Len(log)]
              /\ ids' = ids + Len(c.aggs)
              /\ Goto(p, "append")
              /\ UNCHANGED res
    /\ UNCHANGED <<alive, file, head, lock, call, merges, unsealed, acked>>

\* k lines of b reach the file.  After a last line without its '\n' the first of
\* them continues that line, and neither of the two parses any more.
Write(b, k) == IF newline \/ k = 0 THEN log \o SubSeq(b, 1, k)
               ELSE SubSeq(log, 1, Len(log) - 1) \o SubSeq(b, 2, k)
Glued(k) == ~newline /\ k > 0

\* appendAtomic: one buffer, then fsync.
AppendAtomic(p) ==
    /\ At(p, "append")
    /\ LET n == Len(batch[p])
       IN  log' = Write(batch[p], n) /\ malformed' = (malformed \/ Glued(n))
    /\ newline' = TRUE
    /\ Goto(p, "head")
    /\ UNCHANGED <<head, lock, call, before, batch, res, world>>

\* A write that stops early ends after k whole lines ("line"), inside the next one
\* ("torn"), or just before the '\n' of the next one ("newline").
Cuts == {"line"} \cup (Faults \cap {"torn", "newline"})
Cut(b, k, c) ==
    LET m == IF c = "newline" \/ (c = "torn" /\ ~newline /\ k = 0) THEN k + 1 ELSE k
    IN  /\ log' = Write(b, m)
        /\ malformed' = (malformed \/ c = "torn" \/ Glued(m))
        /\ newline' = (c = "line" /\ (newline \/ k > 0))

\* Mutant of AppendFails: the error is swallowed and the receipt returned.
AppendFailsSwallowed(p) ==
    /\ At(p, "append")
    /\ "torn" \in Faults
    /\ \E k \in 0 .. (Len(batch[p]) - 1), c \in Cuts : Cut(batch[p], k, c)
    /\ res' = [res EXCEPT ![p] = IdsOf(batch[p])]
    /\ Goto(p, "release")
    /\ UNCHANGED <<head, lock, call, before, batch, world>>

\* writeSync fails half-way (no space): the call throws, the lock is released.
AppendFails(p) ==
    /\ At(p, "append")
    /\ "torn" \in Faults
    /\ \E k \in 0 .. (Len(batch[p]) - 1), c \in Cuts : Cut(batch[p], k, c)
    /\ Goto(p, "release")
    /\ UNCHANGED <<head, lock, call, before, batch, res, world>>

\* writeHead: temporary file and rename; a failure throws and keeps the old head.
WriteHead(p) == /\ At(p, "head")
                /\ \/ /\ head' = [len |-> before[p] + Len(batch[p]), last |-> LastId(batch[p])]
                      /\ Goto(p, "verify")
                   \/ "head" \in Faults /\ head' = head /\ Goto(p, "release")
                /\ UNCHANGED <<file, lock, call, before, batch, res, world>>

\* verifyAppend: length, identity, head and integrity, or no receipt.
Verify(p) == /\ At(p, "verify")
             /\ LET b == batch[p]
                    ok == /\ ~malformed
                          /\ Len(log) = before[p] + Len(b)
                          /\ \A i \in DOMAIN b : log[before[p] + i].id = b[i].id
                          /\ head = [len |-> before[p] + Len(b), last |-> LastId(b)]
                          /\ Valid(log, head)
                IN  res' = [res EXCEPT ![p] = IF ok THEN IdsOf(b) ELSE {}]
             /\ Goto(p, "release")
             /\ UNCHANGED <<file, head, lock, call, before, batch, world>>

\* reseal reads the log and computes the new one; it refuses what it cannot repair.
ReadReseal(p) ==
    /\ At(p, "read")
    /\ call[p] = Reseal
    /\ LET out == Resealed(log)
           ok == ~malformed /\ Valid(out, [len |-> Len(out), last |-> LastId(out)])
       IN  \/ ~ok /\ Refuse(p)
           \/ /\ ok
              /\ batch' = [batch EXCEPT ![p] = out]
              /\ Goto(p, "rewrite")
              /\ UNCHANGED <<before, res, ids>>
    /\ UNCHANGED <<alive, file, head, lock, call, merges, unsealed, acked>>

\* rewriteAtomic: the rename makes the whole resealed log appear.
Rewrite(p) == /\ At(p, "rewrite")
              /\ log' = batch[p]
              /\ newline' = TRUE
              /\ malformed' = FALSE
              /\ Goto(p, "rehead")
              /\ UNCHANGED <<head, lock, call, before, batch, res, world>>

Rehead(p) == /\ At(p, "rehead")
             /\ \/ /\ head' = [len |-> Len(batch[p]), last |-> LastId(batch[p])]
                   /\ unsealed' = FALSE
                \/ "head" \in Faults /\ UNCHANGED <<head, unsealed>>
             /\ Goto(p, "release")
             /\ UNCHANGED <<alive, file, lock, call, before, batch, res, ids, merges, acked>>

\* finally: unlink the lock if it carries our token; then the call returns or throws.
Release(p) == /\ At(p, "release")
              /\ \/ lock # None /\ lock.written /\ lock.own = p /\ lock' = None
                 \/ (lock = None \/ ~lock.written \/ lock.own # p) /\ lock' = lock
                 \/ "unlink" \in Faults /\ lock' = lock
              /\ acked' = acked \cup res[p]
              /\ Forget(p)
              /\ UNCHANGED <<file, head, alive, ids, merges, unsealed>>
-----------------------------------------------------------------------------
\* The writer dies, in the middle of its write or between two steps.
Crash(p) == /\ p \in alive
            /\ "crash" \in Faults
            /\ alive' = alive \ {p}
            /\ \/ UNCHANGED file
               \/ /\ pc[p] = "append"
                  /\ \E k \in 0 .. (Len(batch[p]) - 1), c \in Cuts : Cut(batch[p], k, c)
            /\ Forget(p)
            /\ UNCHANGED <<head, lock, ids, merges, unsealed, acked>>

\* A person removes the lock of a call that is over.  The diagnosis of the timed-out
\* call names the holder; the model's operators act on it while it is still true.
RemoveOrphan == /\ lock # None
                /\ lock.own \notin alive \/ pc[lock.own] \notin Section
                /\ lock' = None
                /\ UNCHANGED <<file, head, pc, call, before, batch, res, world>>

\* git merges another branch with merge=union while no writer is in its section:
\* a line made after the first m lines, new or a copy of one that is here.
Merge == /\ merges < MaxMerge
         /\ \A p \in alive : pc[p] \notin Section
         /\ ~malformed /\ newline
         /\ \E m \in 0 .. Len(log) :
               LET at == IF m = 0 THEN 0 ELSE log[m].id
               IN  \/ \E f \in Foreign :
                         /\ log' = Append(log, [id |-> ids + 1, agg |-> f.agg, tok |-> f.tok, cmd |-> 0,
                                                i |-> 0, n |-> 1, seq |-> NextSeq(log, f.agg, m + 1),
                                                prev |-> at, local |-> FALSE])
                         /\ head' \in {head, [len |-> m + 1, last |-> ids + 1]}
                         /\ ids' = ids + 1
                   \/ \E j \in DOMAIN log \ (1 .. m) :
                         /\ log' = Append(log, [log[j] EXCEPT !.prev = at,
                                                              !.seq = NextSeq(log, log[j].agg, m + 1)])
                         /\ head' \in {head, [len |-> m + 1, last |-> log[j].id]}
                         /\ ids' = ids
         /\ merges' = merges + 1
         /\ unsealed' = TRUE
         /\ UNCHANGED <<alive, newline, malformed, lock, pc, call, before, batch, res, acked>>

\* The steps of a call under way.
Step(p) == \/ CreateLock(p) \/ TimeOut(p) \/ Stamp(p) \/ ReadLog(p) \/ AppendAtomic(p)
           \/ AppendFails(p) \/ WriteHead(p) \/ Verify(p) \/ ReadReseal(p)
           \/ Rewrite(p) \/ Rehead(p) \/ Release(p)

Next == \/ \E p \in Writer : Begin(p) \/ Step(p) \/ Crash(p)
        \/ RemoveOrphan
        \/ Merge

Spec == Init /\ [][Next]_vars
-----------------------------------------------------------------------------
TypeOK == /\ alive \subseteq Writer
          /\ log \in Seq(Event)
          /\ newline \in BOOLEAN /\ malformed \in BOOLEAN /\ unsealed \in BOOLEAN
          /\ head \in Anchor \cup {None}
          /\ lock \in Lock \cup {None}
          /\ pc \in [Writer -> PC]
          /\ call \in [Writer -> Commands \cup {Reseal}]
          /\ before \in [Writer -> Nat]
          /\ batch \in [Writer -> Seq(Event)]
          /\ res \in [Writer -> SUBSET Nat]
          /\ ids \in Nat /\ merges \in 0 .. MaxMerge
          /\ acked \subseteq Nat

\* One writer at a time is between taking the lock file and giving it back, with
\* failed holder writes, leaked and orphaned lock files and their removal.
OneWriter == \A p, q \in alive : pc[p] \in Section /\ pc[q] \in Section => p = q

PartialTail(s) == s # <<>> /\ s[Len(s)].cmd # 0 /\ s[Len(s)].i + 1 < s[Len(s)].n

\* The log and its head pass validate, with every event once, unless a write was
\* cut inside a line or a batch or a merge waits for its reseal: concurrent
\* writers, a stale head and a reseal killed before its head never spoil it.
LogSound == \/ malformed \/ PartialTail(log) \/ unsealed
            \/ Valid(log, head) /\ Cardinality(IdsOf(log)) = Len(log)

\* A command delivered again, after an error, a timeout or a crash, by whichever
\* writer, appends nothing: a token and an aggregate have the events of one command.
ExactlyOnce == \A i, j \in DOMAIN log :
    /\ log[i].local /\ log[j].local
    /\ log[i].tok # NoToken /\ log[i].tok = log[j].tok /\ log[i].agg = log[j].agg
    => log[i].id - log[i].i = log[j].id - log[j].i

\* The receipt: what a successful call has returned is a line of the log for ever.
AckedKept == acked \subseteq IdsOf(log)

\* No step loses a line that could be read, the rewrite of a reseal included.
NothingLost == [][IdsOf(log) \subseteq IdsOf(log')]_vars
=============================================================================
