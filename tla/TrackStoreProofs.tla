-------------------------- MODULE TrackStoreProofs --------------------------
(* Proofs about TrackStore: its lock file, the log under it and the receipts,  *)
(* for every set of writers, of commands and of failing steps.                 *)
EXTENDS TrackLogProofs

\* A running writer in its section is the one named in the lock file.
SectionOwned == \A p \in alive : pc[p] \in Section => lock # None /\ lock.own = p

LInv == /\ alive \subseteq Writer
        /\ pc \in [Writer -> PC]
        /\ lock \in Lock \cup {None}
        /\ SectionOwned

\* A step of p that stays inside the section, or leaves the lock file as it is.
LEMMA Inside ==
    ASSUME LInv, NEW p \in alive, NEW x \in Section, pc[p] \in Section, Goto(p, x),
           lock' = lock, alive' = alive
    PROVE  LInv'
BY DEF LInv, SectionOwned, Goto, Section

\* A call that ends: its lock file stays, or is removed by the writer it names.
LEMMA Leaves ==
    ASSUME LInv, NEW p \in alive, Forget(p), alive' \subseteq alive,
           lock' = lock \/ (lock' = None /\ pc[p] \in Section)
    PROVE  LInv'
<1>1. pc' \in [Writer -> PC] /\ pc'[p] = "idle" /\ \A q \in Writer : q # p => pc'[q] = pc[q]
  BY DEF LInv, Forget, Goto, PC
<1> QED
  BY <1>1 DEF LInv, SectionOwned, Section

\* LInv is inductive: the exclusive create is the only way into the section, and a
\* person removes a lock file only when the writer it names is out of it.
LEMMA LockStep == LInv /\ [Next]_vars => LInv'
<1> SUFFICES ASSUME LInv, [Next]_vars PROVE LInv'
  OBVIOUS
<1> USE DEF At
<1>1. ASSUME NEW p \in Writer, Begin(p) PROVE LInv'
  <2>1. /\ p \in alive /\ pc' \in [Writer -> PC] /\ pc'[p] = "wait" /\ lock' = lock /\ alive' = alive
        /\ \A q \in Writer : q # p => pc'[q] = pc[q]
    BY <1>1 DEF Begin, Goto, LInv, PC, world
  <2> QED
    BY <2>1 DEF LInv, SectionOwned, Section
<1>2. ASSUME NEW p \in Writer, CreateLock(p) PROVE LInv'
  <2>1. /\ p \in alive /\ pc' \in [Writer -> PC] /\ lock = None /\ alive' = alive
        /\ lock' = [own |-> p, written |-> FALSE]
        /\ \A q \in Writer : q # p => pc'[q] = pc[q]
    BY <1>2 DEF CreateLock, Goto, LInv, PC, world
  <2>2. lock' \in Lock /\ lock'.own = p
    BY <2>1 DEF Lock
  <2>3. lock' # None
    BY <2>2, NoneAssumption
  <2> QED
    BY <2>1, <2>2, <2>3 DEF LInv, SectionOwned
<1>3. ASSUME NEW p \in Writer, Stamp(p) PROVE LInv'
  <2>1. CASE Forget(p) /\ lock' = lock
    BY <1>3, <2>1, Leaves DEF Stamp, world
  <2>2. CASE ~(Forget(p) /\ lock' = lock)
    <3>1. /\ p \in alive /\ pc[p] = "stamp" /\ lock' = [lock EXCEPT !.written = TRUE]
          /\ Goto(p, "read") /\ alive' = alive
      BY <1>3, <2>2 DEF Stamp, world
    <3>2. lock \in Lock /\ lock.own = p
      BY <3>1 DEF LInv, SectionOwned, Section, PC
    <3>3. lock' \in Lock /\ lock'.own = p /\ lock' # None
      BY <3>1, <3>2, NoneAssumption DEF Lock
    <3>4. pc' \in [Writer -> PC] /\ \A q \in Writer : q # p => pc'[q] = pc[q]
      BY <3>1 DEF Goto, LInv, PC
    <3> QED
      BY <3>1, <3>2, <3>3, <3>4 DEF LInv, SectionOwned
  <2> QED
    BY <2>1, <2>2
<1>4. ASSUME NEW p \in Writer, ReadLog(p) \/ ReadReseal(p) PROVE LInv'
  <2>1. p \in alive /\ pc[p] \in Section /\ lock' = lock /\ alive' = alive
    BY <1>4 DEF ReadLog, ReadReseal, Section, PC
  <2>2. \E x \in {"release", "append", "rewrite"} : Goto(p, x)
    BY <1>4 DEF ReadLog, ReadReseal, Refuse
  <2> QED
    BY <2>1, <2>2, Inside DEF Section, PC
<1>5. ASSUME NEW p \in Writer, AppendAtomic(p) \/ AppendFails(p) \/ WriteHead(p) \/ Verify(p)
                               \/ Rewrite(p) \/ Rehead(p)
      PROVE  LInv'
  <2>1. p \in alive /\ pc[p] \in Section /\ lock' = lock /\ alive' = alive
    BY <1>5 DEF AppendAtomic, AppendFails, WriteHead, Verify, Rewrite, Rehead, Section, PC, world
  <2>2. \E x \in {"head", "verify", "release", "rehead"} : Goto(p, x)
    BY <1>5 DEF AppendAtomic, AppendFails, WriteHead, Verify, Rewrite, Rehead
  <2> QED
    BY <2>1, <2>2, Inside DEF Section, PC
<1>6. ASSUME NEW p \in Writer, TimeOut(p) \/ Release(p) \/ Crash(p) PROVE LInv'
  BY <1>6, Leaves DEF TimeOut, Release, Crash, Section, PC, world
<1>7. CASE RemoveOrphan
  BY <1>7 DEF RemoveOrphan, LInv, SectionOwned, world
<1>8. CASE Merge \/ UNCHANGED vars
  BY <1>8 DEF Merge, vars, LInv, SectionOwned
<1> QED
  BY <1>1, <1>2, <1>3, <1>4, <1>5, <1>6, <1>7, <1>8 DEF Next, Step

\* The event store's lock: one writer at a time between taking and giving back the lock
\* file, with crashes, failed holder records, failed unlinks and manual removals.
THEOREM WritersExclude == Spec => []OneWriter
<1>1. Init => LInv
  BY DEF Init, LInv, SectionOwned, Section, PC
<1>2. LInv => OneWriter
  BY DEF LInv, SectionOwned, OneWriter
<1> QED
  BY <1>1, <1>2, LockStep, PTL DEF Spec
-----------------------------------------------------------------------------
(* Types. *)

\* k lines of b reach the file: the lines come from the log and from b, and where
\* no line was continued the log is extended.
LEMMA WriteFacts ==
    ASSUME log \in Seq(Event), NEW b \in Seq(Event), NEW k \in 0 .. Len(b)
    PROVE  /\ Write(b, k) \in Seq(Event)
           /\ \A i \in DOMAIN Write(b, k) : \/ \E j \in DOMAIN log : Write(b, k)[i] = log[j]
                                           \/ \E j \in DOMAIN b : Write(b, k)[i] = b[j]
           /\ ~Glued(k) => Extends(Write(b, k), log, b, k)
<1>1. CASE newline \/ k = 0
  <2>1. Extends(log \o SubSeq(b, 1, k), log, b, k)
    BY AppendedLines
  <2>2. Write(b, k) = log \o SubSeq(b, 1, k)
    BY <1>1 DEF Write
  <2>3. Extends(Write(b, k), log, b, k)
    BY <2>1, <2>2
  <2>4. \A j \in 1 .. k : j \in DOMAIN b
    OBVIOUS
  <2> HIDE DEF Write
  <2>5. DOMAIN log = 1 .. Len(log)
    OBVIOUS
  <2> QED BY <2>3, <2>4, <2>5 DEF Extends
<1>2. CASE ~newline /\ k # 0
  <2> DEFINE t == SubSeq(log, 1, Len(log) - 1) \o SubSeq(b, 2, k)
  <2>1. Write(b, k) = t
    BY <1>2, Zenon DEF Write
  <2>2. k > 0
    BY <1>2
  <2>3. Glued(k)
    BY <1>2, <2>2, Zenon DEF Glued
  <2>4. /\ t \in Seq(Event)
        /\ \A i \in DOMAIN t : \/ \E j \in DOMAIN log : t[i] = log[j]
                               \/ \E j \in DOMAIN b : t[i] = b[j]
    BY GluedLines
  <2> HIDE DEF t
  <2> QED BY <2>1, <2>3, <2>4, Zenon
<1> QED BY <1>1, <1>2

LEMMA EventIds ==
    ASSUME NEW s \in Seq(Event)
    PROVE  IdsOf(s) \subseteq Nat
<1>1. \A i \in DOMAIN s : s[i] \in Event
  OBVIOUS
<1>2. \A i \in DOMAIN s : s[i].id \in Nat
  BY <1>1 DEF Event
<1> QED BY <1>2 DEF IdsOf

\* A write that is cut leaves the lines of a write of m lines.
LEMMA CutFacts ==
    ASSUME NEW b, Len(b) \in Nat, NEW k \in 0 .. (Len(b) - 1), NEW c \in Cuts, Cut(b, k, c),
           newline \in BOOLEAN, malformed \in BOOLEAN
    PROVE  \E m \in 0 .. Len(b) : /\ log' = Write(b, m)
                                  /\ malformed' = (malformed \/ c = "torn" \/ Glued(m))
                                  /\ newline' = (c = "line" /\ (newline \/ k > 0))
                                  /\ newline' \in BOOLEAN /\ malformed' \in BOOLEAN
<1> DEFINE m == IF c = "newline" \/ (c = "torn" /\ ~newline /\ k = 0) THEN k + 1 ELSE k
<1>1. m \in 0 .. Len(b)
  OBVIOUS
<1>2. /\ log' = Write(b, m)
      /\ malformed' = (malformed \/ c = "torn" \/ Glued(m))
      /\ newline' = (c = "line" /\ (newline \/ k > 0))
  BY Zenon DEF Cut
<1> HIDE DEF m
<1>3. newline' \in BOOLEAN /\ malformed' \in BOOLEAN
  BY <1>2, Zenon
<1> QED BY <1>1, <1>2, <1>3, Zenon

\* The locals of a call that is over.
LEMMA ForgetTypes ==
    ASSUME TypeOK, NEW p \in Writer, Forget(p)
    PROVE  /\ pc' \in [Writer -> PC] /\ call' \in [Writer -> Commands \cup {Reseal}]
           /\ before' \in [Writer -> Nat] /\ batch' \in [Writer -> Seq(Event)]
           /\ res' \in [Writer -> SUBSET Nat]
           /\ pc'[p] = "idle" /\ res'[p] = {}
           /\ \A q \in Writer : q # p => pc'[q] = pc[q] /\ res'[q] = res[q]
<1>1. <<>> \in Seq(Event) /\ "idle" \in PC
  BY DEF PC
<1> QED BY <1>1 DEF TypeOK, Forget, Goto

LEMMA GotoTypes ==
    ASSUME TypeOK, NEW p \in Writer, NEW x \in PC, Goto(p, x)
    PROVE  /\ pc' \in [Writer -> PC] /\ pc'[p] = x
           /\ \A q \in Writer : q # p => pc'[q] = pc[q]
BY DEF TypeOK, Goto

LEMMA AnchorType ==
    ASSUME NEW l \in Nat, NEW x \in Nat
    PROVE  [len |-> l, last |-> x] \in Anchor
BY DEF Anchor

\* The steps of a writer in its section keep the types.
LEMMA SectionTypes ==
    ASSUME TypeOK, NEW p \in Writer,
           ReadLog(p) \/ AppendAtomic(p) \/ AppendFails(p) \/ WriteHead(p) \/ Verify(p)
             \/ ReadReseal(p) \/ Rewrite(p) \/ Rehead(p)
    PROVE  TypeOK'
<1> USE DEF At
<1>0. /\ alive \subseteq Writer /\ log \in Seq(Event)
      /\ newline \in BOOLEAN /\ malformed \in BOOLEAN /\ unsealed \in BOOLEAN
      /\ head \in Anchor \cup {None} /\ lock \in Lock \cup {None}
      /\ pc \in [Writer -> PC] /\ call \in [Writer -> Commands \cup {Reseal}]
      /\ before \in [Writer -> Nat] /\ batch \in [Writer -> Seq(Event)]
      /\ res \in [Writer -> SUBSET Nat]
      /\ ids \in Nat /\ merges \in 0 .. MaxMerge /\ acked \subseteq Nat
      /\ batch[p] \in Seq(Event) /\ Len(batch[p]) \in Nat /\ before[p] \in Nat
  BY DEF TypeOK
<1>1. CASE ReadLog(p)
  <2>1. UNCHANGED <<alive, log, newline, malformed, head, lock, call, merges, unsealed, acked>>
    BY <1>1 DEF ReadLog, file
  <2>2. call[p] \in Commands
    BY <1>0, <1>1 DEF ReadLog
  <2>3. CASE Refuse(p)
    <3>1. pc' \in [Writer -> PC] /\ UNCHANGED <<before, batch, res, ids>>
      BY <2>3, GotoTypes DEF Refuse, PC
    <3> QED BY <1>0, <2>1, <3>1 DEF TypeOK
  <2>4. CASE /\ res' = [res EXCEPT ![p] = Originals(log, call[p])]
             /\ Goto(p, "release") /\ UNCHANGED <<before, batch, ids>>
    <3>1. Originals(log, call[p]) \subseteq IdsOf(log)
      BY DEF Originals, IdsOf
    <3>2. Originals(log, call[p]) \in SUBSET Nat
      BY <1>0, <3>1, EventIds
    <3>3. res' \in [Writer -> SUBSET Nat]
      BY <1>0, <2>4, <3>2
    <3>4. pc' \in [Writer -> PC]
      BY <2>4, GotoTypes DEF PC
    <3> QED BY <1>0, <2>1, <2>4, <3>3, <3>4 DEF TypeOK
  <2>5. CASE /\ batch' = [batch EXCEPT ![p] = Frame(log, call[p], ids)]
             /\ before' = [before EXCEPT ![p] = Len(log)]
             /\ ids' = ids + Len(call[p].aggs)
             /\ Goto(p, "append") /\ UNCHANGED res
    <3>1. Frame(log, call[p], ids) \in Seq(Event)
      BY <1>0, <2>2, FrameFacts DEF IsFrame
    <3>2. Len(call[p].aggs) \in Nat /\ Len(log) \in Nat
      BY <1>0, <2>2, CommandFacts
    <3>3. pc' \in [Writer -> PC]
      BY <2>5, GotoTypes DEF PC
    <3>4. batch' \in [Writer -> Seq(Event)] /\ before' \in [Writer -> Nat] /\ ids' \in Nat
      BY <1>0, <2>5, <3>1, <3>2
    <3> QED BY <1>0, <2>1, <2>5, <3>3, <3>4 DEF TypeOK
  <2> QED BY <1>1, <2>3, <2>4, <2>5, Zenon DEF ReadLog
<1>2. CASE AppendAtomic(p)
  <2>1. Write(batch[p], Len(batch[p])) \in Seq(Event)
    BY <1>0, WriteFacts
  <2>2. log' \in Seq(Event) /\ newline' = TRUE
    BY <1>2, <2>1 DEF AppendAtomic
  <2>3. malformed' \in BOOLEAN
    BY <1>2, Zenon DEF AppendAtomic
  <2>4. pc' \in [Writer -> PC]
    BY <1>2, GotoTypes DEF AppendAtomic, PC
  <2>5. UNCHANGED <<alive, head, lock, call, before, batch, res, ids, merges, unsealed, acked>>
    BY <1>2 DEF AppendAtomic, world
  <2> QED BY <1>0, <2>2, <2>3, <2>4, <2>5 DEF TypeOK
<1>3. CASE AppendFails(p)
  <2>1. PICK k \in 0 .. (Len(batch[p]) - 1), c \in Cuts : Cut(batch[p], k, c)
    BY <1>3 DEF AppendFails
  <2>2. PICK m \in 0 .. Len(batch[p]) : /\ log' = Write(batch[p], m)
                                        /\ newline' \in BOOLEAN /\ malformed' \in BOOLEAN
    BY <1>0, <2>1, CutFacts
  <2>3. log' \in Seq(Event)
    BY <1>0, <2>2, WriteFacts
  <2>4. pc' \in [Writer -> PC]
    BY <1>3, GotoTypes DEF AppendFails, PC
  <2>5. UNCHANGED <<alive, head, lock, call, before, batch, res, ids, merges, unsealed, acked>>
    BY <1>3 DEF AppendFails, world
  <2> QED BY <1>0, <2>2, <2>3, <2>4, <2>5 DEF TypeOK
<1>4. CASE WriteHead(p)
  <2>1. before[p] + Len(batch[p]) \in Nat /\ LastId(batch[p]) \in Nat
    BY <1>0, LastIdFacts
  <2>2. head' \in Anchor \cup {None}
    BY <1>0, <1>4, <2>1, AnchorType DEF WriteHead
  <2>3. pc' \in [Writer -> PC]
    BY <1>4, GotoTypes DEF WriteHead, PC
  <2>4. UNCHANGED <<alive, log, newline, malformed, lock, call, before, batch, res, ids, merges, unsealed, acked>>
    BY <1>4 DEF WriteHead, world, file
  <2> QED BY <1>0, <2>2, <2>3, <2>4 DEF TypeOK
<1>5. CASE Verify(p)
  <2>1. IdsOf(batch[p]) \in SUBSET Nat
    BY <1>0, EventIds
  <2>2. PICK x \in SUBSET Nat : res' = [res EXCEPT ![p] = x]
    BY <1>5, <2>1 DEF Verify
  <2>3. res' \in [Writer -> SUBSET Nat]
    BY <1>0, <2>2
  <2>4. pc' \in [Writer -> PC]
    BY <1>5, GotoTypes DEF Verify, PC
  <2>5. UNCHANGED <<alive, log, newline, malformed, head, lock, call, before, batch, ids, merges, unsealed, acked>>
    BY <1>5 DEF Verify, world, file
  <2> QED BY <1>0, <2>3, <2>4, <2>5 DEF TypeOK
<1>6. CASE ReadReseal(p)
  <2>1. UNCHANGED <<alive, log, newline, malformed, head, lock, call, merges, unsealed, acked>>
    BY <1>6 DEF ReadReseal, file
  <2>2. CASE Refuse(p)
    <3>1. pc' \in [Writer -> PC] /\ UNCHANGED <<before, batch, res, ids>>
      BY <2>2, GotoTypes DEF Refuse, PC
    <3> QED BY <1>0, <2>1, <3>1 DEF TypeOK
  <2>3. CASE batch' = [batch EXCEPT ![p] = Resealed(log)] /\ Goto(p, "rewrite") /\ UNCHANGED <<before, res, ids>>
    <3>1. Resealed(log) \in Seq(Event)
      BY <1>0, ResealFacts
    <3>2. batch' \in [Writer -> Seq(Event)]
      BY <1>0, <2>3, <3>1
    <3>3. pc' \in [Writer -> PC]
      BY <2>3, GotoTypes DEF PC
    <3> QED BY <1>0, <2>1, <2>3, <3>2, <3>3 DEF TypeOK
  <2> QED BY <1>6, <2>2, <2>3, Zenon DEF ReadReseal
<1>7. CASE Rewrite(p)
  <2>1. log' \in Seq(Event) /\ newline' = TRUE /\ malformed' = FALSE
    BY <1>0, <1>7 DEF Rewrite
  <2>2. pc' \in [Writer -> PC]
    BY <1>7, GotoTypes DEF Rewrite, PC
  <2>3. UNCHANGED <<alive, head, lock, call, before, batch, res, ids, merges, unsealed, acked>>
    BY <1>7 DEF Rewrite, world
  <2> QED BY <1>0, <2>1, <2>2, <2>3 DEF TypeOK
<1>8. CASE Rehead(p)
  <2>1. Len(batch[p]) \in Nat /\ LastId(batch[p]) \in Nat
    BY <1>0, LastIdFacts
  <2>2. head' \in Anchor \cup {None} /\ unsealed' \in BOOLEAN
    BY <1>0, <1>8, <2>1, AnchorType DEF Rehead
  <2>3. pc' \in [Writer -> PC]
    BY <1>8, GotoTypes DEF Rehead, PC
  <2>4. UNCHANGED <<alive, log, newline, malformed, lock, call, before, batch, res, ids, merges, acked>>
    BY <1>8 DEF Rehead, file
  <2> QED BY <1>0, <2>2, <2>3, <2>4 DEF TypeOK
<1> QED BY <1>1, <1>2, <1>3, <1>4, <1>5, <1>6, <1>7, <1>8

\* A merge adds one line: a new event of the other branch, or a line that is here
\* in another frame.
LEMMA MergeFacts ==
    ASSUME TypeOK, Merge
    PROVE  \E e \in Event :
              /\ log' = Append(log, e)
              /\ head' \in Anchor \cup {None}
              /\ \/ e.id = ids + 1 /\ e.cmd = 0 /\ e.local = FALSE /\ ids' = ids + 1
                 \/ ids' = ids /\ \E j \in DOMAIN log : SameEvent(e, log[j])
<1>0. log \in Seq(Event) /\ Len(log) \in Nat /\ ids \in Nat /\ head \in Anchor \cup {None}
      /\ DOMAIN log = 1 .. Len(log)
  BY DEF TypeOK
<1> DEFINE at(m) == IF m = 0 THEN 0 ELSE log[m].id
           new(f, m) == [id |-> ids + 1, agg |-> f.agg, tok |-> f.tok, cmd |-> 0,
                         i |-> 0, n |-> 1, seq |-> NextSeq(log, f.agg, m + 1),
                         prev |-> at(m), local |-> FALSE]
           copy(j, m) == [log[j] EXCEPT !.prev = at(m), !.seq = NextSeq(log, log[j].agg, m + 1)]
<1>1. PICK m \in 0 .. Len(log) :
         \/ \E f \in Foreign : /\ log' = Append(log, new(f, m))
                              /\ head' \in {head, [len |-> m + 1, last |-> ids + 1]}
                              /\ ids' = ids + 1
         \/ \E j \in DOMAIN log \ (1 .. m) : /\ log' = Append(log, copy(j, m))
                                             /\ head' \in {head, [len |-> m + 1, last |-> log[j].id]}
                                             /\ ids' = ids
  BY Zenon DEF Merge
<1>2. at(m) \in Nat /\ m + 1 \in Nat /\ m + 1 \in 1 .. (Len(log) + 1)
  <2>1. m # 0 => log[m] \in Event
    BY <1>0
  <2>2. m # 0 => log[m].id \in Nat
    BY <2>1 DEF Event
  <2> QED BY <1>0, <2>2
<1>3. \A a : NextSeq(log, a, m + 1) \in Nat
  BY <1>0, <1>2, NextSeqLast
<1> HIDE DEF at
<1>4. ASSUME NEW f \in Foreign, log' = Append(log, new(f, m)),
             head' \in {head, [len |-> m + 1, last |-> ids + 1]}, ids' = ids + 1
      PROVE  \E e \in Event : /\ log' = Append(log, e)
                              /\ head' \in Anchor \cup {None}
                              /\ e.id = ids + 1 /\ e.cmd = 0 /\ e.local = FALSE /\ ids' = ids + 1
  <2>1. f.agg \in Agg /\ f.tok \in Token \cup {NoToken}
    BY ForeignAssumption
  <2>2. new(f, m) \in Event
    BY <1>0, <1>2, <1>3, <2>1 DEF Event
  <2>3. new(f, m).id = ids + 1 /\ new(f, m).cmd = 0 /\ new(f, m).local = FALSE
    OBVIOUS
  <2>4. head' \in Anchor \cup {None}
    BY <1>0, <1>2, <1>4, AnchorType
  <2> HIDE DEF new
  <2> QED BY <1>4, <2>2, <2>3, <2>4
<1>5. ASSUME NEW j \in DOMAIN log, log' = Append(log, copy(j, m)),
             head' \in {head, [len |-> m + 1, last |-> log[j].id]}, ids' = ids
      PROVE  \E e \in Event : /\ log' = Append(log, e)
                              /\ head' \in Anchor \cup {None}
                              /\ ids' = ids /\ SameEvent(e, log[j])
  <2>1. log[j] \in Event
    BY <1>0
  <2>2. log[j].id \in Nat
    BY <2>1 DEF Event
  <2>3. copy(j, m) \in Event /\ SameEvent(copy(j, m), log[j])
    <3> DEFINE q == NextSeq(log, log[j].agg, m + 1)
    <3>1. q \in Nat
      BY <1>3
    <3>2. copy(j, m) = [log[j] EXCEPT !.seq = q, !.prev = at(m)]
      BY <2>1 DEF Event
    <3> DEFINE g == [log[j] EXCEPT !.seq = q, !.prev = at(m)]
    <3> HIDE DEF q, copy
    <3>3. at(m) \in Nat
      BY <1>2
    <3>4. g \in Event /\ SameEvent(g, log[j])
      BY <2>1, <3>1, <3>3, FramedEvent
    <3> QED BY <3>2, <3>4, Zenon
  <2>4. head' \in Anchor \cup {None}
    BY <1>0, <1>2, <1>5, <2>2, AnchorType
  <2> HIDE DEF copy
  <2> QED BY <1>5, <2>3, <2>4
<1> HIDE DEF new, copy
<1> QED BY <1>1, <1>4, <1>5

\* Every step keeps the types.
LEMMA TypeStep == LInv /\ TypeOK /\ [Next]_vars => TypeOK'
<1> SUFFICES ASSUME LInv, TypeOK, [Next]_vars PROVE TypeOK'
  OBVIOUS
<1> USE DEF At
<1>0. /\ alive \subseteq Writer /\ log \in Seq(Event)
      /\ newline \in BOOLEAN /\ malformed \in BOOLEAN /\ unsealed \in BOOLEAN
      /\ head \in Anchor \cup {None} /\ lock' \in Lock \cup {None}
      /\ pc \in [Writer -> PC] /\ call \in [Writer -> Commands \cup {Reseal}]
      /\ before \in [Writer -> Nat] /\ batch \in [Writer -> Seq(Event)]
      /\ res \in [Writer -> SUBSET Nat]
      /\ ids \in Nat /\ merges \in 0 .. MaxMerge /\ acked \subseteq Nat
  BY LockStep DEF TypeOK, LInv
<1>1. ASSUME NEW p \in Writer, Begin(p) PROVE TypeOK'
  <2>1. call' \in [Writer -> Commands \cup {Reseal}]
    BY <1>0, <1>1 DEF Begin
  <2>2. pc' \in [Writer -> PC]
    BY <1>1, GotoTypes DEF Begin, PC
  <2> QED BY <1>0, <1>1, <2>1, <2>2 DEF TypeOK, Begin, file, world
<1>2. ASSUME NEW p \in Writer, CreateLock(p) PROVE TypeOK'
  <2>1. pc' \in [Writer -> PC]
    BY <1>2, GotoTypes DEF CreateLock, PC
  <2> QED BY <1>0, <1>2, <2>1 DEF TypeOK, CreateLock, file, world
<1>3. ASSUME NEW p \in Writer, TimeOut(p) PROVE TypeOK'
  <2>1. UNCHANGED <<file, head, world>> /\ Forget(p)
    BY <1>3 DEF TimeOut
  <2> QED BY <1>0, <2>1, ForgetTypes DEF TypeOK, file, world
<1>4. ASSUME NEW p \in Writer, Stamp(p) PROVE TypeOK'
  <2>1. UNCHANGED <<file, head, world>>
    BY <1>4 DEF Stamp
  <2>2. CASE Forget(p)
    BY <1>0, <2>1, <2>2, ForgetTypes DEF TypeOK, file, world
  <2>3. CASE Goto(p, "read") /\ UNCHANGED <<call, before, batch, res>>
    <3>1. pc' \in [Writer -> PC]
      BY <2>3, GotoTypes DEF PC
    <3> QED BY <1>0, <2>1, <2>3, <3>1 DEF TypeOK, file, world
  <2> QED BY <1>4, <2>2, <2>3 DEF Stamp
<1>5. ASSUME NEW p \in Writer, Release(p) PROVE TypeOK'
  <2>1. UNCHANGED <<file, head, alive, ids, merges, unsealed>> /\ Forget(p) /\ acked' = acked \cup res[p]
    BY <1>5 DEF Release
  <2>2. acked' \subseteq Nat
    BY <1>0, <2>1
  <2> QED BY <1>0, <2>1, <2>2, ForgetTypes DEF TypeOK, file
<1>6. ASSUME NEW p \in Writer, Crash(p) PROVE TypeOK'
  <2>1. /\ UNCHANGED <<head, ids, merges, unsealed, acked>> /\ Forget(p) /\ alive' \subseteq Writer
    BY <1>0, <1>6 DEF Crash
  <2>2. log' \in Seq(Event) /\ newline' \in BOOLEAN /\ malformed' \in BOOLEAN
    <3>1. CASE UNCHANGED file
      BY <1>0, <3>1 DEF file
    <3>2. CASE ~ UNCHANGED file
      <4>0. batch[p] \in Seq(Event) /\ Len(batch[p]) \in Nat
        BY <1>0
      <4>1. PICK k \in 0 .. (Len(batch[p]) - 1), c \in Cuts : Cut(batch[p], k, c)
        BY <1>6, <3>2 DEF Crash
      <4>2. PICK m \in 0 .. Len(batch[p]) : /\ log' = Write(batch[p], m)
                                            /\ newline' \in BOOLEAN /\ malformed' \in BOOLEAN
        BY <1>0, <4>0, <4>1, CutFacts
      <4> QED BY <1>0, <4>0, <4>2, WriteFacts
    <3> QED BY <3>1, <3>2
  <2> QED BY <1>0, <2>1, <2>2, ForgetTypes DEF TypeOK
<1>7. CASE RemoveOrphan
  BY <1>0, <1>7 DEF TypeOK, RemoveOrphan, file, world
<1>8. CASE Merge
  <2>1. PICK e \in Event : /\ log' = Append(log, e) /\ head' \in Anchor \cup {None}
                           /\ ids' \in {ids, ids + 1}
    BY <1>8, MergeFacts
  <2>2. log' \in Seq(Event) /\ ids' \in Nat
    BY <1>0, <2>1
  <2>3. merges' \in 0 .. MaxMerge
    <3>1. merges < MaxMerge /\ merges' = merges + 1
      BY <1>8, Zenon DEF Merge
    <3> QED BY <1>0, <3>1, BoundAssumption
  <2>4. unsealed' = TRUE /\ UNCHANGED <<alive, newline, malformed, pc, call, before, batch, res, acked>>
    BY <1>8 DEF Merge
  <2> QED BY <1>0, <2>1, <2>2, <2>3, <2>4 DEF TypeOK
<1>9. CASE UNCHANGED vars
  BY <1>0, <1>9 DEF TypeOK, vars
<1> QED
  BY <1>1, <1>2, <1>3, <1>4, <1>5, <1>6, <1>7, <1>8, <1>9, SectionTypes DEF Next, Step
-----------------------------------------------------------------------------
(* The inductive invariant. *)

\* What validate accepts, up to a batch that was cut at the end, with every id once.
Sound(s, h) == /\ Chained(s) /\ HeadAgrees(s, h) /\ Distinct(s)
               /\ BatchesWhole(s) \/ PartialTail(s)

Data == /\ Numbered(log, ids)
        /\ ExactlyOnce
        /\ ~malformed /\ ~unsealed => Sound(log, head)

\* A writer about to append has framed its command after the log as it still is.
Framed(p) == /\ call[p] \in Commands
             /\ ~malformed /\ Valid(log, head) /\ before[p] = Len(log)
             /\ Fresh(log, call[p])
             /\ \E made \in Nat : /\ ids = made + Len(call[p].aggs)
                                  /\ Numbered(log, made)
                                  /\ batch[p] = Frame(log, call[p], made)

Appended(p) == /\ batch[p] # <<>>
               /\ ~malformed => /\ Len(log) = before[p] + Len(batch[p])
                                /\ LastId(log) = LastId(batch[p])

Resealing(p) == /\ ~malformed
                /\ batch[p] = Resealed(log)
                /\ Chained(batch[p]) /\ BatchesWhole(batch[p])

Rewritten(p) == log = batch[p] /\ Chained(log) /\ BatchesWhole(log) /\ Distinct(log)

WriterOK(p) == /\ pc[p] = "append" => Framed(p)
               /\ pc[p] = "head" => Appended(p)
               /\ pc[p] = "rewrite" => Resealing(p)
               /\ pc[p] = "rehead" => Rewritten(p)

Writers == \A p \in alive : WriterOK(p)

\* Unless a write can lose its last '\n' alone, no line is continued by the next one,
\* and what a call will return or has returned is in the log.
Receipts == /\ newline \/ malformed
            /\ AckedKept
            /\ \A p \in Writer : res[p] \subseteq IdsOf(log)

IInv == LInv /\ TypeOK /\ Data /\ Writers /\ ("newline" \notin Faults => Receipts)

-----------------------------------------------------------------------------
(* The log. *)

\* ExactlyOnce of a log, and of the lines it is made of.
Once(s) == \A i, j \in DOMAIN s :
    /\ s[i].local /\ s[j].local
    /\ s[i].tok # NoToken /\ s[i].tok = s[j].tok /\ s[i].agg = s[j].agg
    => s[i].id - s[i].i = s[j].id - s[j].i

LEMMA OnceKept ==
    ASSUME NEW s, NEW t, Once(s),
           \A i \in DOMAIN t : t[i].local = FALSE \/ \E j \in DOMAIN s : SameEvent(t[i], s[j])
    PROVE  Once(t)
<1> SUFFICES ASSUME NEW i \in DOMAIN t, NEW j \in DOMAIN t,
                    t[i].local, t[j].local,
                    t[i].tok # NoToken, t[i].tok = t[j].tok, t[i].agg = t[j].agg
             PROVE  t[i].id - t[i].i = t[j].id - t[j].i
  BY DEF Once
<1>1. PICK k \in DOMAIN s : SameEvent(t[i], s[k])
  OBVIOUS
<1>2. PICK l \in DOMAIN s : SameEvent(t[j], s[l])
  OBVIOUS
<1>3. s[k].local /\ s[l].local /\ s[k].tok # NoToken /\ s[k].tok = s[l].tok /\ s[k].agg = s[l].agg
  BY <1>1, <1>2, Zenon DEF SameEvent
<1>4. s[k].id - s[k].i = s[l].id - s[l].i
  BY <1>3, Zenon DEF Once
<1> QED BY <1>1, <1>2, <1>4, Zenon DEF SameEvent

\* A fresh command adds the events of one command to the aggregates of its token.
LEMMA OnceFramed ==
    ASSUME NEW s \in Seq(Event), NEW c \in Commands, NEW made \in Nat, NEW t,
           Once(s), Fresh(s, c),
           \A i \in DOMAIN t : \/ \E j \in DOMAIN s : t[i] = s[j]
                              \/ \E k \in DOMAIN Frame(s, c, made) : t[i] = Frame(s, c, made)[k]
    PROVE  Once(t)
<1> DEFINE f == Frame(s, c, made)
           n == Len(c.aggs)
<1>1. n \in Nat /\ DOMAIN c.aggs = 1 .. n
  BY CommandFacts
<1>2. /\ f \in Seq(Event) /\ DOMAIN f = 1 .. n
      /\ \A k \in 1 .. n : f[k].id = made + k /\ f[k].agg = c.aggs[k] /\ f[k].tok = c.tok /\ f[k].i = k - 1
  <2>1. IsFrame(f, s, c, made)
    BY FrameFacts
  <2>2. f \in Seq(Event) /\ Len(f) = n
    BY <2>1, Zenon DEF IsFrame
  <2> HIDE DEF f
  <2>3. \A k \in 1 .. n : f[k].id = made + k /\ f[k].agg = c.aggs[k] /\ f[k].tok = c.tok /\ f[k].i = k - 1
    BY <2>1, Zenon DEF IsFrame
  <2> HIDE DEF n
  <2> QED BY <2>2, <2>3
<1>3. \A i \in DOMAIN t : (\E j \in DOMAIN s : t[i] = s[j]) \/ (\E k \in 1 .. n : t[i] = f[k])
  BY <1>2
<1> HIDE DEF f, n
<1>4. ASSUME NEW j \in DOMAIN s, NEW k \in 1 .. n, f[k].tok # NoToken
      PROVE  ~(s[j].tok = f[k].tok /\ s[j].agg = f[k].agg)
  <2>1. c.tok # NoToken /\ Present(s, c) = {}
    BY <1>2, <1>4 DEF Fresh
  <2>2. c.aggs[k] \in {c.aggs[l] : l \in DOMAIN c.aggs}
    BY <1>1
  <2>3. ~(s[j].tok = c.tok /\ s[j].agg = c.aggs[k])
    BY <2>1, <2>2 DEF Present
  <2> QED BY <1>2, <2>3
<1>5. \A k \in 1 .. n : f[k].id - f[k].i = made + 1
  <2>1. \A k \in 1 .. n : (made + k) - (k - 1) = made + 1
    BY <1>1
  <2> QED BY <1>2, <2>1
<1> SUFFICES ASSUME NEW i \in DOMAIN t, NEW j \in DOMAIN t,
                    t[i].local, t[j].local,
                    t[i].tok # NoToken, t[i].tok = t[j].tok, t[i].agg = t[j].agg
             PROVE  t[i].id - t[i].i = t[j].id - t[j].i
  BY DEF Once
<1>6. CASE (\E k \in DOMAIN s : t[i] = s[k]) /\ (\E l \in DOMAIN s : t[j] = s[l])
  <2>1. PICK k \in DOMAIN s : t[i] = s[k]
    BY <1>6
  <2>2. PICK l \in DOMAIN s : t[j] = s[l]
    BY <1>6
  <2>3. /\ s[k].local /\ s[l].local
        /\ s[k].tok # NoToken /\ s[k].tok = s[l].tok /\ s[k].agg = s[l].agg
    BY <2>1, <2>2, Zenon
  <2>4. s[k].id - s[k].i = s[l].id - s[l].i
    BY <2>3, Zenon DEF Once
  <2> QED BY <2>1, <2>2, <2>4, Zenon
<1>7. CASE (\E k \in 1 .. n : t[i] = f[k]) /\ (\E l \in 1 .. n : t[j] = f[l])
  BY <1>5, <1>7, Zenon
<1>8. CASE (\E k \in DOMAIN s : t[i] = s[k]) /\ (\E l \in 1 .. n : t[j] = f[l])
  <2>1. PICK k \in DOMAIN s : t[i] = s[k]
    BY <1>8
  <2>2. PICK l \in 1 .. n : t[j] = f[l]
    BY <1>8
  <2>3. f[l].tok # NoToken /\ s[k].tok = f[l].tok /\ s[k].agg = f[l].agg
    BY <2>1, <2>2, Zenon
  <2> QED BY <1>4, <2>3, Zenon
<1>9. CASE (\E k \in 1 .. n : t[i] = f[k]) /\ (\E l \in DOMAIN s : t[j] = s[l])
  <2>1. PICK k \in 1 .. n : t[i] = f[k]
    BY <1>9
  <2>2. PICK l \in DOMAIN s : t[j] = s[l]
    BY <1>9
  <2>3. f[k].tok # NoToken /\ s[l].tok = f[k].tok /\ s[l].agg = f[k].agg
    BY <2>1, <2>2, Zenon
  <2> QED BY <1>4, <2>3, Zenon
<1> QED BY <1>3, <1>6, <1>7, <1>8, <1>9, Zenon

\* m lines of a framed command reach the file.
LEMMA WrittenData ==
    ASSUME IInv, NEW p \in alive, pc[p] = "append", NEW m \in 0 .. Len(batch[p]),
           log' = Write(batch[p], m), malformed' \/ ~Glued(m),
           head' = head, ids' = ids, unsealed' = unsealed
    PROVE  /\ Data'
           /\ ~Glued(m) => IdsOf(log) \subseteq IdsOf(log')
           /\ ~Glued(m) /\ m = Len(batch[p]) =>
                 Len(log') = Len(log) + m /\ LastId(log') = LastId(batch[p])
<1> DEFINE c == call[p]
           n == Len(c.aggs)
           t == Write(batch[p], m)
<1>1. Framed(p) /\ log \in Seq(Event) /\ batch[p] \in Seq(Event) /\ head \in Anchor \cup {None}
      /\ ids \in Nat
  BY DEF IInv, Writers, WriterOK, TypeOK, LInv
<1>2. PICK made \in Nat : /\ ids = made + n /\ Numbered(log, made)
                          /\ batch[p] = Frame(log, c, made)
  BY <1>1 DEF Framed
<1>3. /\ c \in Commands /\ Chained(log) /\ BatchesWhole(log) /\ HeadAgrees(log, head)
      /\ Fresh(log, c) /\ Once(log) /\ ~malformed
  BY <1>1, Zenon DEF Framed, Valid, IInv, Data, ExactlyOnce, Once
<1>4. /\ Len(batch[p]) = n /\ batch[p] # <<>> /\ n \in Nat /\ m \in 0 .. n
      /\ \A k \in 1 .. n : batch[p][k].id = made + k /\ batch[p][k].cmd = (IF n > 1 THEN made + 1 ELSE 0)
      /\ DOMAIN batch[p] = 1 .. n
  <2> DEFINE f == Frame(log, c, made)
  <2>1. /\ f \in Seq(Event) /\ Len(f) = n /\ f # <<>>
        /\ \A k \in 1 .. n : f[k].id = made + k /\ f[k].cmd = (IF n > 1 THEN made + 1 ELSE 0)
    <3>1. log \in Seq(Event) /\ c \in Commands
      BY <1>1, <1>3
    <3>2. IsFrame(f, log, c, made)
      BY <3>1, FrameFacts
    <3> HIDE DEF c, f
    <3> QED BY <3>2, Zenon DEF IsFrame
  <2>2. n \in Nat
    BY <1>3, CommandFacts
  <2>3. batch[p] = f
    BY <1>2
  <2> HIDE DEF f, n
  <2> QED BY <2>1, <2>2, <2>3
<1>5. /\ t \in Seq(Event)
      /\ \A i \in DOMAIN t : \/ \E j \in DOMAIN log : t[i] = log[j]
                             \/ \E j \in DOMAIN batch[p] : t[i] = batch[p][j]
      /\ ~Glued(m) => Extends(t, log, batch[p], m)
  BY <1>1, WriteFacts
<1> HIDE DEF c, n, t
<1>6. Numbered(t, ids)
  <2>1. \A j \in DOMAIN log : log[j].id \in 1 .. ids /\ log[j].cmd \in 0 .. ids
    BY <1>2, <1>4 DEF Numbered
  <2>2. \A k \in 1 .. n : batch[p][k].id \in 1 .. ids /\ batch[p][k].cmd \in 0 .. ids
    BY <1>2, <1>4
  <2> QED BY <1>4, <1>5, <2>1, <2>2 DEF Numbered
<1>7. Once(t)
  <2> DEFINE f == Frame(log, c, made)
  <2>1. \A i \in DOMAIN t : (\E j \in DOMAIN log : t[i] = log[j]) \/ (\E j \in DOMAIN f : t[i] = f[j])
    BY <1>2, <1>5, Zenon
  <2> QED BY <1>1, <1>3, <2>1, OnceFramed
<1>8. ASSUME ~Glued(m)
      PROVE  /\ Extends(t, log, batch[p], m)
             /\ Chained(t) /\ HeadAgrees(t, head) /\ (BatchesWhole(t) \/ PartialTail(t))
             /\ Distinct(log) => Distinct(t)
  <2>1. Extends(t, log, Frame(log, c, made), m)
    BY <1>2, <1>5, <1>8
  <2>2. m \in 0 .. Len(c.aggs) /\ m \in Nat
    BY <1>4 DEF n
  <2>3. Chained(t)
    BY <1>1, <1>3, <2>1, <2>2, FrameChained
  <2>4. HeadAgrees(t, head)
    BY <1>1, <1>3, <2>1, <2>2, HeadKept
  <2>5. BatchesWhole(t) \/ PartialTail(t)
    BY <1>1, <1>2, <1>3, <2>1, <2>2, FrameBatches
  <2>6. Distinct(log) => Distinct(t)
    BY <1>1, <1>2, <1>3, <2>1, <2>2, FrameDistinct
  <2> QED BY <1>2, <2>1, <2>3, <2>4, <2>5, <2>6
<1>9. log' = t
  BY DEF t
<1>10. ~malformed' /\ ~unsealed' => Sound(t, head)
  <2>1. ~unsealed => Distinct(log)
    BY <1>3, Zenon DEF IInv, Data, Sound
  <2> QED BY <1>8, <2>1, Zenon DEF Sound
<1>11. Data'
  <2>1. Numbered(log', ids') /\ Once(log')
    BY <1>6, <1>7, <1>9, Zenon
  <2>2. ~malformed' /\ ~unsealed' => Sound(log', head')
    BY <1>9, <1>10, Zenon
  <2> QED BY <2>1, <2>2, Zenon DEF Data, Once, ExactlyOnce
<1>12. ASSUME ~Glued(m) PROVE IdsOf(log) \subseteq IdsOf(log')
  BY <1>8, <1>9, <1>12, ExtendedIds
<1>13. ASSUME ~Glued(m), m = Len(batch[p])
       PROVE  Len(log') = Len(log) + m /\ LastId(log') = LastId(batch[p])
  <2>1. Extends(t, log, batch[p], m)
    BY <1>8, <1>13
  <2>2. /\ Len(t) = Len(log) + m /\ t \in Seq(Event) /\ Len(log) \in Nat
        /\ \A k \in 1 .. m : t[Len(log) + k] = batch[p][k]
    BY <2>1 DEF Extends
  <2>3. m \in 1 .. m /\ t # <<>>
    BY <1>1, <1>4, <1>13, <2>2
  <2>4. t[Len(t)] = batch[p][Len(batch[p])]
    BY <1>13, <2>2, <2>3
  <2>5. LastId(t) = t[Len(t)].id /\ LastId(batch[p]) = batch[p][Len(batch[p])].id
    BY <1>1, <1>4, <2>2, <2>3, LastIdFacts
  <2> QED BY <1>9, <2>2, <2>4, <2>5
<1> QED BY <1>11, <1>12, <1>13

\* A write that is cut, by an error or by the death of the writer.
LEMMA CutData ==
    ASSUME IInv, NEW p \in alive, pc[p] = "append",
           NEW k \in 0 .. (Len(batch[p]) - 1), NEW c \in Cuts, Cut(batch[p], k, c),
           head' = head, ids' = ids, unsealed' = unsealed
    PROVE  /\ Data'
           /\ newline => IdsOf(log) \subseteq IdsOf(log')
           /\ "newline" \notin Faults /\ newline => newline' \/ malformed'
<1>1. batch[p] \in Seq(Event) /\ Len(batch[p]) \in Nat /\ newline \in BOOLEAN /\ malformed \in BOOLEAN
  BY DEF IInv, LInv, TypeOK
<1>2. PICK m \in 0 .. Len(batch[p]) : /\ log' = Write(batch[p], m)
                                      /\ malformed' = (malformed \/ c = "torn" \/ Glued(m))
                                      /\ newline' = (c = "line" /\ (newline \/ k > 0))
  BY <1>1, CutFacts
<1>3. malformed' \/ ~Glued(m)
  BY <1>2, Zenon
<1>4. newline => ~Glued(m)
  BY Zenon DEF Glued
<1>5. "newline" \notin Faults /\ newline => newline' \/ malformed'
  <2>1. "newline" \notin Faults => c = "line" \/ c = "torn"
    BY DEF Cuts
  <2> QED BY <1>2, <2>1, Zenon
<1>6. Data' /\ (~Glued(m) => IdsOf(log) \subseteq IdsOf(log'))
  BY <1>2, <1>3, WrittenData
<1> QED BY <1>4, <1>5, <1>6, Zenon

\* The reseal of a log without copies keeps every line at its place.
LEMMA RewriteData ==
    ASSUME IInv, NEW p \in alive, Rewrite(p)
    PROVE  Data' /\ IdsOf(log') = IdsOf(log) /\ Rewritten(p)'
<1> DEFINE t == batch[p]
<1>1. /\ log' = t /\ pc[p] = "rewrite"
      /\ UNCHANGED <<head, batch, ids, unsealed>>
  BY DEF Rewrite, At, world
<1>2. Resealing(p) /\ log \in Seq(Event) /\ head \in Anchor \cup {None}
  BY <1>1 DEF IInv, Writers, WriterOK, TypeOK
<1>3. t = Resealed(log) /\ Chained(t) /\ BatchesWhole(t) /\ ~malformed
  BY <1>2 DEF Resealing
<1> HIDE DEF t
<1>4. /\ t \in Seq(Event) /\ Distinct(t) /\ IdsOf(t) = IdsOf(log)
      /\ \A k \in DOMAIN t : \E i \in DOMAIN log : SameEvent(t[k], log[i])
      /\ Distinct(log) => Len(t) = Len(log) /\ \A k \in DOMAIN t : t[k].id = log[k].id
  BY <1>2, <1>3, ResealFacts
<1>5. Numbered(t, ids)
  <2>1. \A i \in DOMAIN log : log[i].id \in 1 .. ids /\ log[i].cmd \in 0 .. ids
    BY DEF IInv, Data, Numbered
  <2>2. \A k \in DOMAIN t : t[k].id \in 1 .. ids /\ t[k].cmd \in 0 .. ids
    BY <1>4, <2>1 DEF SameEvent
  <2> QED BY <2>2 DEF Numbered
<1>6. Once(t)
  <2>1. Once(log)
    BY Zenon DEF IInv, Data, ExactlyOnce, Once
  <2> QED BY <1>4, <2>1, OnceKept
<1>7. ASSUME ~unsealed PROVE Sound(t, head)
  <2>1. Sound(log, head)
    BY <1>3, <1>7, Zenon DEF IInv, Data
  <2>2. Distinct(log) /\ HeadAgrees(log, head)
    BY <2>1 DEF Sound
  <2>3. Len(t) = Len(log) /\ \A k \in DOMAIN t : t[k].id = log[k].id
    BY <1>4, <2>2
  <2>4. HeadAgrees(t, head)
    <3>1. CASE head = None
      BY <3>1 DEF HeadAgrees
    <3>2. CASE head # None
      <4>1. head.len \in Nat /\ head.len <= Len(log) /\ (head.len # 0 => log[head.len].id = head.last)
        BY <1>2, <2>2, <3>2 DEF HeadAgrees, Anchor
      <4>2. head.len # 0 => head.len \in DOMAIN t
        BY <1>4, <2>3, <4>1
      <4> QED BY <2>3, <4>1, <4>2 DEF HeadAgrees
    <3> QED BY <3>1, <3>2
  <2> QED BY <1>3, <1>4, <2>4 DEF Sound
<1>8. Data'
  <2>1. Numbered(log', ids') /\ Once(log') /\ (~unsealed' => Sound(log', head'))
    BY <1>1, <1>5, <1>6, <1>7, Zenon
  <2> QED BY <2>1, Zenon DEF Data, Once, ExactlyOnce
<1>9. Rewritten(p)'
  BY <1>1, <1>3, <1>4 DEF Rewritten, t
<1> QED BY <1>1, <1>4, <1>8, <1>9

LEMMA MergeData ==
    ASSUME IInv, Merge
    PROVE  Data' /\ IdsOf(log) \subseteq IdsOf(log')
<1>1. log \in Seq(Event) /\ ids \in Nat /\ TypeOK
  BY DEF IInv, TypeOK
<1>2. PICK e \in Event :
        /\ log' = Append(log, e)
        /\ \/ e.id = ids + 1 /\ e.cmd = 0 /\ e.local = FALSE /\ ids' = ids + 1
           \/ ids' = ids /\ \E j \in DOMAIN log : SameEvent(e, log[j])
  BY <1>1, MergeFacts
<1> DEFINE t == Append(log, e)
<1>3. \A i \in DOMAIN t : t[i] = e \/ (i \in DOMAIN log /\ t[i] = log[i])
  BY <1>1
<1>4. \A i \in DOMAIN log : i \in DOMAIN t /\ t[i] = log[i]
  BY <1>1
<1> HIDE DEF t
<1>5. \A i \in DOMAIN log : log[i].id \in 1 .. ids /\ log[i].cmd \in 0 .. ids
  BY DEF IInv, Data, Numbered
<1>6. /\ \A i \in DOMAIN log : log[i].id \in 1 .. ids' /\ log[i].cmd \in 0 .. ids'
      /\ e.id \in 1 .. ids' /\ e.cmd \in 0 .. ids'
  BY <1>1, <1>2, <1>5 DEF SameEvent
<1>7. Numbered(t, ids')
  BY <1>3, <1>6 DEF Numbered
<1>8. Once(t)
  <2>1. Once(log)
    BY Zenon DEF IInv, Data, ExactlyOnce, Once
  <2>2. \A i \in DOMAIN log : SameEvent(log[i], log[i])
    BY DEF SameEvent
  <2>3. \A i \in DOMAIN t : t[i].local = FALSE \/ \E j \in DOMAIN log : SameEvent(t[i], log[j])
    BY <1>2, <1>3, <2>2
  <2> QED BY <2>1, <2>3, OnceKept
<1>9. unsealed' = TRUE
  BY DEF Merge
<1>10. log' = t
  BY <1>2 DEF t
<1>11. Data'
  <2>1. Numbered(log', ids') /\ Once(log')
    BY <1>7, <1>8, <1>10, Zenon
  <2> QED BY <1>9, <2>1, Zenon DEF Data, Once, ExactlyOnce
<1>12. IdsOf(log) \subseteq IdsOf(log')
  BY <1>4, <1>10 DEF IdsOf
<1> QED BY <1>11, <1>12

\* The steps that leave the file, the head and the numbers as they are.
LEMMA SameData ==
    ASSUME IInv, log' = log, malformed' = malformed, head' = head, ids' = ids, unsealed' = unsealed
    PROVE  Data'
BY DEF IInv, Data, ExactlyOnce

\* No step disturbs what is claimed of the log.
LEMMA DataStep == IInv /\ [Next]_vars => Data'
<1> SUFFICES ASSUME IInv, [Next]_vars PROVE Data'
  OBVIOUS
<1> USE DEF At
<1>0. TypeOK /\ LInv /\ Data /\ Writers
  BY DEF IInv
<1>1. ASSUME NEW p \in Writer, Begin(p) \/ CreateLock(p) \/ TimeOut(p) \/ Stamp(p) \/ Verify(p)
             \/ ReadReseal(p) \/ Release(p)
      PROVE  Data'
  <2>1. log' = log /\ malformed' = malformed /\ head' = head /\ ids' = ids /\ unsealed' = unsealed
    BY <1>1 DEF Begin, CreateLock, TimeOut, Stamp, Verify, ReadReseal, Refuse, Release, file, world
  <2> QED BY <2>1, SameData
<1>2. ASSUME NEW p \in Writer, ReadLog(p) PROVE Data'
  <2>1. log' = log /\ malformed' = malformed /\ head' = head /\ unsealed' = unsealed
    BY <1>2 DEF ReadLog, file
  <2>2. CASE ids' = ids
    BY <2>1, <2>2, SameData
  <2>3. CASE ids' = ids + Len(call[p].aggs)
    <3>1. call[p] \in Commands /\ ids \in Nat
      BY <1>0, <1>2 DEF ReadLog, TypeOK
    <3>2. ids' \in Nat /\ ids <= ids'
      BY <2>3, <3>1, CommandFacts
    <3>3. Numbered(log, ids')
      <4>1. \A i \in DOMAIN log : log[i].id \in 1 .. ids /\ log[i].cmd \in 0 .. ids
        BY <1>0 DEF Data, Numbered
      <4>2. \A i \in DOMAIN log : log[i].id \in 1 .. ids' /\ log[i].cmd \in 0 .. ids'
        BY <3>1, <3>2, <4>1
      <4> QED BY <4>2 DEF Numbered
    <3> QED BY <1>0, <2>1, <3>3 DEF Data, ExactlyOnce
  <2> QED BY <1>2, <2>2, <2>3 DEF ReadLog, Refuse
<1>3. ASSUME NEW p \in Writer, AppendAtomic(p) PROVE Data'
  <2>1. /\ p \in alive /\ pc[p] = "append" /\ head' = head /\ ids' = ids /\ unsealed' = unsealed
        /\ log' = Write(batch[p], Len(batch[p]))
        /\ malformed' \/ ~Glued(Len(batch[p]))
    BY <1>3, Zenon DEF AppendAtomic, world
  <2>2. Len(batch[p]) \in 0 .. Len(batch[p])
    BY <1>0 DEF TypeOK
  <2> QED BY <2>1, <2>2, WrittenData
<1>4. ASSUME NEW p \in Writer, AppendFails(p) PROVE Data'
  <2>1. p \in alive /\ pc[p] = "append" /\ head' = head /\ ids' = ids /\ unsealed' = unsealed
    BY <1>4 DEF AppendFails, world
  <2>2. PICK k \in 0 .. (Len(batch[p]) - 1), c \in Cuts : Cut(batch[p], k, c)
    BY <1>4 DEF AppendFails
  <2> QED BY <2>1, <2>2, CutData
<1>5. ASSUME NEW p \in Writer, Crash(p) PROVE Data'
  <2>1. p \in alive /\ head' = head /\ ids' = ids /\ unsealed' = unsealed
    BY <1>5 DEF Crash
  <2>2. CASE UNCHANGED file
    BY <2>1, <2>2, SameData DEF file
  <2>3. CASE ~ UNCHANGED file
    <3>1. pc[p] = "append"
      BY <1>5, <2>3 DEF Crash
    <3>2. PICK k \in 0 .. (Len(batch[p]) - 1), c \in Cuts : Cut(batch[p], k, c)
      BY <1>5, <2>3 DEF Crash
    <3> QED BY <2>1, <3>1, <3>2, CutData
  <2> QED BY <2>2, <2>3
<1>6. ASSUME NEW p \in Writer, WriteHead(p) PROVE Data'
  <2>1. /\ p \in alive /\ pc[p] = "head" /\ log' = log /\ malformed' = malformed
        /\ ids' = ids /\ unsealed' = unsealed
    BY <1>6 DEF WriteHead, file, world
  <2>2. CASE head' = head
    BY <2>1, <2>2, SameData
  <2>3. CASE head' = [len |-> before[p] + Len(batch[p]), last |-> LastId(batch[p])]
    <3>1. Appended(p) /\ log \in Seq(Event) /\ before[p] \in Nat /\ batch[p] \in Seq(Event)
      BY <1>0, <2>1 DEF Writers, WriterOK, TypeOK
    <3>2. ASSUME ~malformed PROVE HeadAgrees(log, head')
      <4>1. /\ Len(log) = before[p] + Len(batch[p]) /\ LastId(log) = LastId(batch[p])
            /\ Len(batch[p]) \in Nat /\ Len(batch[p]) # 0
        BY <3>1, <3>2 DEF Appended
      <4>2. log # <<>> /\ Len(log) # 0
        BY <3>1, <4>1
      <4>3. log[Len(log)].id = LastId(log)
        BY <3>1, <4>2, LastIdFacts
      <4>4. head'.len = Len(log) /\ head'.last = LastId(log)
        BY <2>3, <4>1
      <4> QED BY <3>1, <4>2, <4>3, <4>4 DEF HeadAgrees
    <3>3. ~malformed' /\ ~unsealed' => Sound(log, head')
      BY <1>0, <2>1, <3>2, Zenon DEF Data, Sound
    <3> QED BY <1>0, <2>1, <3>3 DEF Data, ExactlyOnce
  <2> QED BY <1>6, <2>2, <2>3 DEF WriteHead
<1>7. ASSUME NEW p \in Writer, Rewrite(p) PROVE Data'
  BY <1>7, RewriteData DEF Rewrite
<1>8. ASSUME NEW p \in Writer, Rehead(p) PROVE Data'
  <2>1. /\ p \in alive /\ pc[p] = "rehead" /\ log' = log /\ malformed' = malformed /\ ids' = ids
    BY <1>8 DEF Rehead, file
  <2>2. CASE head' = head /\ unsealed' = unsealed
    BY <2>1, <2>2, SameData
  <2>3. CASE head' = [len |-> Len(batch[p]), last |-> LastId(batch[p])]
    <3>1. Rewritten(p) /\ log \in Seq(Event)
      BY <1>0, <2>1 DEF Writers, WriterOK, TypeOK
    <3>2. head'.len = Len(log) /\ head'.last = LastId(log)
      BY <2>3, <3>1 DEF Rewritten
    <3>3. Len(log) # 0 => log[Len(log)].id = LastId(log)
      BY <3>1, LastIdFacts
    <3>4. HeadAgrees(log, head')
      BY <3>1, <3>2, <3>3 DEF HeadAgrees
    <3>5. Sound(log, head')
      BY <3>1, <3>4 DEF Sound, Rewritten
    <3> QED BY <1>0, <2>1, <3>5 DEF Data, ExactlyOnce
  <2> QED BY <1>8, <2>2, <2>3 DEF Rehead
<1>9. CASE RemoveOrphan \/ UNCHANGED vars
  <2>1. log' = log /\ malformed' = malformed /\ head' = head /\ ids' = ids /\ unsealed' = unsealed
    BY <1>9 DEF RemoveOrphan, vars, file, world
  <2> QED BY <2>1, SameData
<1>10. CASE Merge
  BY <1>10, MergeData
<1> QED
  BY <1>1, <1>2, <1>3, <1>4, <1>5, <1>6, <1>7, <1>8, <1>9, <1>10 DEF Next, Step

-----------------------------------------------------------------------------
(* The writers. *)

Busy == {"append", "head", "rewrite", "rehead"}

LEMMA QuietWriter ==
    ASSUME NEW q, pc'[q] \notin Busy
    PROVE  WriterOK(q)'
BY DEF WriterOK, Busy

\* A step of p inside the section: every other running writer is outside.
LEMMA OtherWriters ==
    ASSUME IInv, NEW p \in alive, pc[p] \in Section, alive' \subseteq alive,
           \A q \in Writer : q # p => pc'[q] = pc[q]
    PROVE  \A q \in alive' : q # p => WriterOK(q)'
<1> SUFFICES ASSUME NEW q \in alive', q # p PROVE WriterOK(q)'
  OBVIOUS
<1>1. q \in alive /\ q \in Writer /\ pc'[q] = pc[q] /\ pc[q] \notin Section
  BY DEF IInv, LInv, SectionOwned
<1>2. pc'[q] \notin Busy
  BY <1>1 DEF Busy, Section, PC
<1> QED BY <1>2, QuietWriter

\* A step of p that leaves the file, the head and the numbers, and ends outside
\* the four busy places.
LEMMA IdleStep ==
    ASSUME IInv, NEW p \in Writer, alive' \subseteq alive,
           log' = log, malformed' = malformed, head' = head, ids' = ids,
           \A q \in Writer : q # p => /\ pc'[q] = pc[q] /\ call'[q] = call[q]
                                      /\ before'[q] = before[q] /\ batch'[q] = batch[q],
           pc'[p] \notin Busy
    PROVE  Writers'
<1> SUFFICES ASSUME NEW q \in alive' PROVE WriterOK(q)'
  BY DEF Writers
<1>1. CASE q = p
  BY <1>1, QuietWriter
<1>2. CASE q # p
  <2>1. q \in alive /\ q \in Writer /\ WriterOK(q)
    BY DEF IInv, LInv, Writers
  <2>2. pc'[q] = pc[q] /\ call'[q] = call[q] /\ before'[q] = before[q] /\ batch'[q] = batch[q]
    BY <1>2, <2>1
  <2>3. /\ Framed(q) => Framed(q)'
        /\ Appended(q) => Appended(q)'
        /\ Resealing(q) => Resealing(q)'
        /\ Rewritten(q) => Rewritten(q)'
    BY <2>2 DEF Framed, Appended, Resealing, Rewritten
  <2> QED BY <2>1, <2>2, <2>3 DEF WriterOK
<1> QED BY <1>1, <1>2

LEMMA ForgetLocals ==
    ASSUME TypeOK, NEW p \in Writer, Forget(p)
    PROVE  /\ pc'[p] = "idle"
           /\ \A q \in Writer : q # p => /\ pc'[q] = pc[q] /\ call'[q] = call[q]
                                          /\ before'[q] = before[q] /\ batch'[q] = batch[q]
BY DEF TypeOK, Forget, Goto

\* What a writer has computed from the log holds until it uses it.
LEMMA WritersStep == IInv /\ [Next]_vars => Writers'
<1> SUFFICES ASSUME IInv, [Next]_vars PROVE Writers'
  OBVIOUS
<1> USE DEF At
<1>0. TypeOK /\ LInv /\ Data /\ Writers
  BY DEF IInv
<1>1. ASSUME NEW p \in Writer, Begin(p) \/ CreateLock(p) PROVE Writers'
  <2>1. /\ alive' = alive /\ log' = log /\ malformed' = malformed /\ head' = head /\ ids' = ids
        /\ UNCHANGED <<before, batch>>
        /\ \E x \in {"wait", "stamp"} : Goto(p, x)
        /\ \A q \in Writer : q # p => call'[q] = call[q]
    BY <1>0, <1>1 DEF Begin, CreateLock, file, world, TypeOK
  <2>2. pc'[p] \notin Busy /\ \A q \in Writer : q # p => pc'[q] = pc[q]
    BY <1>0, <2>1, GotoTypes DEF PC, Busy
  <2> QED BY <2>1, <2>2, IdleStep
<1>2. ASSUME NEW p \in Writer, TimeOut(p) \/ Release(p) PROVE Writers'
  <2>1. /\ alive' = alive /\ log' = log /\ malformed' = malformed /\ head' = head /\ ids' = ids
        /\ Forget(p)
    BY <1>2 DEF TimeOut, Release, file, world
  <2>2. pc'[p] \notin Busy
    BY <1>0, <2>1, ForgetLocals DEF Busy
  <2> QED BY <1>0, <2>1, <2>2, ForgetLocals, IdleStep
<1>3. ASSUME NEW p \in Writer, Stamp(p) PROVE Writers'
  <2>1. alive' = alive /\ log' = log /\ malformed' = malformed /\ head' = head /\ ids' = ids
    BY <1>3 DEF Stamp, file, world
  <2>2. CASE Forget(p)
    <3>1. pc'[p] \notin Busy
      BY <1>0, <2>2, ForgetLocals DEF Busy
    <3> QED BY <1>0, <2>1, <2>2, <3>1, ForgetLocals, IdleStep
  <2>3. CASE Goto(p, "read") /\ UNCHANGED <<call, before, batch, res>>
    <3>1. pc'[p] \notin Busy /\ \A q \in Writer : q # p => pc'[q] = pc[q]
      BY <1>0, <2>3, GotoTypes DEF PC, Busy
    <3> QED BY <2>1, <2>3, <3>1, IdleStep
  <2> QED BY <1>3, <2>2, <2>3 DEF Stamp
<1>4. ASSUME NEW p \in Writer, p \in alive, pc[p] \in Section, alive' \subseteq alive,
             NEW x \in PC, Goto(p, x), WriterOK(p)'
      PROVE  Writers'
  <2>1. \A q \in Writer : q # p => pc'[q] = pc[q]
    BY <1>0, <1>4, GotoTypes
  <2>2. \A q \in alive' : q # p => WriterOK(q)'
    BY <1>4, <2>1, OtherWriters
  <2> QED BY <1>4, <2>2 DEF Writers
<1>5. ASSUME NEW p \in Writer, p \in alive, pc[p] \in Section, alive' \subseteq alive,
             NEW x \in PC \ Busy, Goto(p, x)
      PROVE  Writers'
  <2>1. pc'[p] \notin Busy
    BY <1>0, <1>5, GotoTypes
  <2> QED BY <1>4, <1>5, <2>1, QuietWriter
<1>6. ASSUME NEW p \in Writer, AppendFails(p) \/ Verify(p) \/ Rehead(p) PROVE Writers'
  <2>1. p \in alive /\ pc[p] \in Section /\ alive' = alive /\ Goto(p, "release")
    BY <1>6 DEF AppendFails, Verify, Rehead, Section, PC, world
  <2> QED BY <1>5, <2>1 DEF PC, Busy
<1>7. ASSUME NEW p \in Writer, ReadLog(p) PROVE Writers'
  <2>1. /\ p \in alive /\ pc[p] \in Section /\ alive' = alive /\ call' = call
        /\ log' = log /\ malformed' = malformed /\ head' = head
    BY <1>7 DEF ReadLog, Section, PC, file
  <2>2. CASE Goto(p, "release")
    BY <1>5, <2>1, <2>2 DEF PC, Busy
  <2>3. CASE /\ ~malformed /\ Valid(log, head) /\ Fresh(log, call[p])
             /\ batch' = [batch EXCEPT ![p] = Frame(log, call[p], ids)]
             /\ before' = [before EXCEPT ![p] = Len(log)]
             /\ ids' = ids + Len(call[p].aggs)
             /\ Goto(p, "append")
    <3>1. call[p] \in Commands /\ ids \in Nat /\ Numbered(log, ids)
      BY <1>0, <1>7 DEF ReadLog, TypeOK, Data
    <3>2. batch'[p] = Frame(log, call[p], ids) /\ before'[p] = Len(log) /\ pc'[p] = "append"
      BY <1>0, <2>3 DEF TypeOK, Goto
    <3>3. Framed(p)'
      BY <2>1, <2>3, <3>1, <3>2 DEF Framed
    <3>4. WriterOK(p)'
      BY <3>2, <3>3 DEF WriterOK
    <3> QED BY <1>4, <2>1, <2>3, <3>4 DEF PC
  <2> QED BY <1>7, <2>2, <2>3, Zenon DEF ReadLog, Refuse
<1>8. ASSUME NEW p \in Writer, AppendAtomic(p) PROVE Writers'
  <2> DEFINE n == Len(batch[p])
  <2>1. /\ p \in alive /\ pc[p] = "append" /\ alive' = alive /\ Goto(p, "head")
        /\ UNCHANGED <<head, before, batch, ids, unsealed>>
        /\ log' = Write(batch[p], n) /\ malformed' = (malformed \/ Glued(n))
    BY <1>8, Zenon DEF AppendAtomic, world
  <2>2. Framed(p) /\ batch[p] \in Seq(Event) /\ n \in 0 .. n /\ log \in Seq(Event)
    BY <1>0, <2>1 DEF Writers, WriterOK, TypeOK
  <2>3. malformed' \/ ~Glued(n)
    BY <2>1, Zenon
  <2>4. ~Glued(n) => Len(log') = Len(log) + n /\ LastId(log') = LastId(batch[p])
    BY <2>1, <2>2, <2>3, WrittenData
  <2>5. batch[p] # <<>> /\ before[p] = Len(log)
    <3>1. PICK made \in Nat : batch[p] = Frame(log, call[p], made)
      BY <2>2 DEF Framed
    <3>2. IsFrame(batch[p], log, call[p], made)
      BY <2>2, <3>1, FrameFacts DEF Framed
    <3> QED BY <2>2, <3>2, Zenon DEF IsFrame, Framed
  <2>6. pc'[p] = "head"
    BY <1>0, <2>1, GotoTypes DEF PC
  <2>7. ~malformed' => Len(log') = before'[p] + Len(batch'[p]) /\ LastId(log') = LastId(batch'[p])
    BY <2>1, <2>3, <2>4, <2>5, Zenon
  <2>8. WriterOK(p)'
    BY <2>1, <2>5, <2>6, <2>7 DEF WriterOK, Appended
  <2> QED BY <1>4, <2>1, <2>8 DEF PC, Section
<1>9. ASSUME NEW p \in Writer, WriteHead(p) PROVE Writers'
  <2>1. p \in alive /\ pc[p] \in Section /\ alive' = alive
    BY <1>9 DEF WriteHead, Section, PC, world
  <2>2. \E x \in {"verify", "release"} : Goto(p, x)
    BY <1>9 DEF WriteHead
  <2> QED BY <1>5, <2>1, <2>2 DEF PC, Busy
<1>10. ASSUME NEW p \in Writer, ReadReseal(p) PROVE Writers'
  <2>1. /\ p \in alive /\ pc[p] \in Section /\ alive' = alive
        /\ log' = log /\ malformed' = malformed
    BY <1>10 DEF ReadReseal, Section, PC, file
  <2>2. CASE Goto(p, "release")
    BY <1>5, <2>1, <2>2 DEF PC, Busy
  <2>3. CASE /\ ~malformed
             /\ Valid(Resealed(log), [len |-> Len(Resealed(log)), last |-> LastId(Resealed(log))])
             /\ batch' = [batch EXCEPT ![p] = Resealed(log)]
             /\ Goto(p, "rewrite")
    <3>1. batch'[p] = Resealed(log) /\ pc'[p] = "rewrite"
      BY <1>0, <2>3 DEF TypeOK, Goto
    <3>2. Chained(Resealed(log)) /\ BatchesWhole(Resealed(log))
      BY <2>3 DEF Valid
    <3>3. Resealing(p)'
      BY <2>1, <2>3, <3>1, <3>2 DEF Resealing
    <3>4. WriterOK(p)'
      BY <3>1, <3>3 DEF WriterOK
    <3> QED BY <1>4, <2>1, <2>3, <3>4 DEF PC
  <2> QED BY <1>10, <2>2, <2>3, Zenon DEF ReadReseal, Refuse
<1>11. ASSUME NEW p \in Writer, Rewrite(p) PROVE Writers'
  <2>1. p \in alive /\ pc[p] \in Section /\ alive' = alive /\ Goto(p, "rehead")
    BY <1>11 DEF Rewrite, Section, PC, world
  <2>2. Rewritten(p)'
    BY <1>11, <2>1, RewriteData
  <2>3. pc'[p] = "rehead"
    BY <1>0, <2>1, GotoTypes DEF PC
  <2>4. WriterOK(p)'
    BY <2>2, <2>3 DEF WriterOK
  <2> QED BY <1>4, <2>1, <2>4 DEF PC
<1>12. ASSUME NEW p \in Writer, Crash(p) PROVE Writers'
  <2>1. p \in alive /\ alive' = alive \ {p} /\ Forget(p) /\ head' = head /\ ids' = ids
    BY <1>12 DEF Crash
  <2>2. pc'[p] \notin Busy
    BY <1>0, <2>1, ForgetLocals DEF Busy
  <2>3. CASE UNCHANGED file
    BY <1>0, <2>1, <2>2, <2>3, ForgetLocals, IdleStep DEF file
  <2>4. CASE ~ UNCHANGED file
    <3>1. pc[p] \in Section
      BY <1>12, <2>4 DEF Crash, Section, PC
    <3>2. \A q \in alive' : q # p => WriterOK(q)'
      BY <1>0, <2>1, <3>1, ForgetLocals, OtherWriters
    <3> QED BY <2>1, <3>2 DEF Writers
  <2> QED BY <2>3, <2>4
<1>13. CASE Merge
  <2>1. alive' = alive /\ pc' = pc /\ \A p \in alive : pc[p] \notin Section
    BY <1>13 DEF Merge
  <2>2. \A p \in alive' : pc'[p] \notin Busy
    BY <1>0, <2>1 DEF Busy, Section, PC
  <2> QED BY <2>2, QuietWriter DEF Writers
<1>14. CASE RemoveOrphan \/ UNCHANGED vars
  <2>1. UNCHANGED <<alive, log, malformed, head, ids, pc, call, before, batch>>
    BY <1>14 DEF RemoveOrphan, vars, file, world
  <2> QED BY <1>0, <2>1 DEF Writers, WriterOK, Framed, Appended, Resealing, Rewritten
<1> QED
  BY <1>1, <1>2, <1>3, <1>6, <1>7, <1>8, <1>9, <1>10, <1>11, <1>12, <1>13, <1>14 DEF Next, Step

-----------------------------------------------------------------------------
(* The receipts, where no write can lose its last '\n' alone. *)

\* No step loses a line, and the last line keeps its '\n' or the log is malformed.
LEMMA KeptStep ==
    ASSUME "newline" \notin Faults, IInv, [Next]_vars
    PROVE  IdsOf(log) \subseteq IdsOf(log') /\ (newline' \/ malformed')
<1> USE DEF At
<1>0. TypeOK /\ LInv /\ Writers /\ (newline \/ malformed)
  BY DEF IInv, Receipts
<1>1. ASSUME NEW p \in Writer, p \in alive, pc[p] = "append"
      PROVE  newline /\ Len(batch[p]) \in Nat
  <2>1. Framed(p) /\ Len(batch[p]) \in Nat
    BY <1>0, <1>1 DEF Writers, WriterOK, TypeOK
  <2> QED BY <1>0, <2>1, Zenon DEF Framed
<1>2. ASSUME UNCHANGED file PROVE IdsOf(log) \subseteq IdsOf(log') /\ (newline' \/ malformed')
  BY <1>0, <1>2 DEF file
<1>3. ASSUME NEW p \in Writer, AppendAtomic(p)
      PROVE  IdsOf(log) \subseteq IdsOf(log') /\ (newline' \/ malformed')
  <2>1. /\ p \in alive /\ pc[p] = "append" /\ head' = head /\ ids' = ids /\ unsealed' = unsealed
        /\ log' = Write(batch[p], Len(batch[p])) /\ newline' = TRUE
    BY <1>3 DEF AppendAtomic, world
  <2>2. ~Glued(Len(batch[p])) /\ Len(batch[p]) \in 0 .. Len(batch[p])
    BY <1>1, <2>1 DEF Glued
  <2> QED BY <2>1, <2>2, WrittenData
<1>4. ASSUME NEW p \in Writer, p \in alive, pc[p] = "append",
             NEW k \in 0 .. (Len(batch[p]) - 1), NEW c \in Cuts, Cut(batch[p], k, c),
             head' = head, ids' = ids, unsealed' = unsealed
      PROVE  IdsOf(log) \subseteq IdsOf(log') /\ (newline' \/ malformed')
  BY <1>1, <1>4, CutData
<1>5. ASSUME NEW p \in Writer, AppendFails(p)
      PROVE  IdsOf(log) \subseteq IdsOf(log') /\ (newline' \/ malformed')
  <2>1. p \in alive /\ pc[p] = "append" /\ head' = head /\ ids' = ids /\ unsealed' = unsealed
    BY <1>5 DEF AppendFails, world
  <2>2. PICK k \in 0 .. (Len(batch[p]) - 1), c \in Cuts : Cut(batch[p], k, c)
    BY <1>5 DEF AppendFails
  <2> QED BY <1>4, <2>1, <2>2
<1>6. ASSUME NEW p \in Writer, Crash(p)
      PROVE  IdsOf(log) \subseteq IdsOf(log') /\ (newline' \/ malformed')
  <2>1. p \in alive /\ head' = head /\ ids' = ids /\ unsealed' = unsealed
    BY <1>6 DEF Crash
  <2>2. CASE UNCHANGED file
    BY <1>2, <2>2
  <2>3. CASE ~ UNCHANGED file
    <3>1. pc[p] = "append"
      BY <1>6, <2>3 DEF Crash
    <3>2. PICK k \in 0 .. (Len(batch[p]) - 1), c \in Cuts : Cut(batch[p], k, c)
      BY <1>6, <2>3 DEF Crash
    <3> QED BY <1>4, <2>1, <3>1, <3>2
  <2> QED BY <2>2, <2>3
<1>7. ASSUME NEW p \in Writer, Rewrite(p)
      PROVE  IdsOf(log) \subseteq IdsOf(log') /\ (newline' \/ malformed')
  <2>1. p \in alive /\ newline' = TRUE
    BY <1>7 DEF Rewrite
  <2>2. IdsOf(log') = IdsOf(log)
    BY <1>7, <2>1, RewriteData
  <2> QED BY <2>1, <2>2
<1>8. CASE Merge
  <2>1. UNCHANGED <<newline, malformed>>
    BY <1>8 DEF Merge
  <2>2. IdsOf(log) \subseteq IdsOf(log')
    BY <1>8, MergeData
  <2> QED BY <1>0, <2>1, <2>2
<1>9. ASSUME NEW p \in Writer, Begin(p) \/ CreateLock(p) \/ TimeOut(p) \/ Stamp(p) \/ ReadLog(p)
             \/ WriteHead(p) \/ Verify(p) \/ ReadReseal(p) \/ Rehead(p) \/ Release(p)
      PROVE  UNCHANGED file
  BY <1>9 DEF Begin, CreateLock, TimeOut, Stamp, ReadLog, WriteHead, Verify, ReadReseal, Rehead, Release
<1>10. CASE RemoveOrphan \/ UNCHANGED vars
  <2>1. UNCHANGED file
    BY <1>10 DEF RemoveOrphan, vars, file
  <2> QED BY <1>2, <2>1
<1> QED
  BY <1>2, <1>3, <1>5, <1>6, <1>7, <1>8, <1>9, <1>10 DEF Next, Step

\* What the calls have returned and are about to return is in the log.
LEMMA ReceiptsStep ==
    ASSUME "newline" \notin Faults, IInv, [Next]_vars
    PROVE  Receipts'
<1> USE DEF At
<1>0. TypeOK /\ LInv /\ acked \subseteq IdsOf(log) /\ \A p \in Writer : res[p] \subseteq IdsOf(log)
  BY DEF IInv, Receipts, AckedKept
<1>1. IdsOf(log) \subseteq IdsOf(log') /\ (newline' \/ malformed')
  BY KeptStep
<1>2. ASSUME acked' \subseteq IdsOf(log), \A q \in Writer : res'[q] \subseteq IdsOf(log)
      PROVE  Receipts'
  BY <1>1, <1>2 DEF Receipts, AckedKept
<1>3. ASSUME NEW p \in Writer, TimeOut(p) \/ Release(p) \/ Crash(p) PROVE Receipts'
  <2>1. Forget(p) /\ (acked' = acked \/ acked' = acked \cup res[p])
    BY <1>3 DEF TimeOut, Release, Crash, world
  <2>2. \A q \in Writer : res'[q] \subseteq IdsOf(log)
    BY <1>0, <2>1, ForgetTypes
  <2>3. acked' \subseteq IdsOf(log)
    BY <1>0, <2>1
  <2> QED BY <1>2, <2>2, <2>3
<1>4. ASSUME NEW p \in Writer, Stamp(p) PROVE Receipts'
  <2>1. acked' = acked /\ (Forget(p) \/ res' = res)
    BY <1>4 DEF Stamp, world
  <2>2. \A q \in Writer : res'[q] \subseteq IdsOf(log)
    BY <1>0, <2>1, ForgetTypes
  <2> QED BY <1>0, <1>2, <2>1, <2>2
<1>5. ASSUME NEW p \in Writer, ReadLog(p) PROVE Receipts'
  <2>1. acked' = acked /\ (res' = res \/ res' = [res EXCEPT ![p] = Originals(log, call[p])])
    BY <1>5, Zenon DEF ReadLog, Refuse
  <2>2. Originals(log, call[p]) \subseteq IdsOf(log)
    BY DEF Originals, IdsOf
  <2>3. \A q \in Writer : res'[q] \subseteq IdsOf(log)
    BY <1>0, <2>1, <2>2 DEF TypeOK
  <2> QED BY <1>0, <1>2, <2>1, <2>3
<1>6. ASSUME NEW p \in Writer, Verify(p) PROVE Receipts'
  <2> DEFINE b == batch[p]
             ok == /\ ~malformed
                   /\ Len(log) = before[p] + Len(b)
                   /\ \A i \in DOMAIN b : log[before[p] + i].id = b[i].id
                   /\ head = [len |-> before[p] + Len(b), last |-> LastId(b)]
                   /\ Valid(log, head)
  <2>1. acked' = acked /\ res' = [res EXCEPT ![p] = IF ok THEN IdsOf(b) ELSE {}]
    BY <1>6 DEF Verify, world
  <2>2. ASSUME ok PROVE IdsOf(b) \subseteq IdsOf(log)
    <3>1. b \in Seq(Event) /\ log \in Seq(Event) /\ before[p] \in Nat
      BY <1>0 DEF TypeOK
    <3>2. ASSUME NEW i \in DOMAIN b PROVE before[p] + i \in DOMAIN log /\ log[before[p] + i].id = b[i].id
      BY <2>2, <3>1
    <3> QED BY <3>2 DEF IdsOf
  <2> HIDE DEF ok, b
  <2>3. \A q \in Writer : res'[q] \subseteq IdsOf(log)
    BY <1>0, <2>1, <2>2 DEF TypeOK
  <2> QED BY <1>0, <1>2, <2>1, <2>3
<1>7. ASSUME acked' = acked, res' = res PROVE Receipts'
  BY <1>0, <1>2, <1>7
<1>8. ASSUME NEW p \in Writer, Begin(p) \/ CreateLock(p) \/ AppendAtomic(p) \/ AppendFails(p)
             \/ WriteHead(p) \/ ReadReseal(p) \/ Rewrite(p) \/ Rehead(p)
      PROVE  acked' = acked /\ res' = res
  BY <1>8 DEF Begin, CreateLock, AppendAtomic, AppendFails, WriteHead, ReadReseal, Refuse, Rewrite,
              Rehead, world
<1>9. CASE RemoveOrphan \/ Merge \/ UNCHANGED vars
  <2>1. acked' = acked /\ res' = res
    BY <1>9 DEF RemoveOrphan, Merge, vars, world
  <2> QED BY <1>7, <2>1
<1> QED
  BY <1>3, <1>4, <1>5, <1>6, <1>7, <1>8, <1>9 DEF Next, Step

-----------------------------------------------------------------------------
LEMMA InitIInv == Init => IInv
<1> SUFFICES ASSUME Init PROVE IInv
  OBVIOUS
<1>1. LInv
  BY DEF Init, LInv, SectionOwned, Section, PC
<1>2. TypeOK
  <2>1. <<>> \in Seq(Event) /\ 0 \in 0 .. MaxMerge /\ "idle" \in PC
    BY BoundAssumption DEF PC
  <2> QED BY <2>1 DEF Init, TypeOK
<1>3. log = <<>> /\ DOMAIN log = {} /\ head = None
  BY DEF Init
<1>4. Data
  <2>1. Numbered(log, ids) /\ ExactlyOnce
    BY <1>3 DEF Numbered, ExactlyOnce
  <2>2. Sound(log, head)
    BY <1>3 DEF Sound, Chained, HeadAgrees, Distinct, BatchesWhole
  <2> QED BY <2>1, <2>2 DEF Data
<1>5. Writers
  BY DEF Init, Writers, WriterOK
<1>6. Receipts
  BY <1>3 DEF Init, Receipts, AckedKept, IdsOf
<1> QED BY <1>1, <1>2, <1>4, <1>5, <1>6 DEF IInv

\* The inductive invariant: a writer in its section is alone with the log, so what it
\* read, framed or resealed is still true of the file when it writes.
THEOREM Invariance == Spec => []IInv
<1>1. IInv /\ [Next]_vars => IInv'
  <2> SUFFICES ASSUME IInv, [Next]_vars PROVE IInv'
    OBVIOUS
  <2>1. LInv' /\ TypeOK'
    BY LockStep, TypeStep DEF IInv
  <2>2. Data' /\ Writers'
    BY DataStep, WritersStep
  <2>3. "newline" \notin Faults => Receipts'
    BY ReceiptsStep
  <2> QED BY <2>1, <2>2, <2>3 DEF IInv
<1> QED BY <1>1, InitIInv, PTL DEF Spec

\* Lines, head, lock file, locals and receipts keep their types, whatever fails.
THEOREM TypeCorrect == Spec => []TypeOK
<1>1. IInv => TypeOK
  BY DEF IInv
<1> QED BY <1>1, Invariance, PTL

\* The log and its head pass validate with every event once, unless a write was cut or
\* a merge waits for its reseal: for every set of writers, commands and failing steps.
THEOREM LogAlwaysSound == Spec => []LogSound
<1>1. IInv => LogSound
  <2> SUFFICES ASSUME IInv, ~malformed, ~PartialTail(log), ~unsealed
               PROVE  Valid(log, head) /\ Cardinality(IdsOf(log)) = Len(log)
    BY DEF LogSound
  <2>1. Sound(log, head) /\ log \in Seq(Event)
    BY DEF IInv, Data, TypeOK
  <2>2. Cardinality(IdsOf(log)) = Len(log)
    BY <2>1, DistinctCount DEF Sound
  <2> QED BY <2>1, <2>2 DEF Sound, Valid
<1> QED BY <1>1, Invariance, PTL

\* A delivery token and an aggregate have the events of one command, however often and
\* by whichever writer the command is delivered, whatever fails in between.
THEOREM DeliveredOnce == Spec => []ExactlyOnce
<1>1. IInv => ExactlyOnce
  BY DEF IInv, Data
<1> QED BY <1>1, Invariance, PTL

\* A receipt is kept: what a successful call returned is a line of the log for ever, if a
\* write that stops early never stops exactly before a '\n'.
THEOREM ReceiptsKept ==
    ASSUME "newline" \notin Faults
    PROVE  Spec => []AckedKept
<1>1. IInv => AckedKept
  BY DEF IInv, Receipts
<1> QED BY <1>1, Invariance, PTL

\* No step loses a line that could be read, under the same hypothesis.
THEOREM LinesKept ==
    ASSUME "newline" \notin Faults
    PROVE  Spec => NothingLost
<1>1. IInv /\ [Next]_vars => [IdsOf(log) \subseteq IdsOf(log')]_vars
  BY KeptStep
<1> QED BY <1>1, Invariance, PTL DEF Spec, NothingLost
=============================================================================
