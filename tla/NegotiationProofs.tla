-------------------------- MODULE NegotiationProofs --------------------------
(* Proofs about Negotiation, for every set of clients, negotiations, actors,   *)
(* artefacts and payloads, and for every choice of the authority matrix.       *)
EXTENDS Negotiation, TLAPS

Active(c) == pc[c] \notin {"idle", "dead"}

\* The section of c runs under the lock of its negotiation.
LockOK == \A c \in Client : Active(c) => op[c] \in Op /\ holder[op[c].n] = c

\* The journal of n has what a stabilization of h rests on.
Backed(n, h) ==
    LET loads == {journal[n][k].load : k \in DOMAIN journal[n]} IN
    /\ \E load \in loads : load.kind = "offer" /\ load.hash = h
    /\ \A a \in Required :
          /\ <<a, h>> \in Authorized
          /\ \E load \in loads : /\ load.kind = "signature" /\ load.hash = h
                                 /\ load.actor = a /\ VerifiedSignature(load)

Announced(n, h) == \E i \in StabilizedAt(n) : journal[n][i].load.hash = h

Stabilizing == {"create", "fill", "announce"}

\* What c has read is still so at each step of its section.
ClientOK(c) ==
    /\ Active(c) /\ op[c].type = "append" => op[c].load \in Loads
    /\ Active(c) /\ op[c].type \in {"open", "update"} => op[c].status \in Statuses
    /\ pc[c] \in {"locked", "append"} /\ op[c].type = "append" => Len(journal[op[c].n]) < MaxLen
    /\ pc[c] = "append" => op[c].type = "append"
    /\ pc[c] \in {"append", "announce"} => tail[c] = LastEntry(journal[op[c].n])
    /\ pc[c] \in Stabilizing => /\ pend[c] \in Record /\ pend[c].current \in Hash
                                /\ pend[c].status = "stabilized"
                                /\ Backed(op[c].n, pend[c].current)
    /\ pc[c] = "fill" => artifact[PathOf[pend[c].current]] = Torn
    /\ pc[c] = "announce" => artifact[PathOf[pend[c].current]] = pend[c].current
    /\ pc[c] \in {"truncate", "write"} =>
          /\ pend[c] \in Record
          /\ "stabilized" \notin Statuses /\ pend[c].status = "stabilized"
                => Announced(op[c].n, pend[c].current)

\* The record a section has read is still there when it truncates the file.
FreshOK(c) ==
    /\ pc[c] \in Stabilizing => op[c].type = "stabilize"
    /\ pc[c] \in Stabilizing \cup {"truncate"} => Fresh(c)
    /\ pc[c] = "write" => state[op[c].n] = Torn

\* One client at most fills the file of a path.
FillOK == \A c, d \in Client :
    pc[c] = "fill" /\ pc[d] = "fill" /\ PathOf[pend[c].current] = PathOf[pend[d].current] => c = d

\* Only stabilizeNegotiation journals a `stabilized` payload.
NoClaims == /\ \A l \in Loads : l.kind # "stabilized"
            /\ \A n \in Nego : \A i \in DOMAIN InitJournal[n] : InitJournal[n][i].kind # "stabilized"

\* A `stabilized` entry names an artefact.
ArtefactNamed == \A n \in Nego : \A i \in StabilizedAt(n) : journal[n][i].load.hash \in Hash

IInv == /\ TypeOK
        /\ LockOK
        /\ \A c \in Client : ClientOK(c)
        /\ \A c \in Client : FreshOK(c)
        /\ FillOK
        /\ JournalChained
        /\ NoClaims => StabilizedByQuorum /\ ArtefactNamed /\ AnnouncedOnDisk
        /\ "stabilized" \notin Statuses => StateFollowsJournal
-----------------------------------------------------------------------------
(* The journal as a sequence. *)

LEMMA LastEntryType ==
    ASSUME NEW j \in Seq(Entry)
    PROVE  LastEntry(j) \in Entry \cup {None}
BY DEF LastEntry

LEMMA NextEntryType ==
    ASSUME NEW e \in Entry \cup {None}, NEW load \in Load
    PROVE  /\ NextEntry(e, load) \in Entry
           /\ NextEntry(e, load).load = load
<1>1. CASE e = None
  BY <1>1 DEF NextEntry, createJournalEntry, Entry
<1>2. CASE e \in Entry
  BY <1>2, NoneAssumption DEF NextEntry, appendJournalEntry, Entry
<1> QED BY <1>1, <1>2

\* An entry framed by the last one keeps the chain.
LEMMA ChainGrows ==
    ASSUME NEW j \in Seq(Entry), verifyJournalChain(j), NEW load \in Load
    PROVE  verifyJournalChain(Append(j, NextEntry(LastEntry(j), load)))
<1> DEFINE e == NextEntry(LastEntry(j), load)
           k == Append(j, e)
<1>1. e \in Entry
  BY LastEntryType, NextEntryType
<1>2. k \in Seq(Entry) /\ Len(k) = Len(j) + 1 /\ DOMAIN k = 1 .. (Len(j) + 1) /\ Len(j) \in Nat
      /\ DOMAIN j = 1 .. Len(j)
  BY <1>1
<1>3. k[Len(j) + 1] = e /\ \A i \in DOMAIN j : k[i] = j[i]
  BY <1>1
<1>4. e.seq = Len(j) /\ e.prev = IF Len(j) = 0 THEN None ELSE j[Len(j)].load
  <2>1. CASE j = <<>>
    BY <2>1 DEF LastEntry, NextEntry, createJournalEntry
  <2>2. CASE j # <<>>
    <3>1. Len(j) \in DOMAIN j /\ Len(j) > 0 /\ j[Len(j)] \in Entry
      BY <2>2
    <3>2. LastEntry(j) = j[Len(j)] /\ LastEntry(j) # None
      BY <2>2, <3>1, NoneAssumption DEF LastEntry
    <3>3. j[Len(j)].seq = Len(j) - 1
      BY <3>1 DEF verifyJournalChain
    <3> QED BY <3>1, <3>2, <3>3 DEF NextEntry, appendJournalEntry
  <2> QED BY <2>1, <2>2
<1>5. SUFFICES ASSUME NEW i \in DOMAIN k
      PROVE /\ k[i].seq = i - 1
            /\ k[i].prev = IF i = 1 THEN None ELSE k[i - 1].load
  BY DEF verifyJournalChain
<1>6. CASE i \in DOMAIN j
  <2>1. j[i].seq = i - 1 /\ j[i].prev = IF i = 1 THEN None ELSE j[i - 1].load
    BY <1>6 DEF verifyJournalChain
  <2>2. i # 1 => i - 1 \in DOMAIN j
    BY <1>6, <1>2
  <2> QED BY <2>1, <2>2, <1>3, <1>6
<1>7. CASE i = Len(j) + 1
  <2>1. Len(j) # 0 => Len(j) \in DOMAIN j
    BY <1>2
  <2>2. i - 1 = Len(j)
    BY <1>2, <1>7
  <2>3. k[i] = e
    BY <1>3, <1>7
  <2>4. CASE Len(j) = 0
    BY <1>4, <2>2, <2>3, <2>4, <1>7
  <2>5. CASE Len(j) # 0
    BY <1>2, <1>3, <1>4, <2>1, <2>2, <2>3, <2>5, <1>7
  <2> QED BY <2>4, <2>5
<1> QED BY <1>2, <1>6, <1>7

\* A journal that stabilizeNegotiation accepts for h backs h.
LEMMA DecisionBacked ==
    ASSUME NEW n \in Nego, NEW h, Stabilizable(journal[n], h)
    PROVE  Backed(n, h)
<1> DEFINE j == journal[n]
           loads == {j[k].load : k \in DOMAIN j}
<1>1. \E load \in loads : load.kind = "offer" /\ load.hash = h
  BY DEF Stabilizable
<1>2. ASSUME NEW a \in Required
      PROVE /\ <<a, h>> \in Authorized
            /\ \E load \in loads : /\ load.kind = "signature" /\ load.hash = h
                                   /\ load.actor = a /\ VerifiedSignature(load)
  <2>1. a \in SignersOf(j, h)
    BY DEF Stabilizable, Wins, FullQuorum
  <2>2. PICK i \in Signatures(j) : j[i].load.hash = h /\ j[i].load.actor = a
    BY <2>1 DEF SignersOf
  <2>3. VerifiedSignature(j[i].load)
    BY DEF Stabilizable
  <2>4. i \in DOMAIN j /\ j[i].load.kind = "signature"
    BY DEF Signatures
  <2> QED BY <2>1, <2>2, <2>3, <2>4 DEF Stabilizable
<1> QED BY <1>1, <1>2 DEF Backed
-----------------------------------------------------------------------------
LEMMA InitInv == Init => IInv
<1> SUFFICES ASSUME Init PROVE IInv
  OBVIOUS
<1>1. \A n \in Nego : /\ DOMAIN journal[n] = DOMAIN InitJournal[n]
                      /\ journal[n] \in Seq(Entry)
                      /\ verifyJournalChain(journal[n])
                      /\ \A i \in DOMAIN journal[n] : journal[n][i].load = InitJournal[n][i]
  <2> TAKE n \in Nego
  <2>1. InitJournal[n] \in Seq(Load)
    BY LoadAssumption
  <2> DEFINE j == InitJournal[n]
             E(i) == [seq |-> i - 1, prev |-> IF i = 1 THEN None ELSE j[i - 1], load |-> j[i]]
  <2>2. journal[n] = [i \in DOMAIN j |-> E(i)]
    BY DEF Init
  <2>3. DOMAIN j = 1 .. Len(j) /\ Len(j) \in Nat
    BY <2>1
  <2>4. \A i \in 1 .. Len(j) : E(i) \in Entry
    <3> SUFFICES ASSUME NEW i \in 1 .. Len(j) PROVE E(i) \in Entry
      OBVIOUS
    <3>1. i - 1 \in Nat /\ j[i] \in Load
      BY <2>1, <2>3
    <3>2. i # 1 => j[i - 1] \in Load
      BY <2>1, <2>3
    <3> QED BY <3>1, <3>2 DEF Entry
  <2>9. \A i \in 1 .. Len(j) : /\ E(i).seq = i - 1 /\ E(i).load = j[i]
                              /\ E(i).prev = IF i = 1 THEN None ELSE j[i - 1]
    OBVIOUS
  <2> HIDE DEF E
  <2>5. journal[n] \in Seq(Entry)
    BY <2>2, <2>3, <2>4
  <2>6. \A i \in DOMAIN j : journal[n][i] = E(i)
    BY <2>2
  <2>7. DOMAIN journal[n] = DOMAIN j
    BY <2>2
  <2>8. verifyJournalChain(journal[n])
    <3> SUFFICES ASSUME NEW i \in DOMAIN journal[n]
                 PROVE /\ journal[n][i].seq = i - 1
                       /\ journal[n][i].prev = IF i = 1 THEN None ELSE journal[n][i - 1].load
      BY DEF verifyJournalChain
    <3>1. journal[n][i] = E(i) /\ i \in 1 .. Len(j)
      BY <2>3, <2>6, <2>7
    <3>2. i # 1 => i - 1 \in DOMAIN j
      BY <2>3, <3>1
    <3>3. i # 1 => journal[n][i - 1].load = j[i - 1]
      <4>1. ASSUME i # 1 PROVE journal[n][i - 1] = E(i - 1) /\ E(i - 1).load = j[i - 1]
        BY <2>3, <2>6, <2>9, <3>2, <4>1
      <4> QED BY <4>1
    <3> QED BY <2>9, <3>1, <3>3
  <2> QED BY <2>3, <2>5, <2>6, <2>7, <2>8, <2>9
<1>2. TypeOK
  BY <1>1 DEF Init, TypeOK, PC
<1>3. LockOK /\ FillOK /\ \A c \in Client : ClientOK(c) /\ FreshOK(c)
  BY DEF Init, LockOK, FillOK, ClientOK, FreshOK, Active, Stabilizing
<1>4. JournalChained
  BY <1>1 DEF JournalChained
<1>5. NoClaims => \A n \in Nego : StabilizedAt(n) = {}
  BY <1>1 DEF NoClaims, StabilizedAt
<1>6. NoClaims => StabilizedByQuorum /\ ArtefactNamed /\ AnnouncedOnDisk
  BY <1>5 DEF StabilizedByQuorum, ArtefactNamed, AnnouncedOnDisk
<1>7. StateFollowsJournal
  BY DEF Init, StateFollowsJournal
<1> QED BY <1>2, <1>3, <1>4, <1>6, <1>7 DEF IInv

-----------------------------------------------------------------------------
(* What a step does, read off the actions. *)

\* Only c's own section moves while c moves, and no step but its own moves it.
LEMMA OthersStay ==
    ASSUME TypeOK, NEW c \in Client, ClientStep(c), NEW d \in Client, d # c
    PROVE  pc'[d] = pc[d] /\ op'[d] = op[d] /\ tail'[d] = tail[d] /\ pend'[d] = pend[d]
BY DEF TypeOK, ClientStep, Unlock, Crash, CallOpen, CallUpdate, CallAppend, CallStabilize, Call,
       Open, Update, Truncate, WriteState, AppendRead, AppendLine, Decide, CreateArtifact,
       FillArtifact, Advise, Announce, Goto

LEMMA BackgroundStays ==
    ASSUME \/ \E x \in Revocable : RevokeKey(x)
           \/ \E n \in Nego : Evict(n)
           \/ UNCHANGED vars
    PROVE  UNCHANGED <<pc, op, tail, pend, state, journal, artifact, late>>
BY DEF RevokeKey, Evict, vars, files

\* The payload that c's next journal line carries.
Lines(c) ==
    IF pc[c] = "append" THEN {op[c].load}
    ELSE {[kind |-> "escalation", actor |-> None, by |-> None, hash |-> None, key |-> None],
          [kind |-> "stabilized", actor |-> None, by |-> None,
           hash |-> pend[c].current, key |-> None]}

\* The journal grows by one framed line of the client whose section it is.
LEMMA JournalStep ==
    ASSUME TypeOK, NEW c \in Client, ClientStep(c)
    PROVE  \/ UNCHANGED journal
           \/ /\ pc[c] \in {"append", "announce"} /\ op[c].n \in Nego
              /\ \E load \in Lines(c) :
                   journal' = [journal EXCEPT ![op[c].n] = Append(@, NextEntry(tail[c], load))]
<1>1. ASSUME NEW n \in Nego, AppendLine(c, n)
      PROVE  /\ pc[c] \in {"append", "announce"} /\ op[c].n \in Nego
             /\ \E load \in Lines(c) :
                  journal' = [journal EXCEPT ![op[c].n] = Append(@, NextEntry(tail[c], load))]
  BY <1>1 DEF AppendLine, Lines
<1>2. ASSUME NEW n \in Nego, Advise(c, n)
      PROVE  /\ pc[c] \in {"append", "announce"} /\ op[c].n \in Nego
             /\ \E load \in Lines(c) :
                  journal' = [journal EXCEPT ![op[c].n] = Append(@, NextEntry(tail[c], load))]
  BY <1>2 DEF Advise, Lines
<1>3. ASSUME NEW n \in Nego, Announce(c, n)
      PROVE  /\ pc[c] \in {"append", "announce"} /\ op[c].n \in Nego
             /\ \E load \in Lines(c) :
                  journal' = [journal EXCEPT ![op[c].n] = Append(@, NextEntry(tail[c], load))]
  BY <1>3 DEF Announce, Lines
<1>4. ASSUME ~(\E n \in Nego : AppendLine(c, n) \/ Advise(c, n) \/ Announce(c, n))
      PROVE  UNCHANGED journal
  BY <1>4 DEF ClientStep, Unlock, Crash, CallOpen, CallUpdate, CallAppend, CallStabilize, Call,
       Open, Update, Truncate, WriteState, AppendRead, Decide, CreateArtifact,
       FillArtifact, files
<1> QED BY <1>1, <1>2, <1>3, <1>4

\* A file of the artefact store is created, then filled by the client that created it.
LEMMA ArtifactStep ==
    ASSUME TypeOK, NEW c \in Client, ClientStep(c)
    PROVE  LET p == PathOf[pend[c].current] IN
           \/ UNCHANGED artifact /\ (pc'[c] = "fill" => pc[c] = "fill")
           \/ /\ pc[c] = "create" /\ pc'[c] = "fill" /\ artifact[p] = None
              /\ artifact' = [artifact EXCEPT ![p] = Torn] /\ UNCHANGED <<pend, op>>
           \/ /\ pc[c] = "fill" /\ pc'[c] = "announce"
              /\ artifact' = [artifact EXCEPT ![p] = pend[c].current] /\ UNCHANGED <<pend, op>>
<1>1. ASSUME NEW n \in Nego, CreateArtifact(c, n)
      PROVE  LET p == PathOf[pend[c].current] IN
             \/ UNCHANGED artifact /\ (pc'[c] = "fill" => pc[c] = "fill")
             \/ /\ pc[c] = "create" /\ pc'[c] = "fill" /\ artifact[p] = None
                /\ artifact' = [artifact EXCEPT ![p] = Torn] /\ UNCHANGED <<pend, op>>
  BY <1>1 DEF CreateArtifact, Goto, TypeOK
<1>2. ASSUME NEW n \in Nego, FillArtifact(c, n)
      PROVE  LET p == PathOf[pend[c].current] IN
             /\ pc[c] = "fill" /\ pc'[c] = "announce"
             /\ artifact' = [artifact EXCEPT ![p] = pend[c].current] /\ UNCHANGED <<pend, op>>
  BY <1>2 DEF FillArtifact, Goto, TypeOK
<1>3. ASSUME ~(\E n \in Nego : CreateArtifact(c, n) \/ FillArtifact(c, n))
      PROVE  UNCHANGED artifact /\ (pc'[c] = "fill" => pc[c] = "fill")
  BY <1>3 DEF TypeOK, ClientStep, Unlock, Crash, CallOpen, CallUpdate, CallAppend, CallStabilize,
       Call, Open, Update, Truncate, WriteState, AppendRead, AppendLine, Decide,
       Advise, Announce, files, Goto
<1> QED BY <1>1, <1>2, <1>3
\* The payload of c's line: the client's own, an advice or the announcement.
LEMMA LinesType ==
    ASSUME IInv, NEW c \in Client, pc[c] \in {"append", "announce"}, NEW load \in Lines(c)
    PROVE  /\ load \in Load /\ op[c].n \in Nego
           /\ load.kind = "stabilized" =>
                \/ pc[c] = "append" /\ load \in Loads
                \/ pc[c] = "announce" /\ load.hash = pend[c].current
<1>1. op[c] \in Op /\ op[c].n \in Nego
  BY DEF IInv, LockOK, Active, Op
<1>2. CASE pc[c] = "append"
  <2>1. load = op[c].load
    BY <1>2 DEF Lines
  <2>2. load \in Loads
    BY <1>2, <2>1 DEF IInv, ClientOK, Active
  <2> QED BY <1>1, <1>2, <2>2, LoadAssumption
<1>3. CASE pc[c] = "announce"
  <2>1. pend[c].current \in Hash
    BY <1>3 DEF IInv, ClientOK, Stabilizing
  <2>2. \/ load = [kind |-> "escalation", actor |-> None, by |-> None, hash |-> None, key |-> None]
        \/ load = [kind |-> "stabilized", actor |-> None, by |-> None,
                   hash |-> pend[c].current, key |-> None]
    BY <1>3 DEF Lines
  <2> QED BY <1>1, <1>3, <2>1, <2>2 DEF Load
<1> QED BY <1>2, <1>3

\* The journal of n stays, or gets the next entry from the client that holds n.
LEMMA JournalNext ==
    ASSUME IInv, [Next]_vars, NEW n \in Nego
    PROVE  \/ journal'[n] = journal[n]
           \/ \E c \in Client : \E load \in Lines(c) :
                /\ pc[c] \in {"append", "announce"} /\ op[c].n = n
                /\ journal'[n] = Append(journal[n], NextEntry(LastEntry(journal[n]), load))
<1>1. CASE \E c \in Client : ClientStep(c)
  <2>1. PICK c \in Client : ClientStep(c)
    BY <1>1
  <2>2. CASE UNCHANGED journal
    BY <2>2
  <2>3. CASE pc[c] \in {"append", "announce"}
    <3>1. tail[c] = LastEntry(journal[op[c].n])
      BY <2>3 DEF IInv, ClientOK
    <3>2. CASE UNCHANGED journal
      BY <3>2
    <3>3. CASE ~UNCHANGED journal
      <4>1. PICK load \in Lines(c) :
               journal' = [journal EXCEPT ![op[c].n] = Append(@, NextEntry(tail[c], load))]
        BY <2>1, <3>3, JournalStep DEF IInv
      <4> QED BY <4>1, <3>1, <2>3 DEF IInv, TypeOK
    <3> QED BY <3>2, <3>3
  <2> QED BY <2>1, <2>2, <2>3, JournalStep DEF IInv
<1>2. CASE ~(\E c \in Client : ClientStep(c))
  BY <1>2, BackgroundStays DEF Next
<1> QED BY <1>1, <1>2

\* Entries are never rewritten.
LEMMA EntriesStay ==
    ASSUME IInv, [Next]_vars, NEW n \in Nego
    PROVE  /\ journal[n] \in Seq(Entry) /\ journal'[n] \in Seq(Entry)
           /\ \A i \in DOMAIN journal[n] : i \in DOMAIN journal'[n] /\ journal'[n][i] = journal[n][i]
           /\ \A i \in DOMAIN journal'[n] \ DOMAIN journal[n] : i = Len(journal[n]) + 1
<1>1. journal[n] \in Seq(Entry)
  BY DEF IInv, TypeOK
<1>2. CASE journal'[n] = journal[n]
  BY <1>1, <1>2
<1>3. CASE journal'[n] # journal[n]
  <2>0. PICK c \in Client : \E load \in Lines(c) :
             /\ pc[c] \in {"append", "announce"} /\ op[c].n = n
             /\ journal'[n] = Append(journal[n], NextEntry(LastEntry(journal[n]), load))
    BY <1>3, JournalNext
  <2>1. PICK load \in Lines(c) :
             /\ pc[c] \in {"append", "announce"} /\ op[c].n = n
             /\ journal'[n] = Append(journal[n], NextEntry(LastEntry(journal[n]), load))
    BY <2>0
  <2>2. load \in Load
    BY <2>1, LinesType
  <2>3. NextEntry(LastEntry(journal[n]), load) \in Entry
    BY <1>1, <2>2, LastEntryType, NextEntryType
  <2> QED BY <1>1, <2>1, <2>3
<1> QED BY <1>2, <1>3

LEMMA BackedStays ==
    ASSUME IInv, [Next]_vars, NEW n \in Nego, NEW h, Backed(n, h)
    PROVE  Backed(n, h)'
<1> DEFINE loads == {journal[n][k].load : k \in DOMAIN journal[n]}
           loads2 == {journal'[n][k].load : k \in DOMAIN journal'[n]}
<1>1. \A k \in DOMAIN journal[n] : k \in DOMAIN journal'[n] /\ journal'[n][k] = journal[n][k]
  BY EntriesStay
<1>2. loads \subseteq loads2
  BY <1>1
<1>3. /\ \E load \in loads : load.kind = "offer" /\ load.hash = h
      /\ \A a \in Required :
          /\ <<a, h>> \in Authorized
          /\ \E load \in loads : /\ load.kind = "signature" /\ load.hash = h
                                 /\ load.actor = a /\ VerifiedSignature(load)
  BY DEF Backed
<1> HIDE DEF loads, loads2
<1>4. /\ \E load \in loads2 : load.kind = "offer" /\ load.hash = h
      /\ \A a \in Required :
          /\ <<a, h>> \in Authorized
          /\ \E load \in loads2 : /\ load.kind = "signature" /\ load.hash = h
                                  /\ load.actor = a /\ VerifiedSignature(load)
  BY <1>2, <1>3
<1> QED BY <1>4 DEF Backed, loads2

LEMMA AnnouncedStays ==
    ASSUME IInv, [Next]_vars, NEW n \in Nego, NEW h, Announced(n, h)
    PROVE  Announced(n, h)'
<1>1. PICK i \in DOMAIN journal[n] : journal[n][i].load.kind = "stabilized" /\ journal[n][i].load.hash = h
  BY DEF Announced, StabilizedAt
<1>2. i \in DOMAIN journal'[n] /\ journal'[n][i] = journal[n][i]
  BY EntriesStay
<1> QED BY <1>1, <1>2 DEF Announced, StabilizedAt

LEMMA ChainStep ==
    ASSUME IInv, [Next]_vars
    PROVE  JournalChained'
<1> SUFFICES ASSUME NEW n \in Nego PROVE verifyJournalChain(journal'[n])
  BY DEF JournalChained
<1>1. journal[n] \in Seq(Entry) /\ verifyJournalChain(journal[n])
  BY DEF IInv, TypeOK, JournalChained
<1>2. CASE journal'[n] = journal[n]
  BY <1>1, <1>2
<1>3. CASE journal'[n] # journal[n]
  <2>0. PICK c \in Client : \E load \in Lines(c) :
             /\ pc[c] \in {"append", "announce"} /\ op[c].n = n
             /\ journal'[n] = Append(journal[n], NextEntry(LastEntry(journal[n]), load))
    BY <1>3, JournalNext
  <2>1. PICK load \in Lines(c) :
             /\ pc[c] \in {"append", "announce"} /\ op[c].n = n
             /\ journal'[n] = Append(journal[n], NextEntry(LastEntry(journal[n]), load))
    BY <2>0
  <2>2. load \in Load
    BY <2>1, LinesType
  <2> QED BY <1>1, <2>1, <2>2, ChainGrows
<1> QED BY <1>2, <1>3

\* A whole artefact is never replaced, and a file under way only by its own client.
LEMMA ArtifactsStay ==
    ASSUME IInv, [Next]_vars, NEW p \in Path
    PROVE  /\ artifact[p] \in Hash => artifact'[p] = artifact[p]
           /\ \A d \in Client : pc[d] = "fill" /\ pc'[d] = "fill" /\ PathOf[pend[d].current] = p
                 => artifact'[p] = artifact[p]
<1>1. CASE \E c \in Client : ClientStep(c)
  <2>1. PICK c \in Client : ClientStep(c)
    BY <1>1
  <2>2. CASE UNCHANGED artifact
    BY <2>2
  <2> DEFINE q == PathOf[pend[c].current]
  <2>3. CASE /\ pc[c] = "create" /\ pc'[c] = "fill" /\ artifact[q] = None
             /\ artifact' = [artifact EXCEPT ![q] = Torn]
    <3>1. ASSUME NEW d \in Client, pc[d] = "fill", PathOf[pend[d].current] = q PROVE FALSE
      <4>1. artifact[PathOf[pend[d].current]] = Torn
        BY <3>1 DEF IInv, ClientOK
      <4> QED BY <2>3, <3>1, <4>1, NoneAssumption
    <3>2. CASE p = q
      BY <2>3, <3>1, <3>2, NoneAssumption
    <3>3. CASE p # q
      BY <2>3, <3>3 DEF IInv, TypeOK
    <3> QED BY <3>2, <3>3
  <2>4. CASE /\ pc[c] = "fill" /\ pc'[c] = "announce"
             /\ artifact' = [artifact EXCEPT ![q] = pend[c].current]
    <3>1. artifact[q] = Torn
      BY <2>4 DEF IInv, ClientOK
    <3>2. ASSUME NEW d \in Client, pc[d] = "fill", pc'[d] = "fill", PathOf[pend[d].current] = q
          PROVE FALSE
      <4>1. c = d
        BY <2>4, <3>2 DEF IInv, FillOK
      <4> QED BY <2>4, <3>2, <4>1
    <3>3. CASE p = q
      BY <3>1, <3>2, <3>3, NoneAssumption
    <3>4. CASE p # q
      BY <2>4, <3>4 DEF IInv, TypeOK
    <3> QED BY <3>3, <3>4
  <2> QED BY <2>1, <2>2, <2>3, <2>4, ArtifactStep DEF IInv
<1>2. CASE ~(\E c \in Client : ClientStep(c))
  BY <1>2, BackgroundStays DEF Next
<1> QED BY <1>1, <1>2
-----------------------------------------------------------------------------
(* One lemma per part of the invariant. *)

LEMMA PrivateTypes ==
    ASSUME IInv, NEW c \in Client, ClientStep(c)
    PROVE  /\ holder' \in [Nego -> Client \cup {None}]
           /\ pc' \in [Client -> PC]
           /\ op' \in [Client -> Op \cup {None}]
           /\ pend' \in [Client -> Record \cup {None}]
           /\ state' \in [Nego -> Record \cup {None, Torn}]
<1> USE DEF IInv, TypeOK, Goto, files
<1>0. Active(c) => op[c] \in Op /\ op[c].n \in Nego
  BY DEF LockOK, Op
<1>1. CASE Unlock(c) \/ Crash(c)
  BY <1>0, <1>1 DEF Unlock, Crash, PC, Active
<1>2. ASSUME NEW n \in Nego, NEW s \in Statuses, CallOpen(c, n, s) \/ CallUpdate(c, n, s)
      PROVE  /\ holder' \in [Nego -> Client \cup {None}] /\ pc' \in [Client -> PC]
             /\ op' \in [Client -> Op \cup {None}] /\ UNCHANGED <<pend, state>>
  <2>1. \A t \in {"open", "update"} : [type |-> t, n |-> n, status |-> s, load |-> None] \in Op
    BY LoadAssumption DEF Op
  <2>2. CASE CallOpen(c, n, s)
    BY <2>1, <2>2 DEF CallOpen, Call, PC
  <2>3. CASE CallUpdate(c, n, s)
    BY <2>1, <2>3 DEF CallUpdate, Call, PC
  <2> QED BY <1>2, <2>2, <2>3
<1>3. ASSUME NEW n \in Nego, NEW l \in Loads, CallAppend(c, n, l)
      PROVE  /\ holder' \in [Nego -> Client \cup {None}] /\ pc' \in [Client -> PC]
             /\ op' \in [Client -> Op \cup {None}] /\ UNCHANGED <<pend, state>>
  BY <1>3, LoadAssumption DEF CallAppend, Call, PC, Op
<1>4. ASSUME NEW n \in Nego, CallStabilize(c, n)
      PROVE  /\ holder' \in [Nego -> Client \cup {None}] /\ pc' \in [Client -> PC]
             /\ op' \in [Client -> Op \cup {None}] /\ UNCHANGED <<pend, state>>
  BY <1>4 DEF CallStabilize, Call, PC, Op
<1>5. ASSUME NEW n \in Nego, Open(c, n)
      PROVE  /\ pc' \in [Client -> PC] /\ UNCHANGED <<holder, op, state>>
             /\ pend' \in [Client -> Record \cup {None}]
  <2>1. op[c].status \in AllStatuses
    BY <1>5, LoadAssumption DEF Open, Runs, ClientOK, Active
  <2>2. [status |-> op[c].status, current |-> None] \in Record
    BY <2>1 DEF Record
  <2> QED BY <1>5, <2>2 DEF Open, PC
<1>6. ASSUME NEW n \in Nego, Update(c, n)
      PROVE  /\ pc' \in [Client -> PC] /\ UNCHANGED <<holder, op, state>>
             /\ pend' \in [Client -> Record \cup {None}]
  <2>1. op[c].status \in AllStatuses
    BY <1>6, LoadAssumption DEF Update, Runs, ClientOK, Active
  <2>2. state[n] \notin {None, Torn} => [state[n] EXCEPT !.status = op[c].status] \in Record
    BY <2>1 DEF Record
  <2> QED BY <1>6, <2>2 DEF Update, PC
<1>7. ASSUME NEW n \in Nego, Truncate(c, n) \/ WriteState(c, n)
      PROVE  /\ pc' \in [Client -> PC] /\ UNCHANGED <<holder, op, pend>>
             /\ state' \in [Nego -> Record \cup {None, Torn}]
  BY <1>7 DEF Truncate, WriteState, PC
<1>8. ASSUME NEW n \in Nego, AppendRead(c, n) \/ AppendLine(c, n) \/ CreateArtifact(c, n)
             \/ FillArtifact(c, n) \/ Advise(c, n) \/ Announce(c, n)
      PROVE  pc' \in [Client -> PC] /\ UNCHANGED <<holder, op, pend, state>>
  BY <1>8 DEF AppendRead, AppendLine, CreateArtifact, FillArtifact, Advise, Announce, PC
<1>9. ASSUME NEW n \in Nego, Decide(c, n)
      PROVE  /\ pc' \in [Client -> PC] /\ UNCHANGED <<holder, op, state>>
             /\ pend' \in [Client -> Record \cup {None}]
  <2>1. \A h \in Hash : [status |-> "stabilized", current |-> h] \in Record
    BY DEF Record, AllStatuses
  <2> QED BY <1>9, <2>1 DEF Decide, PC
<1> QED BY <1>1, <1>2, <1>3, <1>4, <1>5, <1>6, <1>7, <1>8, <1>9 DEF ClientStep, Unlock, Crash

LEMMA JournalTypes ==
    ASSUME IInv, NEW c \in Client, ClientStep(c)
    PROVE  /\ journal' \in [Nego -> Seq(Entry)]
           /\ tail' \in [Client -> Entry \cup {None}]
           /\ artifact' \in [Path -> Hash \cup {None, Torn}]
           /\ late' \subseteq Nego \X (1 .. MaxLen)
           /\ UNCHANGED revoked
<1>1. TypeOK
  BY DEF IInv
<1>2. journal' \in [Nego -> Seq(Entry)]
  <2>1. \A n \in Nego : journal'[n] \in Seq(Entry)
    BY EntriesStay DEF Next
  <2>2. UNCHANGED journal \/ \E f \in Nego : \E x : journal' = [journal EXCEPT ![f] = x]
    BY <1>1, JournalStep
  <2>3. journal \in [Nego -> Seq(Entry)]
    BY <1>1 DEF TypeOK
  <2>4. journal' = [n \in Nego |-> journal'[n]]
    BY <2>2, <2>3
  <2> QED BY <2>1, <2>4
<1>3. tail' \in [Client -> Entry \cup {None}]
  <2>1. ASSUME NEW n \in Nego, Advise(c, n) PROVE tail' \in [Client -> Entry \cup {None}]
    <3> DEFINE a == [kind |-> "escalation", actor |-> None, by |-> None,
                     hash |-> None, key |-> None]
    <3>1. a \in Load
      BY DEF Load
    <3> HIDE DEF a
    <3>2. NextEntry(tail[c], a) \in Entry
      BY <1>1, <3>1, NextEntryType DEF TypeOK
    <3>3. tail' = [tail EXCEPT ![c] = NextEntry(tail[c], a)]
      BY <2>1 DEF Advise, a
    <3> QED BY <1>1, <3>2, <3>3 DEF TypeOK
  <2>2. ASSUME NEW n \in Nego, AppendRead(c, n) \/ FillArtifact(c, n)
        PROVE  tail' \in [Client -> Entry \cup {None}]
    <3>1. LastEntry(journal[n]) \in Entry \cup {None}
      BY <1>1, LastEntryType DEF TypeOK
    <3> QED BY <1>1, <2>2, <3>1 DEF AppendRead, FillArtifact, TypeOK
  <2>3. ASSUME ~\E n \in Nego : Advise(c, n) \/ AppendRead(c, n) \/ FillArtifact(c, n)
        PROVE  UNCHANGED tail \/ tail' = [tail EXCEPT ![c] = None]
    BY <2>3 DEF ClientStep, Unlock, Crash, CallOpen, CallUpdate, CallAppend, CallStabilize, Call,
       Open, Update, Truncate, WriteState, AppendLine, Decide, CreateArtifact, Announce
  <2> QED BY <1>1, <2>1, <2>2, <2>3 DEF TypeOK
<1>4. artifact' \in [Path -> Hash \cup {None, Torn}]
  <2>1. pc[c] = "fill" => pend[c].current \in Hash
    BY DEF IInv, ClientOK, Stabilizing
  <2> QED BY <1>1, <2>1, ArtifactStep DEF TypeOK
<1>5. late' \subseteq Nego \X (1 .. MaxLen)
  <2>1. ASSUME NEW n \in Nego, AppendLine(c, n) PROVE late' \subseteq Nego \X (1 .. MaxLen)
    <3>1. op[c].n = n /\ op[c].type = "append" /\ Len(journal[n]) < MaxLen
      BY <2>1 DEF AppendLine, IInv, ClientOK
    <3>2. Len(journal[n]) + 1 \in 1 .. MaxLen
      BY <1>1, <3>1, LenAssumption DEF TypeOK
    <3> QED BY <1>1, <2>1, <3>2 DEF AppendLine, TypeOK
  <2>2. ASSUME ~\E n \in Nego : AppendLine(c, n) PROVE UNCHANGED late
    BY <2>2 DEF ClientStep, Unlock, Crash, CallOpen, CallUpdate, CallAppend, CallStabilize, Call,
       Open, Update, Truncate, WriteState, AppendRead, Decide, CreateArtifact, FillArtifact,
       Advise, Announce, files
  <2> QED BY <1>1, <2>1, <2>2 DEF TypeOK
<1>6. UNCHANGED revoked
  BY DEF ClientStep, Unlock, Crash, CallOpen, CallUpdate, CallAppend, CallStabilize, Call,
       Open, Update, Truncate, WriteState, AppendRead, AppendLine, Decide, CreateArtifact,
       FillArtifact, Advise, Announce, files
<1> QED BY <1>2, <1>3, <1>4, <1>5, <1>6

LEMMA TypeStep ==
    ASSUME IInv, [Next]_vars
    PROVE  TypeOK'
<1>1. CASE \E c \in Client : ClientStep(c)
  BY <1>1, PrivateTypes, JournalTypes DEF IInv, TypeOK
<1>2. CASE ~(\E c \in Client : ClientStep(c))
  <2>1. UNCHANGED <<pc, op, tail, pend, state, journal, artifact, late>>
    BY <1>2, BackgroundStays DEF Next
  <2>2. holder' \in [Nego -> Client \cup {None}] /\ revoked' \subseteq Actor \X Key
    BY <1>2, KeyAssumption DEF Next, IInv, TypeOK, RevokeKey, Evict, vars, files
  <2> QED BY <2>1, <2>2 DEF IInv, TypeOK
<1> QED BY <1>1, <1>2
\* A section that is under way keeps its lock, whoever else moves.
LEMMA LockStep ==
    ASSUME IInv, [Next]_vars
    PROVE  LockOK'
<1> USE DEF IInv
<1>0. ASSUME NEW d \in Client, Active(d)
      PROVE  op[d] \in Op /\ op[d].n \in Nego /\ holder[op[d].n] = d /\ d # None
  BY <1>0, NoneAssumption DEF LockOK, Op
<1> SUFFICES ASSUME NEW d \in Client, Active(d)' PROVE op'[d] \in Op /\ holder'[op'[d].n] = d
  BY DEF LockOK
<1>1. CASE \E c \in Client : ClientStep(c)
  <2>1. PICK c \in Client : ClientStep(c)
    BY <1>1
  <2>2. CASE Unlock(c) \/ Crash(c)
    <3>1. d # c
      BY <2>2 DEF Unlock, Crash, Goto, Active, TypeOK
    <3>2. Active(d) /\ op'[d] = op[d]
      BY <2>1, <3>1, OthersStay DEF Active
    <3>3. Unlock(c) => Active(c)
      BY DEF Unlock, Active
    <3> QED BY <1>0, <2>2, <3>1, <3>2, <3>3 DEF Unlock, Crash, TypeOK
  <2>3. ASSUME NEW n \in Nego, NEW t, NEW s, NEW l, Call(c, t, n, s, l),
               [type |-> t, n |-> n, status |-> s, load |-> l] \in Op
        PROVE  op'[d] \in Op /\ holder'[op'[d].n] = d
    <3>1. CASE d = c
      BY <2>3, <3>1 DEF Call, TypeOK
    <3>2. CASE d # c
      <4>1. Active(d) /\ op'[d] = op[d]
        BY <2>1, <3>2, OthersStay DEF Active
      <4> QED BY <1>0, <2>3, <4>1 DEF Call, TypeOK
    <3> QED BY <3>1, <3>2
  <2>4. ASSUME NEW n \in Nego, NEW s \in Statuses, CallOpen(c, n, s) \/ CallUpdate(c, n, s)
        PROVE  op'[d] \in Op /\ holder'[op'[d].n] = d
    <3>1. \A t \in {"open", "update"} : [type |-> t, n |-> n, status |-> s, load |-> None] \in Op
      BY LoadAssumption DEF Op
    <3> QED BY <2>3, <2>4, <3>1 DEF CallOpen, CallUpdate
  <2>5. ASSUME NEW n \in Nego, NEW l \in Loads, CallAppend(c, n, l)
        PROVE  op'[d] \in Op /\ holder'[op'[d].n] = d
    <3>1. [type |-> "append", n |-> n, status |-> None, load |-> l] \in Op
      BY LoadAssumption DEF Op
    <3> QED BY <2>3, <2>5, <3>1 DEF CallAppend
  <2>6. ASSUME NEW n \in Nego, CallStabilize(c, n)
        PROVE  op'[d] \in Op /\ holder'[op'[d].n] = d
    <3>1. [type |-> "stabilize", n |-> n, status |-> None, load |-> None] \in Op
      BY DEF Op
    <3> QED BY <2>3, <2>6, <3>1 DEF CallStabilize
  <2>7. ASSUME NEW n \in Nego,
               \/ Open(c, n) \/ Update(c, n) \/ Truncate(c, n) \/ WriteState(c, n)
               \/ AppendRead(c, n) \/ AppendLine(c, n) \/ Decide(c, n) \/ CreateArtifact(c, n)
               \/ FillArtifact(c, n) \/ Advise(c, n) \/ Announce(c, n)
        PROVE  op'[d] \in Op /\ holder'[op'[d].n] = d
    <3>1. Active(c) /\ UNCHANGED <<holder, op>>
      BY <2>7 DEF Active, Open, Update, Truncate, WriteState, AppendRead, AppendLine, Decide,
                  CreateArtifact, FillArtifact, Advise, Announce, Runs
    <3>2. Active(d)
      BY <2>1, <3>1, OthersStay DEF Active
    <3> QED BY <1>0, <3>1, <3>2
  <2> QED BY <2>1, <2>2, <2>4, <2>5, <2>6, <2>7 DEF ClientStep
<1>2. CASE ~(\E c \in Client : ClientStep(c))
  <2>1. UNCHANGED <<pc, op>> /\ Active(d)
    BY <1>2, BackgroundStays DEF Next, Active
  <2>2. ASSUME NEW n \in Nego, Evict(n) PROVE holder'[op[d].n] = d
    BY <1>0, <2>1, <2>2 DEF Evict, Active, TypeOK
  <2> QED BY <1>0, <1>2, <2>1, <2>2 DEF Next, RevokeKey, vars
<1> QED BY <1>1, <1>2

LEMMA FillStep ==
    ASSUME IInv, [Next]_vars
    PROVE  FillOK'
<1> SUFFICES ASSUME NEW a \in Client, NEW b \in Client, pc'[a] = "fill", pc'[b] = "fill",
                    PathOf[pend'[a].current] = PathOf[pend'[b].current], a # b
             PROVE  FALSE
  BY DEF FillOK
<1> USE DEF IInv
<1>1. CASE \E c \in Client : ClientStep(c)
  <2>1. PICK c \in Client : ClientStep(c)
    BY <1>1
  <2>2. ASSUME NEW d \in Client, d # c, pc'[d] = "fill"
        PROVE  pc[d] = "fill" /\ pend'[d] = pend[d] /\ artifact[PathOf[pend[d].current]] = Torn
    BY <2>1, <2>2, OthersStay DEF ClientOK
  <2>3. CASE pc[c] = "fill" /\ pc'[c] = "fill"
    <3>1. FALSE
      BY <2>1, <2>3 DEF TypeOK, ClientStep, Unlock, Crash, CallOpen, CallUpdate, CallAppend,
         CallStabilize, Call, Open, Update, Truncate, WriteState, AppendRead, AppendLine, Decide,
         CreateArtifact, FillArtifact, Advise, Announce, Runs, Goto
    <3> QED BY <3>1
  <2>4. pc'[c] = "fill" => artifact[PathOf[pend[c].current]] = None /\ UNCHANGED pend
    BY <2>1, <2>3, ArtifactStep
  <2>5. CASE a # c /\ b # c
    BY <2>2, <2>5 DEF FillOK
  <2>6. CASE a = c \/ b = c
    BY <2>2, <2>4, <2>6, NoneAssumption
  <2> QED BY <2>5, <2>6
<1>2. CASE ~(\E c \in Client : ClientStep(c))
  BY <1>2, BackgroundStays DEF Next, FillOK
<1> QED BY <1>1, <1>2

\* Nobody else's step touches what a section has read.
LEMMA OtherClients ==
    ASSUME IInv, [Next]_vars, NEW d \in Client,
           pc'[d] = pc[d], op'[d] = op[d], tail'[d] = tail[d], pend'[d] = pend[d],
           \A c \in Client : ClientStep(c) => c # d
    PROVE  ClientOK(d)'
<1> USE DEF IInv
<1>1. ClientOK(d)
  OBVIOUS
<1>2. ASSUME Active(d) PROVE op[d].n \in Nego /\ journal'[op[d].n] = journal[op[d].n]
  <2>1. op[d] \in Op /\ op[d].n \in Nego /\ holder[op[d].n] = d
    BY <1>2 DEF LockOK, Op
  <2>2. CASE \E c \in Client : ClientStep(c)
    <3>1. PICK c \in Client : ClientStep(c)
      BY <2>2
    <3>2. pc[c] \in {"append", "announce"} => op[c].n # op[d].n
      BY <2>1, <3>1 DEF LockOK, Active
    <3> QED BY <2>1, <3>1, <3>2, JournalStep DEF TypeOK
  <2>3. CASE ~(\E c \in Client : ClientStep(c))
    BY <2>1, <2>3, BackgroundStays DEF Next
  <2> QED BY <2>1, <2>2, <2>3
<1>3. ASSUME pc[d] \in Stabilizing
      PROVE  /\ Backed(op[d].n, pend[d].current)'
             /\ pc[d] = "fill" => artifact'[PathOf[pend[d].current]] = Torn
             /\ pc[d] = "announce" => artifact'[PathOf[pend[d].current]] = pend[d].current
  <2>1. PICK n \in Nego : n = op[d].n
    BY <1>2, <1>3 DEF Active, Stabilizing
  <2>2. PICK h \in Hash : h = pend[d].current
    BY <1>1, <1>3 DEF ClientOK
  <2>3. Backed(n, h)
    BY <1>1, <1>3, <2>1, <2>2 DEF ClientOK
  <2>4. Backed(n, h)'
    BY <2>3, BackedStays
  <2>5. PathOf[h] \in Path
    BY PathAssumption
  <2>6. /\ artifact[PathOf[h]] \in Hash => artifact'[PathOf[h]] = artifact[PathOf[h]]
        /\ pc[d] = "fill" => artifact'[PathOf[h]] = artifact[PathOf[h]]
    BY <2>2, <2>5, ArtifactsStay
  <2>7. /\ pc[d] = "fill" => artifact[PathOf[h]] = Torn
        /\ pc[d] = "announce" => artifact[PathOf[h]] = h
    BY <1>1, <2>2 DEF ClientOK
  <2>8. Backed(op[d].n, pend[d].current)'
    <3>1. op'[d].n = n /\ pend'[d].current = h
      BY <2>1, <2>2
    <3> QED BY <2>4, <3>1 DEF Backed
  <2> QED BY <2>1, <2>2, <2>6, <2>7, <2>8
<1>4. ASSUME pc[d] \in {"truncate", "write"}, "stabilized" \notin Statuses, pend[d].status = "stabilized"
      PROVE  Announced(op[d].n, pend[d].current)'
  <2>1. PICK n \in Nego : n = op[d].n
    BY <1>2, <1>4 DEF Active
  <2>2. PICK h : h = pend[d].current
    OBVIOUS
  <2>3. Announced(n, h)
    BY <1>1, <1>4, <2>1, <2>2 DEF ClientOK
  <2>4. Announced(n, h)'
    BY <2>3, AnnouncedStays
  <2>5. op'[d].n = n /\ pend'[d].current = h
    BY <2>1, <2>2
  <2> QED BY <2>4, <2>5 DEF Announced, StabilizedAt
<1> QED BY <1>1, <1>2, <1>3, <1>4 DEF ClientOK, Active, Stabilizing
\* A section that has ended, or died, claims nothing.
LEMMA OwnCalls ==
    ASSUME IInv, NEW c \in Client,
           \/ Unlock(c) \/ Crash(c)
           \/ \E n \in Nego, s \in Statuses : CallOpen(c, n, s) \/ CallUpdate(c, n, s)
           \/ \E n \in Nego, l \in Loads : CallAppend(c, n, l)
           \/ \E n \in Nego : CallStabilize(c, n)
    PROVE  ClientOK(c)'
<1> USE DEF IInv, TypeOK, Goto
<1>1. CASE Unlock(c) \/ Crash(c)
  <2>1. pc'[c] \in {"idle", "dead"}
    BY <1>1 DEF Unlock, Crash
  <2> QED BY <2>1 DEF ClientOK, Active, Stabilizing
<1>2. ASSUME NEW n \in Nego, NEW t \in {"open", "update", "append", "stabilize"}, NEW s, NEW l,
             Call(c, t, n, s, l),
             t = "append" => l \in Loads /\ Len(journal[n]) < MaxLen,
             t \in {"open", "update"} => s \in Statuses
      PROVE  ClientOK(c)'
  <2>1. /\ pc'[c] = "locked" /\ UNCHANGED journal
        /\ op'[c] = [type |-> t, n |-> n, status |-> s, load |-> l]
    BY <1>2 DEF Call, files
  <2> QED BY <1>2, <2>1 DEF ClientOK, Active, Stabilizing
<1>3. ASSUME NEW n \in Nego, NEW s \in Statuses, CallOpen(c, n, s) \/ CallUpdate(c, n, s)
      PROVE  ClientOK(c)'
  BY <1>2, <1>3 DEF CallOpen, CallUpdate
<1>4. ASSUME NEW n \in Nego, NEW l \in Loads, CallAppend(c, n, l)
      PROVE  ClientOK(c)'
  BY <1>2, <1>4 DEF CallAppend
<1>5. ASSUME NEW n \in Nego, CallStabilize(c, n)
      PROVE  ClientOK(c)'
  BY <1>2, <1>5 DEF CallStabilize
<1> QED BY <1>1, <1>3, <1>4, <1>5

\* Steps of open, update and append, and the write of the state file.
LEMMA OwnWrites ==
    ASSUME IInv, [Next]_vars, NEW c \in Client, NEW n \in Nego,
           \/ Open(c, n) \/ Update(c, n) \/ Truncate(c, n) \/ WriteState(c, n)
           \/ AppendRead(c, n) \/ AppendLine(c, n)
    PROVE  ClientOK(c)'
<1> USE DEF IInv, TypeOK, Goto
<1>0. ClientOK(c) /\ Active(c) /\ op'[c] = op[c] /\ op[c].n = n
  BY DEF Active, Open, Update, Truncate, WriteState, AppendRead, AppendLine, Runs
<1>1. ASSUME Open(c, n) \/ Update(c, n) PROVE ClientOK(c)'
  <2>1. op[c].type \in {"open", "update"} /\ op[c].status \in Statuses
    BY <1>0, <1>1 DEF Open, Update, Runs, ClientOK
  <2>2. pc'[c] = "unlock" \/ (pc'[c] = "truncate" /\ pend'[c].status = op[c].status
                              /\ pend'[c] \in Record)
    <3>1. ASSUME Open(c, n) PROVE \/ pc'[c] = "unlock"
                                  \/ (pc'[c] = "truncate" /\ pend'[c].status = op[c].status
                                      /\ pend'[c] \in Record)
      <4>1. [status |-> op[c].status, current |-> None] \in Record
        BY <2>1, LoadAssumption DEF Record
      <4> QED BY <3>1, <4>1 DEF Open
    <3>2. ASSUME Update(c, n) PROVE \/ pc'[c] = "unlock"
                                    \/ (pc'[c] = "truncate" /\ pend'[c].status = op[c].status
                                        /\ pend'[c] \in Record)
      <4>1. state[n] \in Record => /\ [state[n] EXCEPT !.status = op[c].status] \in Record
                                   /\ [state[n] EXCEPT !.status = op[c].status].status = op[c].status
        BY <2>1, LoadAssumption DEF Record
      <4> QED BY <3>2, <4>1 DEF Update
    <3> QED BY <1>1, <3>1, <3>2
  <2> QED BY <1>0, <2>1, <2>2 DEF ClientOK, Active, Stabilizing
<1>2. ASSUME Truncate(c, n) PROVE ClientOK(c)'
  <2>1. pc[c] = "truncate" /\ pc'[c] = "write" /\ UNCHANGED <<pend, journal>>
    BY <1>2 DEF Truncate
  <2>2. pend[c] \in Record
    BY <1>0, <2>1 DEF ClientOK
  <2>3. ASSUME "stabilized" \notin Statuses, pend[c].status = "stabilized"
        PROVE  Announced(op[c].n, pend[c].current)'
    <3>1. Announced(op[c].n, pend[c].current)
      BY <1>0, <2>1, <2>3 DEF ClientOK
    <3>2. op'[c].n = op[c].n /\ pend'[c].current = pend[c].current /\ journal' = journal
      BY <1>0, <2>1
    <3> QED BY <3>1, <3>2 DEF Announced, StabilizedAt
  <2> QED BY <1>0, <2>1, <2>2, <2>3 DEF ClientOK, Active, Stabilizing
<1>3. ASSUME WriteState(c, n) \/ AppendLine(c, n) PROVE ClientOK(c)'
  <2>1. pc'[c] = "unlock"
    BY <1>3 DEF WriteState, AppendLine
  <2> QED BY <1>0, <2>1 DEF ClientOK, Active, Stabilizing
<1>4. ASSUME AppendRead(c, n) PROVE ClientOK(c)'
  <2>1. /\ pc[c] = "locked" /\ op[c].type = "append" /\ UNCHANGED journal
        /\ pc'[c] = "unlock" \/ (pc'[c] = "append" /\ tail'[c] = LastEntry(journal[n]))
    BY <1>4 DEF AppendRead, Runs, files
  <2> QED BY <1>0, <2>1 DEF ClientOK, Active, Stabilizing
<1> QED BY <1>1, <1>2, <1>3, <1>4

\* Steps of stabilize.
LEMMA OwnStabilize ==
    ASSUME IInv, [Next]_vars, NEW c \in Client, NEW n \in Nego,
           \/ Decide(c, n) \/ CreateArtifact(c, n) \/ FillArtifact(c, n)
           \/ Advise(c, n) \/ Announce(c, n)
    PROVE  ClientOK(c)'
<1> USE DEF IInv, TypeOK, Goto
<1>0. ClientOK(c) /\ Active(c) /\ op'[c] = op[c] /\ op[c].n = n
  BY DEF Active, Decide, CreateArtifact, FillArtifact, Advise, Announce, Runs
<1>1. /\ Active(c) /\ op[c].type = "append" => op[c].load \in Loads
      /\ Active(c) /\ op[c].type \in {"open", "update"} => op[c].status \in Statuses
  BY <1>0 DEF ClientOK
<1>2. CASE pc'[c] = "unlock"
  BY <1>0, <1>1, <1>2 DEF ClientOK, Active, Stabilizing
<1>3. ASSUME NEW h \in Hash, Backed(n, h), pend'[c] \in Record, pend'[c].current = h,
             pend'[c].status = "stabilized", pc'[c] \in Stabilizing,
             pc'[c] = "announce" => tail'[c] = LastEntry(journal'[n]),
             pc'[c] = "fill" => artifact'[PathOf[h]] = Torn,
             pc'[c] = "announce" => artifact'[PathOf[h]] = h
      PROVE  ClientOK(c)'
  <2>1. Backed(n, h)'
    BY <1>3, BackedStays
  <2>2. op'[c].n = n /\ pend'[c].current = h
    BY <1>0, <1>3
  <2>3. Backed(op[c].n, pend[c].current)'
    BY <2>1, <2>2 DEF Backed
  <2> QED BY <1>0, <1>1, <1>3, <2>2, <2>3 DEF ClientOK, Active, Stabilizing
<1>4. ASSUME Decide(c, n), pc'[c] # "unlock" PROVE ClientOK(c)'
  <2>1. PICK h \in Hash : /\ Stabilizable(journal[n], h) /\ pc'[c] = "create"
                          /\ pend'[c] = [status |-> "stabilized", current |-> h]
    BY <1>4 DEF Decide
  <2>2. Backed(n, h)
    BY <2>1, DecisionBacked
  <2>3. [status |-> "stabilized", current |-> h] \in Record
    BY DEF Record, AllStatuses
  <2> QED BY <1>3, <2>1, <2>2, <2>3 DEF Stabilizing
<1>5. ASSUME pc[c] \in Stabilizing
      PROVE  /\ pend[c] \in Record /\ pend[c].current \in Hash /\ pend[c].status = "stabilized"
             /\ Backed(n, pend[c].current) /\ PathOf[pend[c].current] \in Path
  BY <1>0, <1>5, PathAssumption DEF ClientOK
<1>6. ASSUME CreateArtifact(c, n), pc'[c] # "unlock" PROVE ClientOK(c)'
  <2>1. pc[c] = "create" /\ pc'[c] = "fill" /\ UNCHANGED pend
    BY <1>6 DEF CreateArtifact
  <2>2. artifact'[PathOf[pend[c].current]] = Torn
    BY <1>5, <1>6, <2>1 DEF CreateArtifact, Stabilizing
  <2> QED BY <1>3, <1>5, <2>1, <2>2 DEF Stabilizing
<1>7. ASSUME FillArtifact(c, n) PROVE ClientOK(c)'
  <2>1. /\ pc[c] = "fill" /\ pc'[c] = "announce" /\ UNCHANGED <<pend, journal>>
        /\ tail'[c] = LastEntry(journal[n])
    BY <1>7 DEF FillArtifact
  <2>2. artifact'[PathOf[pend[c].current]] = pend[c].current
    BY <1>5, <1>7, <2>1 DEF FillArtifact, Stabilizing
  <2> QED BY <1>3, <1>5, <2>1, <2>2 DEF Stabilizing
<1>8. ASSUME Advise(c, n) PROVE ClientOK(c)'
  <2>1. pc[c] = "announce" /\ pc'[c] = "announce" /\ UNCHANGED <<pend, artifact>>
    BY <1>8 DEF Advise
  <2>2. PICK a : /\ a = [kind |-> "escalation", actor |-> None, by |-> None,
                         hash |-> None, key |-> None]
                 /\ journal' = [journal EXCEPT ![n] = Append(@, NextEntry(tail[c], a))]
                 /\ tail' = [tail EXCEPT ![c] = NextEntry(tail[c], a)]
    BY <1>8 DEF Advise
  <2>3. PICK e \in Entry : e = NextEntry(tail[c], a)
    <3>1. a \in Load
      BY <2>2 DEF Load
    <3> QED BY <3>1, NextEntryType
  <2>4. tail'[c] = e /\ journal'[n] = Append(journal[n], e) /\ journal[n] \in Seq(Entry)
    BY <2>2, <2>3
  <2>5. tail'[c] = LastEntry(journal'[n])
    <3>1. Len(Append(journal[n], e)) = Len(journal[n]) + 1 /\ Len(journal[n]) \in Nat
      BY <2>4
    <3>2. Append(journal[n], e)[Len(journal[n]) + 1] = e
      BY <2>4
    <3>3. Append(journal[n], e) # <<>>
      <4>1. Len(journal[n]) + 1 # 0
        BY <3>1
      <4> QED BY <3>1, <4>1
    <3> QED BY <2>4, <3>1, <3>2, <3>3 DEF LastEntry
  <2>6. artifact'[PathOf[pend[c].current]] = pend[c].current
    BY <1>0, <2>1 DEF ClientOK
  <2> QED BY <1>3, <1>5, <2>1, <2>5, <2>6 DEF Stabilizing
<1>9. ASSUME Announce(c, n) PROVE ClientOK(c)'
  <2> DEFINE load == [kind |-> "stabilized", actor |-> None, by |-> None,
                      hash |-> pend[c].current, key |-> None]
  <2>1. /\ pc[c] = "announce" /\ pc'[c] = "truncate" /\ UNCHANGED pend
        /\ journal'[n] = Append(journal[n], NextEntry(tail[c], load))
    BY <1>9 DEF Announce
  <2>2. load \in Load /\ load.kind = "stabilized" /\ load.hash = pend[c].current
    BY <1>5, <2>1 DEF Load, Stabilizing
  <2> HIDE DEF load
  <2>3. NextEntry(tail[c], load) \in Entry /\ NextEntry(tail[c], load).load = load
    BY <2>2, NextEntryType
  <2>4. Len(journal[n]) + 1 \in DOMAIN journal'[n]
        /\ journal'[n][Len(journal[n]) + 1] = NextEntry(tail[c], load)
    BY <2>1, <2>3
  <2>5. op'[c].n = n /\ pend'[c].current = pend[c].current
    BY <1>0, <2>1
  <2>6. Announced(op[c].n, pend[c].current)'
    BY <2>2, <2>3, <2>4, <2>5 DEF Announced, StabilizedAt
  <2> QED BY <1>0, <1>1, <1>5, <2>1, <2>6 DEF ClientOK, Active, Stabilizing
<1> QED BY <1>2, <1>4, <1>6, <1>7, <1>8, <1>9

LEMMA ClientInvStep ==
    ASSUME IInv, [Next]_vars, NEW d \in Client
    PROVE  ClientOK(d)'
<1>1. CASE \E c \in Client : ClientStep(c) /\ c = d
  BY <1>1, OwnCalls, OwnWrites, OwnStabilize DEF ClientStep
<1>2. CASE ~(\E c \in Client : ClientStep(c) /\ c = d)
  <2>1. CASE \E c \in Client : ClientStep(c)
    BY <1>2, <2>1, OthersStay, OtherClients DEF IInv
  <2>2. CASE ~\E c \in Client : ClientStep(c)
    BY <2>2, BackgroundStays, OtherClients DEF Next
  <2> QED BY <2>1, <2>2
<1> QED BY <1>1, <1>2

\* The state file of n is rewritten by the holder of n only.
LEMMA StateMoves ==
    ASSUME IInv, NEW c \in Client, ClientStep(c), NEW n \in Nego, state'[n] # state[n]
    PROVE  Active(c) /\ op[c].n = n /\ (Truncate(c, n) \/ WriteState(c, n))
<1>1. PICK m \in Nego : Truncate(c, m) \/ WriteState(c, m)
  BY DEF ClientStep, Unlock, Crash, CallOpen, CallUpdate, CallAppend, CallStabilize, Call,
     Open, Update, AppendRead, AppendLine, Decide, CreateArtifact, FillArtifact, Advise,
     Announce, files
<1>2. m = n
  BY <1>1 DEF Truncate, WriteState, IInv, TypeOK
<1> QED BY <1>1, <1>2 DEF Truncate, WriteState, Active

\* So what a section has read of its state file stays while others move.
LEMMA FreshStays ==
    ASSUME IInv, [Next]_vars, NEW d \in Client, pc'[d] = pc[d], op'[d] = op[d], pend'[d] = pend[d],
           \A c \in Client : ClientStep(c) => c # d
    PROVE  FreshOK(d)'
<1>1. FreshOK(d)
  BY DEF IInv
<1>2. ASSUME Active(d) PROVE state'[op[d].n] = state[op[d].n]
  <2>1. op[d].n \in Nego /\ holder[op[d].n] = d
    BY <1>2 DEF IInv, LockOK, Op
  <2>2. ASSUME state'[op[d].n] # state[op[d].n] PROVE FALSE
    <3>1. PICK c \in Client : ClientStep(c)
      BY <2>2, BackgroundStays DEF Next
    <3>2. Active(c) /\ op[c].n = op[d].n
      BY <2>1, <2>2, <3>1, StateMoves
    <3> QED BY <2>1, <3>1, <3>2 DEF IInv, LockOK
  <2> QED BY <2>2
<1>3. CASE Active(d)
  BY <1>1, <1>2, <1>3 DEF FreshOK, Fresh
<1>4. CASE ~Active(d)
  BY <1>4 DEF FreshOK, Active, Stabilizing
<1> QED BY <1>3, <1>4

\* The section's own steps.
LEMMA FreshOwn ==
    ASSUME IInv, NEW c \in Client, ClientStep(c)
    PROVE  FreshOK(c)'
<1> USE DEF IInv, TypeOK, Goto, files
<1>0. FreshOK(c)
  OBVIOUS
<1>1. CASE pc'[c] \in {"idle", "locked", "unlock", "append", "dead"}
  BY <1>1 DEF FreshOK, Stabilizing
<1>2. ASSUME NEW n \in Nego, Open(c, n), pc'[c] = "truncate" PROVE FreshOK(c)'
  BY <1>2 DEF Open, Runs, FreshOK, Fresh, Stabilizing
<1>3. ASSUME NEW n \in Nego, Update(c, n), pc'[c] = "truncate" PROVE FreshOK(c)'
  <2>1. /\ state[n] \in Record /\ op[c].type = "update" /\ op[c].n = n
        /\ UNCHANGED <<op, state>>
        /\ pend'[c] = [state[n] EXCEPT !.status = op[c].status]
    BY <1>3 DEF Update, Runs
  <2>2. pend'[c].current = state[n].current /\ state[n] \notin {None, Torn}
    BY <2>1, NoneAssumption DEF Record
  <2> QED BY <1>3, <2>1, <2>2 DEF FreshOK, Fresh, Stabilizing
<1>4. ASSUME NEW n \in Nego, Truncate(c, n) PROVE FreshOK(c)'
  BY <1>4 DEF Truncate, FreshOK, Stabilizing
<1>5. ASSUME NEW n \in Nego, Decide(c, n), pc'[c] = "create" PROVE FreshOK(c)'
  BY <1>5 DEF Decide, Runs, FreshOK, Fresh, Stabilizing
<1>6. ASSUME NEW n \in Nego, \/ CreateArtifact(c, n) /\ pc'[c] = "fill"
                             \/ FillArtifact(c, n) \/ Advise(c, n) \/ Announce(c, n)
      PROVE  FreshOK(c)'
  <2>1. /\ pc[c] \in Stabilizing /\ pc'[c] \in Stabilizing \cup {"truncate"}
        /\ UNCHANGED <<op, pend, state>>
    BY <1>6 DEF CreateArtifact, FillArtifact, Advise, Announce, Stabilizing
  <2> QED BY <1>0, <2>1 DEF FreshOK, Fresh, Stabilizing
<1>7. ASSUME NEW n \in Nego, Open(c, n) \/ Update(c, n)
      PROVE  pc'[c] \in {"unlock", "truncate"}
  BY <1>7 DEF Open, Update
<1>8. ASSUME NEW n \in Nego, Decide(c, n)
      PROVE  pc'[c] \in {"unlock", "create"}
  BY <1>8 DEF Decide
<1>9. ASSUME NEW n \in Nego, CreateArtifact(c, n)
      PROVE  pc'[c] \in {"unlock", "fill"}
  BY <1>9 DEF CreateArtifact
<1>10. ASSUME NEW n \in Nego, WriteState(c, n) \/ AppendRead(c, n) \/ AppendLine(c, n)
       PROVE  pc'[c] \in {"unlock", "append"}
  BY <1>10 DEF WriteState, AppendRead, AppendLine
<1>11. ASSUME \/ Unlock(c) \/ Crash(c)
              \/ \E n \in Nego, s \in Statuses : CallOpen(c, n, s) \/ CallUpdate(c, n, s)
              \/ \E n \in Nego, l \in Loads : CallAppend(c, n, l)
              \/ \E n \in Nego : CallStabilize(c, n)
       PROVE  pc'[c] \in {"idle", "dead", "locked"}
  BY <1>11 DEF Unlock, Crash, CallOpen, CallUpdate, CallAppend, CallStabilize, Call
<1>12. CASE \E n \in Nego : Open(c, n) \/ Update(c, n) \/ Decide(c, n) \/ CreateArtifact(c, n)
  BY <1>1, <1>2, <1>3, <1>5, <1>6, <1>7, <1>8, <1>9, <1>12
<1>13. CASE \E n \in Nego : \/ Truncate(c, n) \/ FillArtifact(c, n) \/ Advise(c, n)
                             \/ Announce(c, n)
  BY <1>4, <1>6, <1>13
<1>14. CASE \E n \in Nego : WriteState(c, n) \/ AppendRead(c, n) \/ AppendLine(c, n)
  BY <1>1, <1>10, <1>14
<1> QED BY <1>1, <1>11, <1>12, <1>13, <1>14 DEF ClientStep

LEMMA FreshStep ==
    ASSUME IInv, [Next]_vars, NEW d \in Client
    PROVE  FreshOK(d)'
<1>1. CASE ClientStep(d)
  BY <1>1, FreshOwn
<1>2. CASE ~ClientStep(d)
  <2>1. CASE \E c \in Client : ClientStep(c)
    BY <1>2, <2>1, OthersStay, FreshStays DEF IInv
  <2>2. CASE ~\E c \in Client : ClientStep(c)
    BY <2>2, BackgroundStays, FreshStays DEF Next
  <2> QED BY <2>1, <2>2
<1> QED BY <1>1, <1>2

\* What a new `stabilized` entry says, when only stabilizeNegotiation journals one.
LEMMA NewlyStabilized ==
    ASSUME IInv, [Next]_vars, NoClaims, NEW n \in Nego, NEW i \in StabilizedAt(n)'
    PROVE  \/ i \in StabilizedAt(n) /\ journal'[n][i] = journal[n][i]
           \/ LET h == journal'[n][i].load.hash IN
              i = Len(journal[n]) + 1 /\ h \in Hash /\ Backed(n, h) /\ artifact'[PathOf[h]] = h
<1>0. /\ journal[n] \in Seq(Entry)
      /\ \A k \in DOMAIN journal[n] : k \in DOMAIN journal'[n] /\ journal'[n][k] = journal[n][k]
      /\ \A k \in DOMAIN journal'[n] \ DOMAIN journal[n] : k = Len(journal[n]) + 1
  BY EntriesStay
<1>1. i \in DOMAIN journal'[n] /\ journal'[n][i].load.kind = "stabilized"
  BY DEF StabilizedAt
<1>2. CASE i \in DOMAIN journal[n]
  BY <1>0, <1>1, <1>2 DEF StabilizedAt
<1>3. CASE i \notin DOMAIN journal[n]
  <2>1. PICK c \in Client : \E load \in Lines(c) :
             /\ pc[c] \in {"append", "announce"} /\ op[c].n = n
             /\ journal'[n] = Append(journal[n], NextEntry(LastEntry(journal[n]), load))
    BY <1>1, <1>3, JournalNext
  <2>2. PICK load \in Lines(c) :
             /\ pc[c] \in {"append", "announce"} /\ op[c].n = n
             /\ journal'[n] = Append(journal[n], NextEntry(LastEntry(journal[n]), load))
    BY <2>1
  <2>3. load \in Load
    BY <2>2, LinesType
  <2>4. /\ NextEntry(LastEntry(journal[n]), load) \in Entry
        /\ NextEntry(LastEntry(journal[n]), load).load = load
    BY <1>0, <2>3, LastEntryType, NextEntryType
  <2>5. i = Len(journal[n]) + 1 /\ journal'[n][i] = NextEntry(LastEntry(journal[n]), load)
    BY <1>0, <1>1, <1>3, <2>2, <2>4
  <2>6. pc[c] = "announce" /\ load.hash = pend[c].current
    BY <1>1, <2>2, <2>4, <2>5, LinesType DEF NoClaims
  <2>7. PICK h \in Hash : h = pend[c].current /\ Backed(n, h) /\ artifact[PathOf[h]] = h
    BY <2>2, <2>6 DEF IInv, ClientOK, Stabilizing
  <2>8. artifact'[PathOf[h]] = h
    BY <2>7, ArtifactsStay, PathAssumption
  <2> QED BY <2>4, <2>5, <2>6, <2>7, <2>8
<1> QED BY <1>2, <1>3

LEMMA QuorumStep ==
    ASSUME IInv, [Next]_vars, NoClaims
    PROVE  StabilizedByQuorum' /\ ArtefactNamed' /\ AnnouncedOnDisk'
<1> SUFFICES ASSUME NEW n \in Nego, NEW i \in StabilizedAt(n)'
    PROVE LET h == journal'[n][i].load.hash
              before == {journal'[n][k].load : k \in 1 .. (i - 1)} IN
        /\ \E load \in before : load.kind = "offer" /\ load.hash = h
        /\ \A a \in Required :
              /\ <<a, h>> \in Authorized
              /\ \E load \in before : /\ load.kind = "signature" /\ load.hash = h
                                      /\ load.actor = a /\ VerifiedSignature(load)
        /\ h \in Hash /\ artifact'[PathOf[h]] = h
  BY DEF StabilizedByQuorum, ArtefactNamed, AnnouncedOnDisk
<1> DEFINE before == {journal[n][k].load : k \in 1 .. (i - 1)}
           before2 == {journal'[n][k].load : k \in 1 .. (i - 1)}
           Holds(h, loads) ==
              /\ \E load \in loads : load.kind = "offer" /\ load.hash = h
              /\ \A a \in Required :
                    /\ <<a, h>> \in Authorized
                    /\ \E load \in loads : /\ load.kind = "signature" /\ load.hash = h
                                           /\ load.actor = a /\ VerifiedSignature(load)
<1>1. /\ journal[n] \in Seq(Entry)
      /\ \A k \in DOMAIN journal[n] : k \in DOMAIN journal'[n] /\ journal'[n][k] = journal[n][k]
  BY EntriesStay
<1>2. PICK h : h = journal'[n][i].load.hash
  OBVIOUS
<1>3. CASE i \in StabilizedAt(n) /\ journal'[n][i] = journal[n][i]
  <2>1. i \in DOMAIN journal[n]
    BY <1>3 DEF StabilizedAt
  <2>2. before = before2
    BY <1>1, <2>1
  <2>3. Holds(h, before)
    BY <1>2, <1>3 DEF IInv, StabilizedByQuorum
  <2>4. h \in Hash /\ artifact[PathOf[h]] = h
    BY <1>2, <1>3 DEF IInv, ArtefactNamed, AnnouncedOnDisk
  <2>5. artifact'[PathOf[h]] = h
    BY <2>4, ArtifactsStay, PathAssumption
  <2> QED BY <1>2, <2>2, <2>3, <2>4, <2>5
<1>4. CASE i = Len(journal[n]) + 1 /\ h \in Hash /\ Backed(n, h) /\ artifact'[PathOf[h]] = h
  <2>1. i - 1 = Len(journal[n]) /\ 1 .. (i - 1) = DOMAIN journal[n]
    BY <1>1, <1>4
  <2>2. before = before2 /\ before = {journal[n][k].load : k \in DOMAIN journal[n]}
    BY <1>1, <2>1
  <2>3. Holds(h, before)
    BY <1>4, <2>2 DEF Backed
  <2> QED BY <1>2, <1>4, <2>2, <2>3
<1> QED BY <1>2, <1>3, <1>4, NewlyStabilized

LEMMA StateStep ==
    ASSUME IInv, [Next]_vars, "stabilized" \notin Statuses
    PROVE  StateFollowsJournal'
<1> SUFFICES ASSUME NEW n \in Nego, state'[n] \notin {None, Torn}, state'[n].status = "stabilized"
             PROVE  Announced(n, state[n].current)'
  BY DEF StateFollowsJournal, Announced
<1>1. PICK h : h = state'[n].current
  OBVIOUS
<1>0. SUFFICES Announced(n, h)'
  BY <1>1 DEF Announced, StabilizedAt
<1>2. CASE state'[n] = state[n]
  <2>1. Announced(n, h)
    BY <1>1, <1>2 DEF IInv, StateFollowsJournal, Announced
  <2> QED BY <2>1, AnnouncedStays
<1>3. CASE state'[n] # state[n]
  <2>1. PICK c \in Client : WriteState(c, n)
    <3>1. PICK c \in Client : ClientStep(c)
      BY <1>3, BackgroundStays DEF Next
    <3>2. PICK m \in Nego : Truncate(c, m) \/ WriteState(c, m)
      BY <1>3, <3>1 DEF ClientStep, Unlock, Crash, CallOpen, CallUpdate, CallAppend,
         CallStabilize, Call, Open, Update, AppendRead, AppendLine, Decide,
         CreateArtifact, FillArtifact, Advise, Announce, files
    <3> QED BY <1>3, <3>2 DEF Truncate, WriteState, IInv, TypeOK
  <2>2. pc[c] = "write" /\ op[c].n = n /\ state'[n] = pend[c]
    BY <2>1 DEF WriteState, IInv, TypeOK
  <2>3. Announced(n, h)
    BY <1>1, <2>2 DEF IInv, ClientOK
  <2> QED BY <1>1, <2>3, AnnouncedStays
<1> QED BY <1>2, <1>3

-----------------------------------------------------------------------------
LEMMA InvStep == IInv /\ [Next]_vars => IInv'
<1> SUFFICES ASSUME IInv, [Next]_vars PROVE IInv'
  OBVIOUS
<1>1. TypeOK' /\ LockOK' /\ FillOK' /\ JournalChained'
  BY TypeStep, LockStep, FillStep, ChainStep
<1>2. \A d \in Client : ClientOK(d)' /\ FreshOK(d)'
  BY ClientInvStep, FreshStep
<1>3. NoClaims' <=> NoClaims
  BY DEF NoClaims
<1>4. NoClaims => StabilizedByQuorum' /\ ArtefactNamed' /\ AnnouncedOnDisk'
  BY QuorumStep
<1>5. "stabilized" \notin Statuses => StateFollowsJournal'
  BY StateStep
<1> QED BY <1>1, <1>2, <1>3, <1>4, <1>5 DEF IInv

\* The invariant on which every result below rests: a section runs under its
\* lock, what it has read of the journal stays so, and what it is about to
\* announce is backed, created by it alone and then whole.
THEOREM Invariance == Spec => []IInv
BY InitInv, InvStep, PTL DEF Spec

\* Every variable keeps its type; a signature is journalled within MaxLen.
THEOREM TypeCorrect == Spec => []TypeOK
BY Invariance, PTL DEF IInv

\* Whatever processes append, stabilize and die in the middle, and whatever the
\* payloads, verifyJournalChain holds of every journal.
THEOREM JournalAlwaysChained == Spec => []JournalChained
BY Invariance, PTL DEF IInv

\* When only stabilizeNegotiation writes `stabilized` payloads, each of them comes
\* after an offer and the verified, authorized signatures of all required signers.
THEOREM QuorumAlways == ASSUME NoClaims PROVE Spec => []StabilizedByQuorum
<1>1. IInv => StabilizedByQuorum
  BY DEF IInv
<1> QED BY <1>1, Invariance, PTL

\* Under the same hypothesis, the artefact that a `stabilized` entry names is on
\* disk, whole, at its path, at that moment and for ever after.
THEOREM OnDiskAlways == ASSUME NoClaims PROVE Spec => []AnnouncedOnDisk
<1>1. IInv => AnnouncedOnDisk
  BY DEF IInv
<1> QED BY <1>1, Invariance, PTL

\* When clients do not set the status `stabilized` themselves, a state file that
\* says so names an artefact that the journal has announced.
THEOREM StateAlwaysFollows ==
    ASSUME "stabilized" \notin Statuses PROVE Spec => []StateFollowsJournal
<1>1. IInv => StateFollowsJournal
  BY DEF IInv
<1> QED BY <1>1, Invariance, PTL

\* What an operation on a negotiation truncates is the record it has read, and a file
\* that a crash tore is never written again, whatever statuses clients set.
THEOREM NeverStale == Spec => []WriteNotStale
<1>1. IInv => WriteNotStale
  BY DEF IInv, FreshOK, WriteNotStale
<1> QED BY <1>1, Invariance, PTL

\* No step replaces an artefact that is whole on disk.
THEOREM WriteOnce == Spec => ArtifactWriteOnce
<1>1. IInv /\ [Next]_vars =>
         [\A p \in Path : artifact[p] \in Hash => artifact'[p] = artifact[p]]_vars
  BY ArtifactsStay
<1> QED BY <1>1, Invariance, PTL DEF Spec, ArtifactWriteOnce
=============================================================================
