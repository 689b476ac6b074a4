---------------------------- MODULE Negotiation ----------------------------
(* Negotiations of the local-files store (runtime/local-files/store.ts with    *)
(* journal.ts): a state file, an append-only journal of chained entries, and   *)
(* the artefact a stabilization writes once.  Every operation runs under the   *)
(* negotiation's advisory lock, here the one LockService promises: it is taken *)
(* from a holder only by its release or after its death.  Processes die        *)
(* between any two system calls; writeFileSync truncates before it writes.     *)
EXTENDS Naturals, Sequences, FiniteSets

CONSTANTS Client,      \* processes, each one incarnation
          Nego,        \* negotiation ids
          Actor,       \* registered instances
          Required,    \* requiredSigners of every record
          Hash,        \* artefacts, identified by their canonical hash
          Path,        \* store paths of stabilized artefacts
          PathOf,      \* Hash -> Path: versions of one CONTRACT share a path
          Authorized,  \* <<actor, hash>> pairs the authority matrix allows
          Key, RegKeys,\* public keys; Actor -> the keys baked into its registration
          Loads,       \* journal payloads that clients append
          Statuses,    \* statuses that clients set
          Revocable,   \* <<actor, key>> pairs that may be revoked
          InitJournal, \* Nego -> payloads already journalled; that needs no state file
          MaxLen,      \* bound: journal entries of a negotiation
          None,
          Torn         \* a file that has been created or truncated and not yet written

ASSUME ActorAssumption == Required \subseteq Actor /\ RegKeys \in [Actor -> SUBSET Key]
ASSUME PathAssumption == PathOf \in [Hash -> Path]
ASSUME AuthorityAssumption == Authorized \subseteq Actor \X Hash
ASSUME LenAssumption == MaxLen \in Nat

VARIABLES holder,      \* Nego -> the client the negotiation's lock belongs to
          pc, op,      \* Client -> next step, and the operation under way
          tail,        \* Client -> the last journal entry it has read
          pend,        \* Client -> the record it is about to write
          state,       \* Nego -> contents of state.json
          journal,     \* Nego -> entries of the journal file
          artifact,    \* Path -> contents of a stabilized artefact's file
          revoked,     \* keyring: <<actor, key>> pairs with a `revoked` event
          late         \* history: <<n, i>> where entry i of n is a signature that was
                       \* journalled after its key had been revoked

vars == <<holder, pc, op, tail, pend, state, journal, artifact, revoked, late>>
files == <<state, journal, artifact, revoked, late>>

AllStatuses == {"draft", "proposed", "countered", "accepted", "rejected", "withdrawn",
                "expired", "stabilized", "abandoned"}
\* A payload: an offer carries an artefact, a signature a signed hash.
Load == [kind : {"offer", "signature", "escalation", "stabilized"},
         actor : Actor \cup {None}, by : Actor \cup {None},
         hash : Hash \cup {None}, key : Key \cup {None}]
Entry == [seq : Nat, prev : Load \cup {None}, load : Load]
Record == [status : AllStatuses, current : Hash \cup {None}]
\* A call of the store: its method, negotiation and argument.
Op == [type : {"open", "update", "append", "stabilize"}, n : Nego,
       status : AllStatuses \cup {None}, load : Load \cup {None}]

ASSUME KeyAssumption == \A x \in Revocable : x \in Actor \X Key /\ x[2] \in RegKeys[x[1]]
ASSUME LoadAssumption == /\ Loads \subseteq Load /\ Statuses \subseteq AllStatuses
                         /\ \A n \in Nego : InitJournal[n] \in Seq(Load)
ASSUME NoneAssumption == /\ None \notin Client \cup Hash \cup Load \cup Record \cup Entry
                         /\ Torn \notin {None} \cup Hash \cup Record

(* journal.ts.  contentHash covers the payload alone, so an entry is its       *)
(* payload, its sequence number and its predecessor's payload.                 *)
createJournalEntry(load) == [seq |-> 0, prev |-> None, load |-> load]
appendJournalEntry(e, load) == [seq |-> e.seq + 1, prev |-> e.load, load |-> load]
verifyJournalChain(j) ==
    \A i \in DOMAIN j : /\ j[i].seq = i - 1
                        /\ j[i].prev = IF i = 1 THEN None ELSE j[i - 1].load
NextEntry(e, load) == IF e = None THEN createJournalEntry(load)
                      ELSE appendJournalEntry(e, load)
LastEntry(j) == IF j = <<>> THEN None ELSE j[Len(j)]

(* What stabilizeNegotiation concludes from the journal. *)
Signatures(j) == {i \in DOMAIN j : j[i].load.kind = "signature"}
SignersOf(j, h) == {j[i].load.actor : i \in {k \in Signatures(j) : j[k].load.hash = h}}

\* The signature is the acting instance's and verifies against a key of its
\* registration (not of the keyring).
VerifiedSignature(load) ==
    load.by = load.actor /\ load.actor \in Actor /\ load.key \in RegKeys[load.actor]

\* Mutant of FullQuorum: one required signer is enough.
SomeQuorum(j, h) == Required \cap SignersOf(j, h) # {}
FullQuorum(j, h) == Required \subseteq SignersOf(j, h)

\* byHash keeps insertion order: of the hashes with a full quorum, the one that
\* was signed first wins.
Wins(j, h) ==
    /\ FullQuorum(j, h)
    /\ \E i \in Signatures(j) :
          /\ j[i].load.hash = h
          /\ \A k \in Signatures(j) : k < i => ~FullQuorum(j, j[k].load.hash)

\* One invalid signature anywhere fails the stabilization, as do a winner nobody
\* offered and an unauthorized signer of the winner.
Stabilizable(j, h) ==
    /\ verifyJournalChain(j)
    /\ Required # {}
    /\ \A i \in Signatures(j) : VerifiedSignature(j[i].load)
    /\ Wins(j, h)
    /\ \E i \in DOMAIN j : j[i].load.kind = "offer" /\ j[i].load.hash = h
    /\ \A a \in SignersOf(j, h) : <<a, h>> \in Authorized

-----------------------------------------------------------------------------
Init == /\ holder = [n \in Nego |-> None]
        /\ pc = [c \in Client |-> "idle"]
        /\ op = [c \in Client |-> None]
        /\ tail = [c \in Client |-> None]
        /\ pend = [c \in Client |-> None]
        /\ state = [n \in Nego |-> None]
        /\ journal = [n \in Nego |->
              [i \in DOMAIN InitJournal[n] |->
                 [seq |-> i - 1,
                  prev |-> IF i = 1 THEN None ELSE InitJournal[n][i - 1],
                  load |-> InitJournal[n][i]]]]
        /\ artifact = [p \in Path |-> None]
        /\ revoked = {}
        /\ late = {}

Goto(c, s) == pc' = [pc EXCEPT ![c] = s]
\* c runs the section of an operation of this type on negotiation n.
Runs(c, t, n) == pc[c] = "locked" /\ op[c].type = t /\ op[c].n = n

\* Mutant of Call: the lock is not consulted.
CallUnlocked(c, t, n, s, l) ==
    /\ pc[c] = "idle"
    /\ holder' = [holder EXCEPT ![n] = c]
    /\ Goto(c, "locked")
    /\ op' = [op EXCEPT ![c] = [type |-> t, n |-> n, status |-> s, load |-> l]]
    /\ UNCHANGED <<tail, pend, files>>

\* A client that called a method of the store has got the negotiation's lock.
Call(c, t, n, s, l) ==
    /\ pc[c] = "idle"
    /\ holder[n] = None
    /\ holder' = [holder EXCEPT ![n] = c]
    /\ Goto(c, "locked")
    /\ op' = [op EXCEPT ![c] = [type |-> t, n |-> n, status |-> s, load |-> l]]
    /\ UNCHANGED <<tail, pend, files>>

CallOpen(c, n, s) == Call(c, "open", n, s, None)
CallUpdate(c, n, s) == Call(c, "update", n, s, None)
CallAppend(c, n, l) == Len(journal[n]) < MaxLen /\ Call(c, "append", n, None, l)
CallStabilize(c, n) == Call(c, "stabilize", n, None, None)

\* The section ended, by its result or by an error: the lock is released.
Unlock(c) ==
    /\ pc[c] = "unlock"
    /\ holder' = [holder EXCEPT ![op[c].n] = None]
    /\ Goto(c, "idle")
    /\ op' = [op EXCEPT ![c] = None]
    /\ tail' = [tail EXCEPT ![c] = None]
    /\ pend' = [pend EXCEPT ![c] = None]
    /\ UNCHANGED files

\* Mutant of Open: a file that does not parse is taken for a missing one.
OpenOverTorn(c, n) ==
    /\ Runs(c, "open", n)
    /\ \/ /\ state[n] \notin {None, Torn}
          /\ Goto(c, "unlock") /\ UNCHANGED pend
       \/ /\ state[n] \in {None, Torn}
          /\ pend' = [pend EXCEPT ![c] = [status |-> op[c].status, current |-> None]]
          /\ Goto(c, "truncate")
    /\ UNCHANGED <<holder, op, tail, files>>

\* openNegotiation: throws if the state file exists, even a torn one.
Open(c, n) ==
    /\ Runs(c, "open", n)
    /\ \/ /\ state[n] # None
          /\ Goto(c, "unlock") /\ UNCHANGED pend
       \/ /\ state[n] = None
          /\ pend' = [pend EXCEPT ![c] = [status |-> op[c].status, current |-> None]]
          /\ Goto(c, "truncate")
    /\ UNCHANGED <<holder, op, tail, files>>

\* updateNegotiationStatus: any status may follow any other.  A torn state file
\* does not parse, so this throws too.
Update(c, n) ==
    /\ Runs(c, "update", n)
    /\ \/ /\ state[n] \in {None, Torn}
          /\ Goto(c, "unlock") /\ UNCHANGED pend
       \/ /\ state[n] \notin {None, Torn}
          /\ pend' = [pend EXCEPT ![c] = [state[n] EXCEPT !.status = op[c].status]]
          /\ Goto(c, "truncate")
    /\ UNCHANGED <<holder, op, tail, files>>

\* writeFileSync(state.json): open with truncation, then write.
Truncate(c, n) ==
    /\ pc[c] = "truncate" /\ op[c].n = n
    /\ state' = [state EXCEPT ![n] = Torn]
    /\ Goto(c, "write")
    /\ UNCHANGED <<holder, op, tail, pend, journal, artifact, revoked, late>>

WriteState(c, n) ==
    /\ pc[c] = "write" /\ op[c].n = n
    /\ state' = [state EXCEPT ![n] = pend[c]]
    /\ Goto(c, "unlock")
    /\ UNCHANGED <<holder, op, tail, pend, journal, artifact, revoked, late>>

\* appendNegotiationEvent: reads and verifies the journal (the negotiation need
\* not be open, nor unstabilized), then appends a line framed by its last entry.
AppendRead(c, n) ==
    /\ Runs(c, "append", n)
    /\ \/ /\ verifyJournalChain(journal[n])
          /\ tail' = [tail EXCEPT ![c] = LastEntry(journal[n])]
          /\ Goto(c, "append")
       \/ /\ ~verifyJournalChain(journal[n])
          /\ Goto(c, "unlock") /\ UNCHANGED tail
    /\ UNCHANGED <<holder, op, pend, files>>

\* Mutant of AppendLine: the payload is journalled without its frame.
AppendUnframed(c, n) ==
    /\ pc[c] = "append" /\ op[c].n = n
    /\ journal' = [journal EXCEPT ![n] = Append(@, op[c].load)]
    /\ Goto(c, "unlock")
    /\ UNCHANGED <<holder, op, tail, pend, state, artifact, revoked, late>>

AppendLine(c, n) ==
    /\ pc[c] = "append" /\ op[c].n = n
    /\ journal' = [journal EXCEPT ![n] = Append(@, NextEntry(tail[c], op[c].load))]
    /\ late' = IF <<op[c].load.actor, op[c].load.key>> \in revoked
               THEN late \cup {<<n, Len(journal[n]) + 1>>} ELSE late
    /\ Goto(c, "unlock")
    /\ UNCHANGED <<holder, op, tail, pend, state, artifact, revoked>>

\* stabilizeNegotiation, up to the decision.
Decide(c, n) ==
    /\ Runs(c, "stabilize", n)
    /\ LET ready == state[n] \notin {None, Torn} /\ state[n].status # "stabilized" IN
       \/ \E h \in Hash :
             /\ ready /\ Stabilizable(journal[n], h)
             /\ pend' = [pend EXCEPT ![c] = [status |-> "stabilized", current |-> h]]
             /\ Goto(c, "create")
       \/ /\ ~(ready /\ \E h \in Hash : Stabilizable(journal[n], h))
          /\ Goto(c, "unlock") /\ UNCHANGED pend
    /\ UNCHANGED <<holder, op, tail, files>>

\* Mutant of CreateArtifact: flag "w" instead of "wx".
CreateOverwriting(c, n) ==
    /\ pc[c] = "create" /\ op[c].n = n
    /\ artifact' = [artifact EXCEPT ![PathOf[pend[c].current]] = Torn]
    /\ Goto(c, "fill")
    /\ UNCHANGED <<holder, op, tail, pend, state, journal, revoked, late>>

\* writeFileSync(artifactPath, flag "wx"): EEXIST fails the stabilization, also
\* when the file is what an interrupted stabilization left.
CreateArtifact(c, n) ==
    LET p == PathOf[pend[c].current] IN
    /\ pc[c] = "create" /\ op[c].n = n
    /\ \/ /\ artifact[p] = None
          /\ artifact' = [artifact EXCEPT ![p] = Torn]
          /\ Goto(c, "fill")
       \/ /\ artifact[p] # None
          /\ Goto(c, "unlock") /\ UNCHANGED artifact
    /\ UNCHANGED <<holder, op, tail, pend, state, journal, revoked, late>>

\* The artefact's contents, then the journal is read again.
FillArtifact(c, n) ==
    /\ pc[c] = "fill" /\ op[c].n = n
    /\ artifact' = [artifact EXCEPT ![PathOf[pend[c].current]] = pend[c].current]
    /\ tail' = [tail EXCEPT ![c] = LastEntry(journal[n])]
    /\ Goto(c, "announce")
    /\ UNCHANGED <<holder, op, pend, state, journal, revoked, late>>

\* One advisory entry per declarable conflict, and one on missing confidence.
Advise(c, n) ==
    LET e == NextEntry(tail[c], [kind |-> "escalation", actor |-> None, by |-> None,
                                 hash |-> None, key |-> None]) IN
    /\ pc[c] = "announce" /\ op[c].n = n
    /\ Len(journal[n]) < MaxLen
    /\ journal' = [journal EXCEPT ![n] = Append(@, e)]
    /\ tail' = [tail EXCEPT ![c] = e]
    /\ UNCHANGED <<holder, pc, op, pend, state, artifact, revoked, late>>

\* Mutant of Announce: the state file is written without the journal entry.
AnnounceNothing(c, n) ==
    /\ pc[c] = "announce" /\ op[c].n = n
    /\ Goto(c, "truncate")
    /\ UNCHANGED <<holder, op, tail, pend, files>>

\* The final `stabilized` entry; the state file follows.
Announce(c, n) ==
    /\ pc[c] = "announce" /\ op[c].n = n
    /\ journal' = [journal EXCEPT ![n] = Append(@, NextEntry(tail[c],
           [kind |-> "stabilized", actor |-> None, by |-> None,
            hash |-> pend[c].current, key |-> None]))]
    /\ Goto(c, "truncate")
    /\ UNCHANGED <<holder, op, tail, pend, state, artifact, revoked, late>>

\* revokeInstanceKey, under the registry's own lock: one appended row.
RevokeKey(x) ==
    /\ x \notin revoked
    /\ revoked' = revoked \cup {x}
    /\ UNCHANGED <<holder, pc, op, tail, pend, state, journal, artifact, late>>

\* A client dies; its lock stays until another process has proved it dead.
Crash(c) ==
    /\ pc[c] # "dead"
    /\ Goto(c, "dead")
    /\ op' = [op EXCEPT ![c] = None]
    /\ tail' = [tail EXCEPT ![c] = None]
    /\ pend' = [pend EXCEPT ![c] = None]
    /\ UNCHANGED <<holder, files>>

Evict(n) ==
    /\ holder[n] # None
    /\ pc[holder[n]] = "dead"
    /\ holder' = [holder EXCEPT ![n] = None]
    /\ UNCHANGED <<pc, op, tail, pend, files>>

ClientStep(c) ==
    \/ Unlock(c) \/ Crash(c)
    \/ \E n \in Nego, s \in Statuses : CallOpen(c, n, s) \/ CallUpdate(c, n, s)
    \/ \E n \in Nego, l \in Loads : CallAppend(c, n, l)
    \/ \E n \in Nego : \/ CallStabilize(c, n)
                       \/ Open(c, n) \/ Update(c, n) \/ Truncate(c, n)
                       \/ WriteState(c, n) \/ AppendRead(c, n) \/ AppendLine(c, n)
                       \/ Decide(c, n) \/ CreateArtifact(c, n) \/ FillArtifact(c, n)
                       \/ Advise(c, n) \/ Announce(c, n)

Next == \/ \E c \in Client : ClientStep(c)
        \/ \E x \in Revocable : RevokeKey(x)
        \/ \E n \in Nego : Evict(n)

Spec == Init /\ [][Next]_vars

-----------------------------------------------------------------------------
PC == {"idle", "locked", "unlock", "truncate", "write", "append", "create", "fill",
       "announce", "dead"}

TypeOK == /\ holder \in [Nego -> Client \cup {None}]
          /\ pc \in [Client -> PC]
          /\ op \in [Client -> Op \cup {None}]
          /\ tail \in [Client -> Entry \cup {None}]
          /\ pend \in [Client -> Record \cup {None}]
          /\ state \in [Nego -> Record \cup {None, Torn}]
          /\ journal \in [Nego -> Seq(Entry)]
          /\ artifact \in [Path -> Hash \cup {None, Torn}]
          /\ revoked \subseteq Actor \X Key
          /\ late \subseteq Nego \X (1 .. MaxLen)

\* Whatever processes append, stabilize and die in the middle, the journal of a
\* negotiation verifies: verifyJournalChain never reports a corrupt chain.
JournalChained == \A n \in Nego : verifyJournalChain(journal[n])

StabilizedAt(n) == {i \in DOMAIN journal[n] : journal[n][i].load.kind = "stabilized"}

\* A `stabilized` entry comes after an offer of its artefact and after verified
\* signatures of that very artefact by all required signers, all authorized.
StabilizedByQuorum ==
    \A n \in Nego : \A i \in StabilizedAt(n) :
        LET h == journal[n][i].load.hash
            before == {journal[n][k].load : k \in 1 .. (i - 1)} IN
        /\ \E load \in before : load.kind = "offer" /\ load.hash = h
        /\ \A a \in Required :
              /\ <<a, h>> \in Authorized
              /\ \E load \in before : /\ load.kind = "signature" /\ load.hash = h
                                      /\ load.actor = a /\ VerifiedSignature(load)

\* The artefact a `stabilized` entry announces is on disk, whole, at its path,
\* and stays there: no later stabilization, of this negotiation or of another
\* one that yields the same path, replaces it.
AnnouncedOnDisk ==
    \A n \in Nego : \A i \in StabilizedAt(n) :
        LET h == journal[n][i].load.hash IN artifact[PathOf[h]] = h

\* Unless clients set the status themselves, a state file that says `stabilized`
\* agrees with the journal: the artefact it names has been announced.
StateFollowsJournal ==
    \A n \in Nego : state[n] \notin {None, Torn} /\ state[n].status = "stabilized" =>
        \E i \in StabilizedAt(n) : journal[n][i].load.hash = state[n].current

\* The record that c read, or found missing, is still what state.json holds.
Fresh(c) ==
    LET r == state[op[c].n] IN
    /\ op[c].type = "open" => r = None
    /\ op[c].type = "update" => r \notin {None, Torn} /\ r.current = pend[c].current
    /\ op[c].type = "stabilize" => r \notin {None, Torn} /\ r.status # "stabilized"

\* openNegotiation, updateNegotiationStatus and stabilizeNegotiation read state.json
\* some steps before they rewrite it: what they truncate is what they read, so no
\* status is set on, and no artefact dropped from, a record that was replaced
\* meanwhile, and a file torn by a crash is neither opened anew nor updated, so no
\* second record starts over the journal of the first.
WriteNotStale ==
    \A c \in Client : /\ pc[c] = "truncate" => Fresh(c)
                      /\ pc[c] = "write" => state[op[c].n] = Torn

\* "A stabilized artefact never changes on disk again."
ArtifactWriteOnce ==
    [][\A p \in Path : artifact[p] \in Hash => artifact'[p] = artifact[p]]_vars

\* "A `revoke` takes effect everywhere at once": a signature made with a key that
\* had been revoked before never counts towards the quorum of a stabilization.
RevokedKeysDoNotCount ==
    \A n \in Nego : \A i \in StabilizedAt(n) : \A a \in Required :
        \E k \in 1 .. (i - 1) : LET load == journal[n][k].load IN
            /\ load.kind = "signature" /\ load.actor = a
            /\ load.hash = journal[n][i].load.hash
            /\ <<n, k>> \notin late

=============================================================================
