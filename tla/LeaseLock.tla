----------------------------- MODULE LeaseLock -----------------------------
(* The time-based lease of runtime/local-files/lease.ts: a file created with   *)
(* O_EXCL and then written, which any contender may unlink and re-create once  *)
(* it has expired or does not parse.  One step is one system call.             *)
(*                                                                             *)
(* Time is kept as ages: a record's `renewedAt` is the clock its creator read  *)
(* at the start of its attempt, and an age is the time since then.             *)
EXTENDS Naturals, FiniteSets

CONSTANTS Proc,      \* contenders, on any host
          LeaseMs,   \* duration of a lease, in clock steps
          MaxStall,  \* bound: a contender's attempt takes at most this long
          MaxCrash,  \* bound: crashes
          None

ASSUME TimeAssumption == LeaseMs \in Nat \ {0} /\ MaxStall \in Nat
ASSUME CrashAssumption == MaxCrash \in Nat

\* Ages are counted up to here: older than any attempt, and expired for it.
MaxAge == LeaseMs + MaxStall + 1

VARIABLES file,      \* None, or the inode at the path: its creator and attempt (the
                     \* nonce), whether it has been written, and its record's age
          pc,        \* contender -> next step of attemptAcquire or releaseLease
          gen,       \* contender -> its current attempt, told from the one in the file
          age,       \* contender -> time since its attempt read the clock
          crashes    \* crashes so far

leaseVars == <<file, pc, gen, age, crashes>>

Inode == [who : Proc, gen : {0, 1}, full : BOOLEAN, age : 0 .. MaxAge]
ASSUME NoneAssumption == None \notin Inode
PC == {"idle", "create", "write", "read", "unlink", "recreate", "held", "release", "relUnlink"}
Attempting == {"create", "write", "read", "unlink", "recreate"}

LeaseInit == /\ file = None
             /\ pc = [p \in Proc |-> "idle"]
             /\ gen = [p \in Proc |-> 0]
             /\ age = [p \in Proc |-> 0]
             /\ crashes = 0

Goto(p, s) == pc' = [pc EXCEPT ![p] = s]
Mine(p) == file # None /\ file.who = p /\ file.gen = gen[p]

\* isExpired(existing, at), with `at` the clock at the start of p's attempt.
Expired(p) == file.age > LeaseMs + age[p]

\* Mutant of Stealable: a malformed file is taken for a held lease, and an
\* expired one too.
NeverStealable(p) == FALSE
\* A lease that parses and has not expired is respected; a torn or empty file
\* counts as malformed.
Stealable(p) == ~file.full \/ Expired(p)

\* attemptAcquire: the clock and a fresh nonce.
Attempt(p) ==
    /\ pc[p] = "idle"
    /\ age' = [age EXCEPT ![p] = 0]
    /\ gen' = [gen EXCEPT ![p] = IF file # None /\ file.who = p THEN 1 - file.gen ELSE @]
    /\ Goto(p, "create")
    /\ UNCHANGED <<file, crashes>>

\* Mutant of EmptyInode: the record names no holder.
AnonymousInode(p) == [who |-> None, gen |-> gen[p], full |-> FALSE, age |-> age[p]]
EmptyInode(p) == [who |-> p, gen |-> gen[p], full |-> FALSE, age |-> age[p]]

\* Mutant of Create: flag "w" instead of "wx".
CreateTruncating(p) ==
    /\ pc[p] = "create"
    /\ file' = EmptyInode(p)
    /\ Goto(p, "write")
    /\ UNCHANGED <<gen, age, crashes>>

\* writeLease: openSync(path, "wx"), which leaves an empty file until the write.
Create(p) ==
    /\ pc[p] = "create"
    /\ \/ file = None /\ file' = EmptyInode(p) /\ Goto(p, "write")
       \/ file # None /\ Goto(p, "read") /\ UNCHANGED file
    /\ UNCHANGED <<gen, age, crashes>>

\* The write goes to p's own inode even if its path is gone by now; p believes
\* in either case that it holds the lease.
Write(p) ==
    /\ pc[p] = "write"
    /\ file' = IF Mine(p) THEN [file EXCEPT !.full = TRUE, !.age = age[p]] ELSE file
    /\ Goto(p, "held")
    /\ UNCHANGED <<gen, age, crashes>>

Read(p) ==
    /\ pc[p] = "read"
    /\ \/ /\ file = None                     \* released meanwhile
          /\ Goto(p, "idle")
       \/ /\ file # None /\ ~Stealable(p)
          /\ Goto(p, "idle")
       \/ /\ file # None /\ Stealable(p)
          /\ Goto(p, "unlink")
    /\ UNCHANGED <<file, gen, age, crashes>>

\* The steal: unlink whatever is at the path, then re-create it with O_EXCL.
Unlink(p) ==
    /\ pc[p] = "unlink"
    /\ file' = None
    /\ Goto(p, "recreate")
    /\ UNCHANGED <<gen, age, crashes>>

Recreate(p) ==
    /\ pc[p] = "recreate"
    /\ \/ file = None /\ file' = EmptyInode(p) /\ Goto(p, "write")
       \/ file # None /\ Goto(p, "idle") /\ UNCHANGED file
    /\ UNCHANGED <<gen, age, crashes>>

StartRelease(p) ==
    /\ pc[p] = "held"
    /\ Goto(p, "release")
    /\ UNCHANGED <<file, gen, age, crashes>>

\* releaseLease: the nonce is compared, then the path is unlinked.
ReleaseRead(p) ==
    /\ pc[p] = "release"
    /\ Goto(p, IF Mine(p) /\ file.full THEN "relUnlink" ELSE "idle")
    /\ UNCHANGED <<file, gen, age, crashes>>

ReleaseUnlink(p) ==
    /\ pc[p] = "relUnlink"
    /\ file' = None
    /\ Goto(p, "idle")
    /\ UNCHANGED <<gen, age, crashes>>

\* The process dies and a new one takes its place; its lease file stays.
Crash(p) ==
    /\ pc[p] # "idle"
    /\ crashes < MaxCrash
    /\ crashes' = crashes + 1
    /\ Goto(p, "idle")
    /\ UNCHANGED <<file, gen, age>>

Older(a) == IF a < MaxAge THEN a + 1 ELSE a
\* The wall clock of the hosts advances.
Clock ==
    /\ \A p \in Proc : pc[p] \in Attempting => age[p] < MaxStall
    /\ file' = IF file = None THEN None ELSE [file EXCEPT !.age = Older(@)]
    /\ age' = [p \in Proc |-> IF pc[p] = "idle" THEN 0 ELSE Older(age[p])]
    /\ UNCHANGED <<pc, gen, crashes>>

LeaseStep(p) == \/ Attempt(p) \/ Create(p) \/ Write(p) \/ Read(p) \/ Unlink(p)
                \/ Recreate(p) \/ ReleaseRead(p) \/ ReleaseUnlink(p)

-----------------------------------------------------------------------------
LeaseTypeOK == /\ file \in Inode \cup {None}
               /\ pc \in [Proc -> PC]
               /\ gen \in [Proc -> {0, 1}]
               /\ age \in [Proc -> 0 .. MaxAge]
               /\ crashes \in 0 .. MaxCrash

\* p believes it holds the lease, and by its own record it has not expired.
HoldsUnexpired(p) == pc[p] \in {"held", "release", "relUnlink"} /\ age[p] <= LeaseMs

=============================================================================
