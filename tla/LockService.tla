----------------------------- MODULE LockService -----------------------------
(* What the advisory lock of runtime/local-files/locks.ts promises its callers, *)
(* without saying how: at most one process incarnation holds the lock, only    *)
(* the holder runs inside the critical section, and the lock is taken away     *)
(* from a holder only after that holder has died.                              *)
CONSTANTS Ident,    \* process incarnations: a pid together with its start
          Nobody    \* no incarnation: not in Ident

VARIABLES holder,   \* the incarnation the lock belongs to, or Nobody
          inside,   \* the incarnations running their critical section
          live      \* the incarnations that are running

sVars == <<holder, inside, live>>

\* A lock may start out held by an incarnation of an earlier run of the program.
SInit == /\ holder \in Ident \cup {Nobody}
         /\ inside = {}
         /\ live \in SUBSET Ident
         /\ holder \notin live

Take(o) == /\ holder = Nobody
           /\ o \in live
           /\ holder' = o
           /\ UNCHANGED <<inside, live>>

Enter(o) == /\ holder = o
            /\ o \in live
            /\ inside' = inside \cup {o}
            /\ UNCHANGED <<holder, live>>

Leave(o) == /\ o \in inside
            /\ inside' = inside \ {o}
            /\ UNCHANGED <<holder, live>>

Give(o) == /\ holder = o
           /\ o \in live \ inside
           /\ holder' = Nobody
           /\ UNCHANGED <<inside, live>>

\* The death of a holder does not free the lock; a survivor's eviction does.
Die(S) == /\ S \subseteq live
          /\ live' = live \ S
          /\ inside' = inside \ S
          /\ UNCHANGED holder

Evict == /\ holder \in Ident \ live
         /\ holder' = Nobody
         /\ UNCHANGED <<inside, live>>

\* Incarnations are never reused: a new process is not the dead holder.
Start(o) == /\ o \notin live
            /\ o # holder
            /\ live' = live \cup {o}
            /\ UNCHANGED <<holder, inside>>

SNext == \/ \E o \in Ident : Take(o) \/ Enter(o) \/ Leave(o) \/ Give(o) \/ Start(o)
         \/ \E S \in SUBSET Ident : Die(S)
         \/ Evict

SSpec == SInit /\ [][SNext]_sVars
=============================================================================
