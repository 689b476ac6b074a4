---------------------------- MODULE RemoteServer ----------------------------
(* The remote endpoint over the registry: runtime/remote/accept.ts, server.ts  *)
(* and serve.ts with the replay guard of replay.ts.  A request is handled in   *)
(* one turn of the event loop: the signature is checked against the keys the   *)
(* registry holds then, the guard remembers the id, and the envelope is put    *)
(* in the recipient's inbox, which may have to wait for the inbox lock.        *)
(* An envelope on the wire may arrive at any time, again, or never.            *)
EXTENDS Registry

CONSTANTS Remote,      \* the envelopes that come over the wire
          Signer,      \* envelope -> instance that signed it
          SignKey,     \* envelope -> key of the signature
          Created,     \* envelope -> createdAt
          To,          \* envelope -> target, an instance or a sub-agent
          MaxAge,      \* maxAgeMs of the guard
          MaxSkew,     \* maxSkewMs of the guard
          MaxNow,      \* bound: last tick of the clock
          MaxRestarts  \* bound: restarts of the server

ASSUME RemoteAssumption == /\ Remote \subseteq Env
                           /\ Signer \in [Remote -> Inst] /\ SignKey \in [Remote -> Key]
                           /\ Created \in [Remote -> Nat] /\ To \in [Remote -> Actor]
                           /\ MaxAge \in Nat /\ MaxSkew \in Nat
                           /\ MaxNow \in Nat /\ MaxRestarts \in Nat

VARIABLES now,      \* the server's clock
          epoch,    \* restarts so far
          seen,     \* the envelopes whose id and createdAt the guard remembers
          busy,     \* the envelope that is being delivered, or None
          accepts,  \* what was accepted: envelope and epoch
          put       \* the remote envelopes that reached an inbox in this epoch

remoteVars == <<now, epoch, seen, busy, accepts, put>>
vars == <<regVars, remoteVars>>

\* checkEnvelopeFreshness
TooOld(e) == Created[e] + MaxAge < now
FreshEnvelope(e) == Created[e] <= now + MaxSkew /\ ~TooOld(e)

\* Mutant of Pruned: an id is forgotten one tick before it expires.
PrunedEarly == {e \in seen : Created[e] + MaxAge > now}

\* prune: what is left of the remembered ids.
Pruned == {e \in seen : ~TooOld(e)}

\* The guard knows an envelope by its id alone.
Replayed(e) == \E x \in Pruned : Id[x] = Id[e]

Init == /\ RegInit
        /\ now = 0
        /\ epoch = 0
        /\ seen = {}
        /\ busy = None
        /\ accepts = <<>>
        /\ put = {}

\* acceptRemoteEnvelope up to the guard: the keys are resolved in the same turn.
Accept(e) == /\ busy = None
             /\ SignKey[e] \in Active(Signer[e])
             /\ FreshEnvelope(e)
             /\ ~Replayed(e)
             /\ seen' = Pruned \cup {e}
             /\ busy' = e
             /\ accepts' = Append(accepts, [env |-> e, epoch |-> epoch])
             /\ UNCHANGED <<regVars, now, epoch, put>>

\* The answer is 409: the id is remembered.
RejectReplay(e) == /\ busy = None
                   /\ SignKey[e] \in Active(Signer[e])
                   /\ FreshEnvelope(e)
                   /\ Replayed(e)
                   /\ seen' = Pruned
                   /\ UNCHANGED <<regVars, now, epoch, busy, accepts, put>>

\* putInboxMessage for whatever actor the envelope names, then 202.
Deliver == /\ busy # None
           /\ PutInbox(To[busy], busy)
           /\ put' = put \cup {busy}
           /\ busy' = None
           /\ UNCHANGED <<registry, locals, now, epoch, seen, accepts>>

\* Mutant of DeliverFails: the error is swallowed and the server goes on.
DeliverFailsSwallowed == /\ busy # None
                         /\ epoch < MaxRestarts
                         /\ busy' = None
                         /\ UNCHANGED <<regVars, now, epoch, seen, accepts, put>>

\* A new process has an empty guard.
Fresh == /\ epoch < MaxRestarts
         /\ epoch' = epoch + 1
         /\ seen' = {}
         /\ busy' = None
         /\ put' = {}
         /\ UNCHANGED <<regVars, now, accepts>>

\* putInboxMessage throws out of the request handler: the process ends, uncaught.
DeliverFails == busy # None /\ Fresh

Restart == busy = None /\ Fresh

Tick == /\ now < MaxNow
        /\ now' = now + 1
        /\ UNCHANGED <<regVars, epoch, seen, busy, accepts, put>>

Next == \/ RegNext /\ UNCHANGED remoteVars
        \/ \E e \in Remote : Accept(e) \/ RejectReplay(e)
        \/ Deliver
        \/ DeliverFails
        \/ Restart
        \/ Tick

Spec == Init /\ [][Next]_vars
-----------------------------------------------------------------------------
TypeOK == /\ RegTypeOK
          /\ now \in 0 .. MaxNow /\ epoch \in 0 .. MaxRestarts
          /\ seen \subseteq Remote /\ put \subseteq Remote
          /\ busy \in Remote \cup {None}
          /\ accepts \in Seq([env : Remote, epoch : 0 .. MaxRestarts])

\* An envelope is accepted twice only by two incarnations of the server: within one,
\* the guard forgets an id no earlier than the freshness check refuses it.
AcceptedOnce == \A m, n \in DOMAIN accepts : accepts[m] = accepts[n] => m = n

\* A sender told "replayed" need not try again: every envelope the guard remembers was
\* put in its recipient's inbox, unless that very delivery is under way.  (A sender that
\* gives two envelopes one id is told so of the second, which is dropped.)
RememberedDelivered == seen \subseteq put \cup {busy}

\* Nothing signed with a key its owner was offboarded with is accepted after the
\* tombstone, whatever is added to the keyring since.
NoAcceptAfterOffboard ==
    [][\A e \in Remote : busy' = e /\ busy # e
          => \A t \in tombs : t.inst = Signer[e] => SignKey[e] \notin t.keys]_vars
=============================================================================
