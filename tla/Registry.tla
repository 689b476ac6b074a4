------------------------------ MODULE Registry ------------------------------
(* The registry of runtime/local-files/store.ts: registrations, the keyring,   *)
(* sub-agent bindings and their audit, offboarding, mailboxes and routing.     *)
(* Each file is append-only.  A section under the registry lock or an inbox    *)
(* lock is one step (AdvisoryLock shows that sections exclude each other);     *)
(* what the code does outside the locks - offboardInstance, routeToSubagent -  *)
(* is a step per read or section.                                              *)
EXTENDS Naturals, Sequences, FiniteSets

CONSTANTS Proc,      \* processes that offboard and route
          Inst,      \* instances
          Key,       \* public keys
          RegKeys,   \* instance -> the keys of its registration
          Agents,    \* instances whose roles include AGENTS
          Sub,       \* sub-agents
          Parent,    \* sub-agent -> parent instance
          Env,       \* envelopes
          MsgId,     \* envelope ids
          Id,        \* envelope -> its id; two envelopes may share one
          MaxKeyLog, \* bound: no key is added to a keyring so long
          MaxAudit,  \* bound: no routing begins once the audit is so long
          None       \* no instance, sub-agent or envelope

ASSUME RegistryAssumption == /\ RegKeys \in [Inst -> SUBSET Key] /\ Agents \subseteq Inst
                             /\ Parent \in [Sub -> Inst] /\ Id \in [Env -> MsgId]
                             /\ MaxKeyLog \in Nat /\ MaxAudit \in Nat
ASSUME NoneAssumption == None \notin Inst \cup Sub \cup Env \cup MsgId

KeyEvent == [inst : Inst, key : Key, type : {"added", "revoked"}]
Audit == [sub : Sub, type : {"registered", "routed", "revoked"}, id : MsgId \cup {None}]
Tombstone == [inst : Inst, keys : SUBSET Key, subs : SUBSET Sub]

VARIABLES regd,    \* the registered instances
          keyLog,  \* keys.jsonl
          bound,   \* the sub-agents in subagents.jsonl
          audit,   \* subagent-audit.jsonl
          tombs,   \* offboard.jsonl; `keys` is a count in the file
          inbox,   \* actor -> envelopes in its inbox
          pc,      \* process -> next step of its offboarding or routing
          about,   \* process -> the instance or the sub-agent the call is about
          env,     \* process -> the envelope it routes
          todo,    \* process -> listed keys or sub-agents still to revoke
          keys,    \* process -> the keys it listed
          subs,    \* process -> the sub-agents it listed
          late     \* sub-agent -> ids past the check of their routing when it was revoked

locals == <<pc, about, env, todo, keys, subs>>
registry == <<regd, keyLog, bound, audit, tombs, late>>
regVars == <<registry, inbox, locals>>

PC == {"idle", "keys", "listsubs", "subs", "tombstone", "put", "audit"}
Actor == Inst \cup Sub

RevokedKeys(i) == {keyLog[n].key : n \in {n \in DOMAIN keyLog :
                      keyLog[n].inst = i /\ keyLog[n].type = "revoked"}}
AddedKeys(i) == {keyLog[n].key : n \in {n \in DOMAIN keyLog :
                      keyLog[n].inst = i /\ keyLog[n].type = "added"}}

\* Mutant of Active: the last event of a key decides.
ActiveLastWins(i) ==
    {k \in Key : LET E == {n \in DOMAIN keyLog : keyLog[n].inst = i /\ keyLog[n].key = k}
                 IN  IF E = {} THEN i \in regd /\ k \in RegKeys[i]
                     ELSE \E n \in E : keyLog[n].type = "added" /\ \A m \in E : m <= n}

\* listInstanceKeys: a revocation outweighs every registration and addition.
Active(i) == ((IF i \in regd THEN RegKeys[i] ELSE {}) \cup AddedKeys(i)) \ RevokedKeys(i)

\* subagentStatus: derived from the audit log.
Revoked(s) == \E n \in DOMAIN audit : audit[n].sub = s /\ audit[n].type = "revoked"

RegInit == /\ regd = {}
           /\ keyLog = <<>>
           /\ bound = {}
           /\ audit = <<>>
           /\ tombs = {}
           /\ inbox = [a \in Actor |-> {}]
           /\ pc = [p \in Proc |-> "idle"]
           /\ about = [p \in Proc |-> None]
           /\ env = [p \in Proc |-> None]
           /\ todo = [p \in Proc |-> {}]
           /\ keys = [p \in Proc |-> {}]
           /\ subs = [p \in Proc |-> {}]
           /\ late = [s \in Sub |-> {}]

Goto(p, s) == pc' = [pc EXCEPT ![p] = s]

\* The call of p returns or throws.
Return(p) == /\ Goto(p, "idle")
             /\ about' = [about EXCEPT ![p] = None]
             /\ env' = [env EXCEPT ![p] = None]
             /\ todo' = [todo EXCEPT ![p] = {}]
             /\ keys' = [keys EXCEPT ![p] = {}]
             /\ subs' = [subs EXCEPT ![p] = {}]

KeyRow(i, k, t) == keyLog' = Append(keyLog, [inst |-> i, key |-> k, type |-> t])
AuditRow(s, t, x) == audit' = Append(audit, [sub |-> s, type |-> t, id |-> x])
-----------------------------------------------------------------------------
RegisterInstance(i) == /\ i \notin regd
                       /\ regd' = regd \cup {i}
                       /\ UNCHANGED <<keyLog, bound, audit, tombs, late, inbox, locals>>

\* A revoked key may be added again; it stays inactive.
AddInstanceKey(i, k) == /\ i \in regd
                        /\ k \notin Active(i)
                        /\ Len(keyLog) < MaxKeyLog
                        /\ KeyRow(i, k, "added")
                        /\ UNCHANGED <<regd, bound, audit, tombs, late, inbox, locals>>

RevokeInstanceKey(i, k) == /\ k \in Active(i)
                           /\ KeyRow(i, k, "revoked")
                           /\ UNCHANGED <<regd, bound, audit, tombs, late, inbox, locals>>

\* registerSubagent: the binding and its audit row; a crash may come between the two.
RegisterSubagent(s) == /\ Parent[s] \in regd
                       /\ Parent[s] \in Agents
                       /\ s \notin bound
                       /\ bound' = bound \cup {s}
                       /\ AuditRow(s, "registered", None) \/ audit' = audit
                       /\ UNCHANGED <<regd, keyLog, tombs, late, inbox, locals>>

Routing(s) == {p \in Proc : pc[p] \in {"put", "audit"} /\ about[p] = s}

\* The audit row of a revocation; `late` notes the routings it cannot stop any more.
RevokeRow(s) == /\ AuditRow(s, "revoked", None)
                /\ late' = [late EXCEPT ![s] = {Id[env[p]] : p \in Routing(s)}]

RevokeSubagent(s) == /\ s \in bound
                     /\ ~Revoked(s)
                     /\ RevokeRow(s)
                     /\ UNCHANGED <<regd, keyLog, bound, tombs, inbox, locals>>
-----------------------------------------------------------------------------
(* offboardInstance: list and revoke keys, list and revoke sub-agents, tombstone. *)

OffboardKeys(p, i) == /\ pc[p] = "idle"
                      /\ i \in regd
                      /\ about' = [about EXCEPT ![p] = i]
                      /\ keys' = [keys EXCEPT ![p] = Active(i)]
                      /\ todo' = [todo EXCEPT ![p] = Active(i)]
                      /\ Goto(p, "keys")
                      /\ UNCHANGED <<registry, inbox, env, subs>>

\* Mutant of OffboardKey: the revocation trusts the list.
OffboardKeyUnchecked(p) ==
    /\ pc[p] = "keys"
    /\ \E k \in todo[p] : /\ KeyRow(about[p], k, "revoked")
                          /\ todo' = [todo EXCEPT ![p] = @ \ {k}]
    /\ UNCHANGED <<regd, bound, audit, tombs, late, inbox, pc, about, env, keys, subs>>

\* revokeInstanceKey for a listed key; it throws if the key was revoked meanwhile.
OffboardKey(p) ==
    /\ pc[p] = "keys"
    /\ \E k \in todo[p] :
          \/ /\ k \in Active(about[p])
             /\ KeyRow(about[p], k, "revoked")
             /\ todo' = [todo EXCEPT ![p] = @ \ {k}]
             /\ UNCHANGED <<pc, about, env, keys, subs>>
          \/ k \notin Active(about[p]) /\ Return(p) /\ UNCHANGED keyLog
    /\ UNCHANGED <<regd, bound, audit, tombs, late, inbox>>

\* Mutant of OffboardSubs: the parents of the bindings are listed.
OffboardSubsParents(p) ==
    /\ pc[p] = "keys"
    /\ todo[p] = {}
    /\ LET L == {Parent[s] : s \in {s \in bound : Parent[s] = about[p] /\ ~Revoked(s)}}
       IN  subs' = [subs EXCEPT ![p] = L] /\ todo' = [todo EXCEPT ![p] = L]
    /\ Goto(p, "subs")
    /\ UNCHANGED <<registry, inbox, about, env, keys>>

OffboardSubs(p) ==
    /\ pc[p] = "keys"
    /\ todo[p] = {}
    /\ LET L == {s \in bound : Parent[s] = about[p] /\ ~Revoked(s)}
       IN  subs' = [subs EXCEPT ![p] = L] /\ todo' = [todo EXCEPT ![p] = L]
    /\ Goto(p, "subs")
    /\ UNCHANGED <<registry, inbox, about, env, keys>>

OffboardSub(p) ==
    /\ pc[p] = "subs"
    /\ \E s \in todo[p] :
          \/ /\ ~Revoked(s)
             /\ RevokeRow(s)
             /\ todo' = [todo EXCEPT ![p] = @ \ {s}]
             /\ UNCHANGED <<pc, about, env, keys, subs>>
          \/ Revoked(s) /\ Return(p) /\ UNCHANGED <<audit, late>>
    /\ UNCHANGED <<regd, keyLog, bound, tombs, inbox>>

OffboardTombstone(p) ==
    /\ pc[p] = "subs"
    /\ todo[p] = {}
    /\ tombs' = tombs \cup {[inst |-> about[p], keys |-> keys[p], subs |-> subs[p]]}
    /\ Return(p)
    /\ UNCHANGED <<regd, keyLog, bound, audit, late, inbox>>
-----------------------------------------------------------------------------
(* routeToSubagent and the mailboxes *)

\* Mutant of RouteCheck: the status of the sub-agent is not looked at.
RouteCheckBlind(p, s, e) == /\ pc[p] = "idle"
                            /\ Len(audit) < MaxAudit
                            /\ s \in bound
                            /\ about' = [about EXCEPT ![p] = s]
                            /\ env' = [env EXCEPT ![p] = e]
                            /\ Goto(p, "put")
                            /\ UNCHANGED <<registry, inbox, todo, keys, subs>>

RouteCheck(p, s, e) == /\ pc[p] = "idle"
                       /\ Len(audit) < MaxAudit
                       /\ s \in bound
                       /\ ~Revoked(s)
                       /\ about' = [about EXCEPT ![p] = s]
                       /\ env' = [env EXCEPT ![p] = e]
                       /\ Goto(p, "put")
                       /\ UNCHANGED <<registry, inbox, todo, keys, subs>>

\* putInboxMessage: the file named by the envelope's id appears with a rename, over
\* one that has the name.  It takes any actor: whether a sub-agent is bound or revoked
\* is the caller's question.
PutInbox(a, e) == inbox' = [inbox EXCEPT ![a] = {x \in @ : Id[x] # Id[e]} \cup {e}]

RoutePut(p) == /\ pc[p] = "put"
               /\ PutInbox(about[p], env[p])
               /\ Goto(p, "audit")
               /\ UNCHANGED <<registry, about, env, todo, keys, subs>>

RouteAudit(p) == /\ pc[p] = "audit"
                 /\ AuditRow(about[p], "routed", Id[env[p]])
                 /\ Return(p)
                 /\ UNCHANGED <<regd, keyLog, bound, tombs, late, inbox>>

\* popInboxMessage
PopInbox(a, e) == /\ e \in inbox[a]
                  /\ inbox' = [inbox EXCEPT ![a] = @ \ {e}]
                  /\ UNCHANGED <<registry, locals>>

Crash(p) == pc[p] # "idle" /\ Return(p) /\ UNCHANGED <<registry, inbox>>

Offboard(p) == \/ \E i \in Inst : OffboardKeys(p, i)
               \/ OffboardKey(p) \/ OffboardSubs(p) \/ OffboardSub(p) \/ OffboardTombstone(p)
Route(p) == \/ \E s \in Sub, e \in Env : RouteCheck(p, s, e)
            \/ RoutePut(p) \/ RouteAudit(p)

RegNext == \/ \E i \in Inst : RegisterInstance(i)
           \/ \E i \in Inst, k \in Key : AddInstanceKey(i, k) \/ RevokeInstanceKey(i, k)
           \/ \E s \in Sub : RegisterSubagent(s) \/ RevokeSubagent(s)
           \/ \E p \in Proc : Offboard(p) \/ Route(p) \/ Crash(p)
           \/ \E a \in Actor, e \in Env : PopInbox(a, e)

RegSpec == RegInit /\ [][RegNext]_regVars
-----------------------------------------------------------------------------
RegTypeOK == /\ regd \subseteq Inst
             /\ keyLog \in Seq(KeyEvent)
             /\ bound \subseteq Sub
             /\ audit \in Seq(Audit)
             /\ tombs \subseteq Tombstone
             /\ inbox \in [Actor -> SUBSET Env]
             /\ pc \in [Proc -> PC]
             /\ about \in [Proc -> Actor \cup {None}]
             /\ env \in [Proc -> Env \cup {None}]
             /\ todo \in [Proc -> SUBSET (Key \cup Sub)]
             /\ keys \in [Proc -> SUBSET Key]
             /\ subs \in [Proc -> SUBSET Sub]
             /\ late \in [Sub -> SUBSET MsgId]

\* A tombstone is true for ever: no key that was active when its offboarding listed
\* the keys is active again, nor any sub-agent it listed, whatever is added, revoked
\* or offboarded at the same time.  What survives was registered after the lists.
OffboardComplete == \A t \in tombs : /\ t.keys \cap Active(t.inst) = {}
                                     /\ \A s \in t.subs : Revoked(s)

\* A key or a sub-agent is revoked once, however many callers listed it as active.
RevokedOnce ==
    /\ \A m, n \in DOMAIN keyLog :
          keyLog[m] = keyLog[n] /\ keyLog[m].type = "revoked" => m = n
    /\ \A m, n \in DOMAIN audit : /\ audit[m].sub = audit[n].sub
                                  /\ audit[m].type = "revoked" /\ audit[n].type = "revoked"
          => m = n

\* A routing the audit trail shows after the revocation of its sub-agent had passed its
\* check before: one that starts later is refused, so the parent's takeover is final for
\* routeToSubagent.  It is not for the inbox: the generic put, remote deliveries included,
\* reaches a revoked sub-agent's inbox unchecked and leaves no row.
LateRoutesOnly == \A m, n \in DOMAIN audit :
       /\ m < n /\ audit[m].sub = audit[n].sub
       /\ audit[m].type = "revoked" /\ audit[n].type = "routed"
    => audit[n].id \in late[audit[n].sub]
=============================================================================
