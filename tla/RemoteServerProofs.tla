------------------------- MODULE RemoteServerProofs -------------------------
(* Proofs about RemoteServer and the Registry it is composed with, for every   *)
(* set of processes, instances, keys, sub-agents and envelopes, and every      *)
(* freshness window of the replay guard.                                       *)
EXTENDS RemoteServer, TLAPS

\* What holds of a process at each step of its offboarding or routing: what it has
\* gone through of its lists is revoked, and a routing that has checked a sub-agent
\* revoked since is noted in `late`.
ProcOK(p) ==
    /\ pc[p] \in {"keys", "subs"} => about[p] \in Inst
    /\ pc[p] = "keys" => todo[p] \subseteq keys[p] /\ keys[p] \ todo[p] \subseteq RevokedKeys(about[p])
    /\ pc[p] = "subs" => /\ keys[p] \subseteq RevokedKeys(about[p])
                         /\ todo[p] \subseteq subs[p]
                         /\ \A s \in subs[p] \ todo[p] : Revoked(s)
    /\ pc[p] \in {"put", "audit"} => about[p] \in Sub /\ env[p] \in Env
    /\ pc[p] \in {"put", "audit"} /\ Revoked(about[p]) => Id[env[p]] \in late[about[p]]

\* What a tombstone lists is revoked.
TombsOK == \A t \in tombs : t.keys \subseteq RevokedKeys(t.inst) /\ \A s \in t.subs : Revoked(s)

RegInv == /\ RegTypeOK
          /\ \A p \in Proc : ProcOK(p)
          /\ TombsOK
          /\ RevokedOnce
          /\ LateRoutesOnly

\* An id this incarnation has accepted is remembered until the freshness check refuses it.
GuardOK == \A m \in DOMAIN accepts :
    /\ accepts[m].epoch <= epoch
    /\ accepts[m].epoch = epoch => accepts[m].env \in seen \/ TooOld(accepts[m].env)

ServerType == /\ now \in 0 .. MaxNow /\ epoch \in 0 .. MaxRestarts
              /\ seen \subseteq Remote /\ put \subseteq Remote
              /\ busy \in Remote \cup {None}
              /\ accepts \in Seq([env : Remote, epoch : 0 .. MaxRestarts])

ServerInv == ServerType /\ GuardOK /\ AcceptedOnce /\ RememberedDelivered

IInv == RegInv /\ ServerInv
-----------------------------------------------------------------------------
(* The logs only grow *)

\* A row appended to keys.jsonl: earlier revocations stay, and a revocation adds its key.
LEMMA KeyRows ==
    ASSUME keyLog \in Seq(KeyEvent), NEW i \in Inst, NEW k \in Key, NEW t \in {"added", "revoked"},
           KeyRow(i, k, t)
    PROVE  /\ keyLog' \in Seq(KeyEvent)
           /\ \A j : RevokedKeys(j) \subseteq RevokedKeys(j)'
           /\ t = "revoked" => k \in RevokedKeys(i)'
<1>1. [inst |-> i, key |-> k, type |-> t] \in KeyEvent
  BY DEF KeyEvent
<1>2. /\ keyLog' \in Seq(KeyEvent) /\ DOMAIN keyLog \subseteq DOMAIN keyLog'
      /\ \A n \in DOMAIN keyLog : keyLog'[n] = keyLog[n]
      /\ Len(keyLog) + 1 \in DOMAIN keyLog'
      /\ keyLog'[Len(keyLog) + 1] = [inst |-> i, key |-> k, type |-> t]
  BY <1>1 DEF KeyRow
<1> QED
  BY <1>2 DEF RevokedKeys

\* What a row of subagent-audit.jsonl adds to the log.
LEMMA AuditAppend ==
    ASSUME audit \in Seq(Audit), NEW s \in Sub, NEW t \in {"registered", "routed", "revoked"},
           NEW x \in MsgId \cup {None}, AuditRow(s, t, x)
    PROVE  /\ audit' \in Seq(Audit) /\ DOMAIN audit \subseteq DOMAIN audit'
           /\ DOMAIN audit \subseteq Nat /\ Len(audit) + 1 \in DOMAIN audit'
           /\ \A n \in DOMAIN audit : audit'[n] = audit[n] /\ n < Len(audit) + 1
           /\ \A n \in DOMAIN audit' : n \in DOMAIN audit \/ n = Len(audit) + 1
           /\ audit'[Len(audit) + 1].sub = s /\ audit'[Len(audit) + 1].type = t
           /\ audit'[Len(audit) + 1].id = x
<1>1. [sub |-> s, type |-> t, id |-> x] \in Audit
  BY DEF Audit
<1> QED
  BY <1>1 DEF AuditRow

\* A row appended to subagent-audit.jsonl: earlier revocations stay.
LEMMA AuditRows ==
    ASSUME audit \in Seq(Audit), NEW s \in Sub, NEW t \in {"registered", "routed", "revoked"},
           NEW x \in MsgId \cup {None}, AuditRow(s, t, x)
    PROVE  /\ audit' \in Seq(Audit)
           /\ \A y : Revoked(y) => Revoked(y)'
           /\ \A y : Revoked(y)' => Revoked(y) \/ (y = s /\ t = "revoked")
           /\ t = "revoked" => Revoked(s)'
BY AuditAppend DEF Revoked

\* A key that is still active has no revocation in the log, so the new one is its first.
LEMMA KeyRevokedOnce ==
    ASSUME RegTypeOK, RevokedOnce, NEW i \in Inst, NEW k \in Key, NEW t \in {"added", "revoked"},
           KeyRow(i, k, t), t = "revoked" => k \notin RevokedKeys(i)
    PROVE  \A m, n \in DOMAIN keyLog' :
              keyLog'[m] = keyLog'[n] /\ keyLog'[m].type = "revoked" => m = n
<1> DEFINE row == [inst |-> i, key |-> k, type |-> t]
<1>1. row \in KeyEvent /\ keyLog \in Seq(KeyEvent)
  BY DEF KeyEvent, RegTypeOK
<1>2. /\ \A n \in DOMAIN keyLog : keyLog'[n] = keyLog[n]
      /\ \A n \in DOMAIN keyLog' : n \in DOMAIN keyLog \/ n = Len(keyLog) + 1
      /\ keyLog'[Len(keyLog) + 1] = row
  BY <1>1 DEF KeyRow
<1>3. \A n \in DOMAIN keyLog : keyLog[n] = row => t # "revoked"
  BY DEF RevokedKeys
<1> QED
  BY <1>2, <1>3 DEF RevokedOnce

\* The revocations of the audit log and the routings after them.
SubOnce == \A m, n \in DOMAIN audit : /\ audit[m].sub = audit[n].sub
                                      /\ audit[m].type = "revoked" /\ audit[n].type = "revoked"
              => m = n

\* A sub-agent that is not revoked has no revocation row in the audit log.
LEMMA SubRevokedOnce ==
    ASSUME audit \in Seq(Audit), SubOnce,
           NEW s \in Sub, NEW t \in {"registered", "routed", "revoked"},
           NEW x \in MsgId \cup {None}, AuditRow(s, t, x), t = "revoked" => ~Revoked(s)
    PROVE  SubOnce'
BY AuditAppend DEF SubOnce, Revoked

\* A routing that is recorded after the revocation was noted by it.
LEMMA RoutedLate ==
    ASSUME audit \in Seq(Audit), LateRoutesOnly,
           NEW s \in Sub, NEW t \in {"registered", "routed", "revoked"},
           NEW x \in MsgId \cup {None}, AuditRow(s, t, x),
           t = "routed" /\ Revoked(s) => x \in late[s],
           \A y \in Sub : Revoked(y) => late'[y] = late[y]
    PROVE  LateRoutesOnly'
<1> SUFFICES ASSUME NEW m \in DOMAIN audit', NEW n \in DOMAIN audit',
                    m < n, audit'[m].sub = audit'[n].sub,
                    audit'[m].type = "revoked", audit'[n].type = "routed"
             PROVE  audit'[n].id \in late'[audit'[n].sub]
  BY DEF LateRoutesOnly
<1>1. m \in DOMAIN audit /\ audit'[m] = audit[m]
  BY AuditAppend
<1>2. Revoked(audit'[n].sub) /\ audit'[n].sub \in Sub
  <2>1. audit'[n] \in Audit
    BY AuditAppend
  <2> QED
    BY <1>1, <2>1 DEF Revoked, Audit
<1>3. late'[audit'[n].sub] = late[audit'[n].sub]
  BY <1>2
<1>4. CASE n \in DOMAIN audit
  BY <1>1, <1>3, <1>4, AuditAppend DEF LateRoutesOnly
<1>5. CASE n = Len(audit) + 1
  BY <1>2, <1>3, <1>5, AuditAppend
<1> QED
  BY <1>4, <1>5, AuditAppend
-----------------------------------------------------------------------------
(* What a step of the registry does to the logs *)

\* The four kinds of step.
Quiet == UNCHANGED <<keyLog, audit, late>>
KeyStep == /\ UNCHANGED <<audit, late>>
           /\ \E i \in Inst, k \in Key, t \in {"added", "revoked"} :
                 KeyRow(i, k, t) /\ (t = "revoked" => k \notin RevokedKeys(i))
NoteStep == /\ UNCHANGED <<keyLog, late>>
            /\ \E s \in Sub, t \in {"registered", "routed"}, x \in MsgId \cup {None} :
                  AuditRow(s, t, x) /\ (t = "routed" /\ Revoked(s) => x \in late[s])
RevokeStep == UNCHANGED keyLog /\ \E s \in Sub : ~Revoked(s) /\ RevokeRow(s)

\* A key is revoked only while active and a sub-agent only while it is not revoked:
\* both checks are made under the lock of the append.
LEMMA RegSteps == ASSUME RegInv, RegNext PROVE Quiet \/ KeyStep \/ NoteStep \/ RevokeStep
<1> RegTypeOK /\ \A p \in Proc : ProcOK(p)
  BY DEF RegInv
<1>1. ASSUME NEW i \in Inst, RegisterInstance(i) PROVE Quiet
  BY <1>1 DEF RegisterInstance, Quiet
<1>2. ASSUME NEW i \in Inst, NEW k \in Key, AddInstanceKey(i, k) \/ RevokeInstanceKey(i, k)
      PROVE  KeyStep
  BY <1>2 DEF AddInstanceKey, RevokeInstanceKey, KeyStep, Active
<1>3. ASSUME NEW s \in Sub, RegisterSubagent(s) \/ RevokeSubagent(s)
      PROVE  Quiet \/ NoteStep \/ RevokeStep
  BY <1>3 DEF RegisterSubagent, RevokeSubagent, Quiet, NoteStep, RevokeStep
<1>4. ASSUME NEW p \in Proc, Offboard(p) PROVE Quiet \/ KeyStep \/ RevokeStep
  <2>1. CASE OffboardKey(p)
    <3>1. pc[p] = "keys" /\ about[p] \in Inst /\ todo[p] \subseteq Key
      BY <2>1 DEF OffboardKey, ProcOK, RegTypeOK
    <3> QED
      BY <2>1, <3>1 DEF OffboardKey, KeyStep, Quiet, Active
  <2>2. CASE OffboardSub(p)
    <3>1. pc[p] = "subs" /\ todo[p] \subseteq Sub
      BY <2>2 DEF OffboardSub, ProcOK, RegTypeOK
    <3> QED
      BY <2>2, <3>1 DEF OffboardSub, RevokeStep, Quiet
  <2> QED
    BY <1>4, <2>1, <2>2
    DEF Offboard, OffboardKeys, OffboardSubs, OffboardTombstone, registry, Quiet
<1>5. ASSUME NEW p \in Proc, Route(p) PROVE Quiet \/ NoteStep
  <2>1. CASE RouteAudit(p)
    <3>1. /\ about[p] \in Sub /\ Id[env[p]] \in MsgId
          /\ Revoked(about[p]) => Id[env[p]] \in late[about[p]]
          /\ AuditRow(about[p], "routed", Id[env[p]]) /\ UNCHANGED <<keyLog, late>>
      BY <2>1, RegistryAssumption DEF RouteAudit, ProcOK
    <3> QED
      BY <3>1 DEF NoteStep
  <2> QED
    BY <1>5, <2>1 DEF Route, RouteCheck, RoutePut, registry, Quiet
<1>6. ASSUME NEW p \in Proc, Crash(p) PROVE Quiet
  BY <1>6 DEF Crash, registry, Quiet
<1>7. ASSUME NEW a \in Actor, NEW e \in Env, PopInbox(a, e) PROVE Quiet
  BY <1>7 DEF PopInbox, registry, Quiet
<1> QED
  BY <1>1, <1>2, <1>3, <1>4, <1>5, <1>6, <1>7 DEF RegNext

\* After any step what was revoked is revoked, once, and `late` has the routings that
\* were past their check.
LEMMA LogSteps ==
    ASSUME RegInv, RegNext
    PROVE  /\ keyLog' \in Seq(KeyEvent) /\ audit' \in Seq(Audit) /\ late' \in [Sub -> SUBSET MsgId]
           /\ \A j : RevokedKeys(j) \subseteq RevokedKeys(j)'
           /\ \A x : Revoked(x) => Revoked(x)'
           /\ RevokedOnce'
           /\ LateRoutesOnly'
           /\ \A q \in Proc, x \in Sub : q \in Routing(x) /\ Revoked(x)' => Id[env[q]] \in late'[x]
<1> RegTypeOK /\ RevokedOnce /\ LateRoutesOnly /\ \A p \in Proc : ProcOK(p)
  BY DEF RegInv
<1>1. /\ keyLog \in Seq(KeyEvent) /\ audit \in Seq(Audit) /\ late \in [Sub -> SUBSET MsgId]
      /\ \A q \in Proc, x \in Sub : q \in Routing(x) /\ Revoked(x) => Id[env[q]] \in late[x]
      /\ SubOnce
  BY DEF RegTypeOK, ProcOK, Routing, RevokedOnce, SubOnce
<1>2. CASE Quiet
  BY <1>1, <1>2 DEF Quiet, RevokedKeys, Revoked, RevokedOnce, LateRoutesOnly
<1>3. CASE KeyStep
  <2>1. PICK i \in Inst, k \in Key, t \in {"added", "revoked"} :
           KeyRow(i, k, t) /\ (t = "revoked" => k \notin RevokedKeys(i))
    BY <1>3 DEF KeyStep
  <2>2. /\ keyLog' \in Seq(KeyEvent) /\ \A j : RevokedKeys(j) \subseteq RevokedKeys(j)'
        /\ \A m, n \in DOMAIN keyLog' :
              keyLog'[m] = keyLog'[n] /\ keyLog'[m].type = "revoked" => m = n
    BY <1>1, <2>1, KeyRows, KeyRevokedOnce
  <2> QED
    BY <1>1, <1>3, <2>2 DEF KeyStep, Revoked, RevokedOnce, LateRoutesOnly
<1>4. CASE NoteStep
  <2>1. PICK s \in Sub, t \in {"registered", "routed"}, x \in MsgId \cup {None} :
           AuditRow(s, t, x) /\ (t = "routed" /\ Revoked(s) => x \in late[s])
    BY <1>4 DEF NoteStep
  <2>2. /\ audit' \in Seq(Audit) /\ \A y : Revoked(y) => Revoked(y)'
        /\ \A y : Revoked(y)' => Revoked(y)
    BY <1>1, <2>1, AuditRows
  <2>3. SubOnce'
    BY <1>1, <2>1, SubRevokedOnce
  <2>4. late' = late /\ keyLog' = keyLog
    BY <1>4 DEF NoteStep
  <2>5. LateRoutesOnly'
    BY <1>1, <2>1, <2>4, RoutedLate
  <2>6. RevokedOnce' /\ \A j : RevokedKeys(j) \subseteq RevokedKeys(j)'
    BY <2>3, <2>4 DEF RevokedOnce, SubOnce, RevokedKeys
  <2> QED
    BY <1>1, <2>2, <2>4, <2>5, <2>6
<1>5. CASE RevokeStep
  <2>1. PICK s \in Sub : ~Revoked(s) /\ RevokeRow(s)
    BY <1>5 DEF RevokeStep
  <2>2. AuditRow(s, "revoked", None)
    BY <2>1 DEF RevokeRow
  <2>3. /\ audit' \in Seq(Audit) /\ \A y : Revoked(y) => Revoked(y)'
        /\ \A y : Revoked(y)' => Revoked(y) \/ y = s
    BY <1>1, <2>2, AuditRows
  <2>4. SubOnce'
    BY <1>1, <2>1, <2>2, SubRevokedOnce
  <2>5. \A p \in Routing(s) : Id[env[p]] \in MsgId
    BY RegistryAssumption DEF Routing, ProcOK
  <2>6. /\ late' \in [Sub -> SUBSET MsgId]
        /\ \A x \in Sub : x # s => late'[x] = late[x]
        /\ late'[s] = {Id[env[p]] : p \in Routing(s)}
    BY <1>1, <2>1, <2>5 DEF RevokeRow
  <2>7. \A y \in Sub : Revoked(y) => late'[y] = late[y]
    BY <2>1, <2>6
  <2>8. LateRoutesOnly'
    BY <1>1, <2>2, <2>7, RoutedLate
  <2>9. keyLog' = keyLog
    BY <1>5 DEF RevokeStep
  <2>10. RevokedOnce' /\ \A j : RevokedKeys(j) \subseteq RevokedKeys(j)'
    BY <2>4, <2>9 DEF RevokedOnce, SubOnce, RevokedKeys
  <2>11. \A q \in Proc, x \in Sub : q \in Routing(x) /\ Revoked(x)' => Id[env[q]] \in late'[x]
    BY <1>1, <2>3, <2>6
  <2> QED
    BY <1>1, <2>3, <2>6, <2>8, <2>9, <2>10, <2>11
<1> QED
  BY <1>2, <1>3, <1>4, <1>5, RegSteps
-----------------------------------------------------------------------------
(* The registry keeps its invariant *)

LocalsType == /\ pc \in [Proc -> PC]
              /\ about \in [Proc -> Actor \cup {None}]
              /\ env \in [Proc -> Env \cup {None}]
              /\ todo \in [Proc -> SUBSET (Key \cup Sub)]
              /\ keys \in [Proc -> SUBSET Key]
              /\ subs \in [Proc -> SUBSET Sub]

\* A call that ends leaves typed locals.
LEMMA ReturnType == ASSUME LocalsType, NEW p \in Proc, Return(p) PROVE LocalsType'
BY DEF LocalsType, Return, Goto, PC

\* The active keys of an instance are keys.
LEMMA ActiveKeys == ASSUME RegTypeOK, NEW i \in Inst PROVE Active(i) \subseteq Key
<1>1. \A n \in DOMAIN keyLog : keyLog[n] \in KeyEvent
  BY DEF RegTypeOK
<1>2. \A n \in DOMAIN keyLog : keyLog[n].key \in Key
  BY <1>1 DEF KeyEvent
<1> QED
  BY <1>2, RegistryAssumption DEF Active, AddedKeys

\* Every step of the registry keeps the types.
LEMMA RegTypeStep == ASSUME RegInv, RegNext PROVE RegTypeOK'
<1> RegTypeOK /\ LocalsType /\ \A p \in Proc : ProcOK(p)
  BY DEF RegInv, RegTypeOK, LocalsType
<1> DEFINE Rest == regd' \subseteq Inst /\ bound' \subseteq Sub /\ tombs' \subseteq Tombstone
                   /\ inbox' \in [Actor -> SUBSET Env] /\ LocalsType'
<1>1. ASSUME UNCHANGED locals PROVE LocalsType'
  BY <1>1 DEF locals, LocalsType
<1>2. ASSUME NEW i \in Inst, NEW k,
             RegisterInstance(i) \/ AddInstanceKey(i, k) \/ RevokeInstanceKey(i, k)
      PROVE  Rest
  BY <1>1, <1>2 DEF RegisterInstance, AddInstanceKey, RevokeInstanceKey, RegTypeOK
<1>3. ASSUME NEW s \in Sub, RegisterSubagent(s) \/ RevokeSubagent(s) PROVE Rest
  BY <1>1, <1>3 DEF RegisterSubagent, RevokeSubagent, RegTypeOK
<1>4. ASSUME NEW p \in Proc, Offboard(p) PROVE Rest
  <2>1. ASSUME NEW i \in Inst, OffboardKeys(p, i) PROVE Rest
    BY <2>1, ActiveKeys DEF OffboardKeys, registry, RegTypeOK, LocalsType, Goto, PC, Actor
  <2>2. CASE OffboardKey(p) \/ OffboardSub(p)
    BY <2>2, ReturnType DEF OffboardKey, OffboardSub, RegTypeOK, LocalsType
  <2>3. CASE OffboardSubs(p)
    BY <2>3 DEF OffboardSubs, registry, RegTypeOK, LocalsType, Goto, PC
  <2>4. CASE OffboardTombstone(p)
    <3>1. about[p] \in Inst /\ keys[p] \subseteq Key /\ subs[p] \subseteq Sub
      BY <2>4 DEF OffboardTombstone, ProcOK, LocalsType
    <3> QED
      BY <2>4, <3>1, ReturnType DEF OffboardTombstone, RegTypeOK, Tombstone
  <2> QED
    BY <1>4, <2>1, <2>2, <2>3, <2>4 DEF Offboard
<1>5. ASSUME NEW p \in Proc, Route(p) PROVE Rest
  <2>1. ASSUME NEW s \in Sub, NEW e \in Env, RouteCheck(p, s, e) PROVE Rest
    BY <2>1 DEF RouteCheck, registry, RegTypeOK, LocalsType, Goto, PC, Actor
  <2>2. CASE RoutePut(p)
    BY <2>2 DEF RoutePut, PutInbox, ProcOK, registry, RegTypeOK, LocalsType, Goto, PC, Actor
  <2>3. CASE RouteAudit(p)
    BY <2>3, ReturnType DEF RouteAudit, RegTypeOK
  <2> QED
    BY <1>5, <2>1, <2>2, <2>3 DEF Route
<1>6. ASSUME NEW p \in Proc, Crash(p) PROVE Rest
  BY <1>6, ReturnType DEF Crash, registry, RegTypeOK
<1>7. ASSUME NEW a \in Actor, NEW e \in Env, PopInbox(a, e) PROVE Rest
  BY <1>1, <1>7 DEF PopInbox, registry, RegTypeOK
<1>8. Rest
  BY <1>2, <1>3, <1>4, <1>5, <1>6, <1>7 DEF RegNext
<1> QED
  BY <1>8, LogSteps DEF RegTypeOK, LocalsType

\* The locals of q are as before.
Same(q) == /\ pc'[q] = pc[q] /\ about'[q] = about[q] /\ env'[q] = env[q]
           /\ todo'[q] = todo[q] /\ keys'[q] = keys[q] /\ subs'[q] = subs[q]

\* A step of the registry changes the locals of one process, and only by these actions.
LEMMA Others ==
    ASSUME RegInv, RegNext
    PROVE  \/ \A q \in Proc : Same(q)
           \/ \E p \in Proc : /\ Offboard(p) \/ Route(p) \/ Crash(p)
                              /\ \A q \in Proc : q # p => Same(q)
<1> LocalsType
  BY DEF RegInv, RegTypeOK, LocalsType
<1>1. CASE UNCHANGED locals
  BY <1>1 DEF locals, Same
<1>2. ASSUME NEW p \in Proc, Offboard(p) \/ Route(p) \/ Crash(p), NEW q \in Proc, q # p
      PROVE  Same(q)
  <2>1. CASE Return(p)
    BY <1>2, <2>1 DEF Return, Goto, LocalsType, Same
  <2>2. CASE Crash(p) \/ RouteAudit(p) \/ OffboardTombstone(p)
    BY <2>1, <2>2 DEF Crash, RouteAudit, OffboardTombstone
  <2>3. CASE OffboardKey(p) \/ OffboardSub(p)
    BY <1>2, <2>1, <2>3 DEF OffboardKey, OffboardSub, LocalsType, Same
  <2>4. CASE OffboardSubs(p) \/ \E i \in Inst : OffboardKeys(p, i)
    BY <1>2, <2>4 DEF OffboardSubs, OffboardKeys, Goto, LocalsType, Same
  <2>5. CASE RoutePut(p) \/ \E s \in Sub, e \in Env : RouteCheck(p, s, e)
    BY <1>2, <2>5 DEF RoutePut, RouteCheck, Goto, LocalsType, Same
  <2> QED
    BY <1>2, <2>2, <2>3, <2>4, <2>5 DEF Offboard, Route
<1>3. CASE \E i \in Inst : RegisterInstance(i)
  BY <1>1, <1>3 DEF RegisterInstance
<1>4. CASE \E i \in Inst, k \in Key : AddInstanceKey(i, k) \/ RevokeInstanceKey(i, k)
  BY <1>1, <1>4 DEF AddInstanceKey, RevokeInstanceKey
<1>5. CASE \E s \in Sub : RegisterSubagent(s) \/ RevokeSubagent(s)
  BY <1>1, <1>5 DEF RegisterSubagent, RevokeSubagent
<1>6. CASE \E a \in Actor, e \in Env : PopInbox(a, e)
  BY <1>1, <1>6 DEF PopInbox
<1> QED
  BY <1>2, <1>3, <1>4, <1>5, <1>6 DEF RegNext

\* What holds of a process whose locals stay holds after the step.
LEMMA SameOK == ASSUME RegInv, RegNext, NEW q \in Proc, Same(q) PROVE ProcOK(q)'
<1> ProcOK(q)
  BY DEF RegInv
<1>1. /\ \A j : RevokedKeys(j) \subseteq RevokedKeys(j)'
      /\ \A x : Revoked(x) => Revoked(x)'
      /\ \A x \in Sub : q \in Routing(x) /\ Revoked(x)' => Id[env[q]] \in late'[x]
  BY LogSteps
<1>2. PICK a : a = about[q]
  OBVIOUS
<1>3. about'[q] = a /\ about[q] = a /\ RevokedKeys(a) \subseteq RevokedKeys(a)'
  BY <1>1, <1>2 DEF Same
<1>4. RevokedKeys(about[q])' = RevokedKeys(a)' /\ Revoked(about[q])' = Revoked(a)'
  BY <1>3 DEF RevokedKeys, Revoked
<1> QED
  BY <1>1, <1>3, <1>4 DEF ProcOK, Same, Routing

\* A call that ends leaves nothing to show.
LEMMA EndOK == ASSUME LocalsType, NEW p \in Proc, Return(p) PROVE ProcOK(p)'
<1>1. pc'[p] = "idle"
  BY DEF Return, Goto, LocalsType
<1> QED
  BY <1>1 DEF ProcOK

\* A step of p's call establishes what holds of p afterwards.
LEMMA OwnOK ==
    ASSUME RegInv, RegNext, NEW p \in Proc, Offboard(p) \/ Route(p) \/ Crash(p)
    PROVE  ProcOK(p)'
<1> RegTypeOK /\ LocalsType /\ ProcOK(p)
  BY DEF RegInv, RegTypeOK, LocalsType
<1>1. /\ \A j : RevokedKeys(j) \subseteq RevokedKeys(j)'
      /\ \A x : Revoked(x) => Revoked(x)'
      /\ keyLog \in Seq(KeyEvent) /\ audit \in Seq(Audit)
      /\ \A x \in Sub : p \in Routing(x) /\ Revoked(x)' => Id[env[p]] \in late'[x]
  BY LogSteps DEF RegTypeOK
<1>2. CASE Return(p)
  BY <1>2, EndOK
<1>3. ASSUME NEW i \in Inst, OffboardKeys(p, i) PROVE ProcOK(p)'
  <2>1. /\ pc'[p] = "keys" /\ about'[p] = i /\ keys'[p] = todo'[p]
    BY <1>3 DEF OffboardKeys, Goto, LocalsType
  <2> QED
    BY <2>1 DEF ProcOK
<1>4. CASE OffboardKey(p) /\ ~Return(p)
  <2>1. PICK k \in todo[p] : /\ k \in Active(about[p]) /\ KeyRow(about[p], k, "revoked")
                             /\ todo' = [todo EXCEPT ![p] = @ \ {k}]
                             /\ UNCHANGED <<pc, about, env, keys, subs>>
    BY <1>4 DEF OffboardKey
  <2>2. /\ pc[p] = "keys" /\ about[p] \in Inst /\ todo[p] \subseteq keys[p]
        /\ keys[p] \ todo[p] \subseteq RevokedKeys(about[p]) /\ k \in Key
    BY <1>4 DEF OffboardKey, ProcOK, LocalsType
  <2>3. PICK a \in Inst : a = about[p]
    BY <2>2
  <2>4. KeyRow(a, k, "revoked") /\ about'[p] = a
    BY <2>1, <2>3
  <2>5. k \in RevokedKeys(a)' /\ RevokedKeys(a) \subseteq RevokedKeys(a)'
    BY <1>1, <2>2, <2>4, KeyRows
  <2>6. RevokedKeys(about[p])' = RevokedKeys(a)'
    BY <2>4 DEF RevokedKeys
  <2>7. todo'[p] = todo[p] \ {k}
    BY <2>1 DEF LocalsType
  <2> QED
    BY <2>1, <2>2, <2>3, <2>4, <2>5, <2>6, <2>7 DEF ProcOK
<1>5. CASE OffboardSubs(p)
  <2>1. PICK a : a = about[p]
    OBVIOUS
  <2>2. pc'[p] = "subs" /\ about'[p] = a /\ keys'[p] = keys[p] /\ todo'[p] = subs'[p]
    BY <1>5, <2>1 DEF OffboardSubs, Goto, LocalsType
  <2>3. keys[p] \subseteq RevokedKeys(a) /\ a \in Inst
    BY <1>5, <2>1 DEF OffboardSubs, ProcOK
  <2>4. RevokedKeys(about[p])' = RevokedKeys(a)'
    BY <2>2 DEF RevokedKeys
  <2> QED
    BY <1>1, <2>2, <2>3, <2>4 DEF ProcOK
<1>6. CASE OffboardSub(p) /\ ~Return(p)
  <2>1. PICK s \in todo[p] : /\ RevokeRow(s)
                             /\ todo' = [todo EXCEPT ![p] = @ \ {s}]
                             /\ UNCHANGED <<pc, about, env, keys, subs>>
    BY <1>6 DEF OffboardSub
  <2>2. /\ pc[p] = "subs" /\ about[p] \in Inst /\ keys[p] \subseteq RevokedKeys(about[p])
        /\ todo[p] \subseteq subs[p] /\ s \in Sub
        /\ \A x \in subs[p] \ todo[p] : Revoked(x)
    BY <1>6 DEF OffboardSub, ProcOK, LocalsType
  <2>3. Revoked(s)'
    BY <1>1, <2>1, <2>2, AuditRows DEF RevokeRow
  <2>4. keyLog' = keyLog /\ about' = about
    BY <1>6, <2>1 DEF OffboardSub
  <2>5. RevokedKeys(about[p])' = RevokedKeys(about[p])
    BY <2>4 DEF RevokedKeys
  <2>6. todo'[p] = todo[p] \ {s}
    BY <2>1 DEF LocalsType
  <2> QED
    BY <1>1, <2>1, <2>2, <2>3, <2>5, <2>6 DEF ProcOK
<1>7. ASSUME NEW s \in Sub, NEW e \in Env, RouteCheck(p, s, e) PROVE ProcOK(p)'
  <2>1. pc'[p] = "put" /\ about'[p] = s /\ env'[p] = e /\ ~Revoked(s) /\ audit' = audit
    BY <1>7 DEF RouteCheck, registry, Goto, LocalsType
  <2>2. ~Revoked(about[p])'
    BY <2>1 DEF Revoked
  <2> QED
    BY <2>1, <2>2 DEF ProcOK
<1>8. CASE RoutePut(p)
  <2>1. PICK a : a = about[p]
    OBVIOUS
  <2>2. pc'[p] = "audit" /\ about'[p] = a /\ env'[p] = env[p] /\ pc[p] = "put"
    BY <1>8, <2>1 DEF RoutePut, Goto, LocalsType
  <2>3. a \in Sub /\ env[p] \in Env /\ p \in Routing(a)
    BY <2>1, <2>2 DEF ProcOK, Routing
  <2>4. Revoked(about[p])' = Revoked(a)'
    BY <2>2 DEF Revoked
  <2> QED
    BY <1>1, <2>2, <2>3, <2>4 DEF ProcOK
<1> QED
  BY <1>2, <1>3, <1>4, <1>5, <1>6, <1>7, <1>8
  DEF Offboard, Route, Crash, RouteAudit, OffboardTombstone

\* A tombstone is written when every listed key and sub-agent is revoked.
LEMMA TombsStep == ASSUME RegInv, RegNext PROVE TombsOK'
<1> TombsOK /\ \A p \in Proc : ProcOK(p)
  BY DEF RegInv
<1>1. /\ \A j : RevokedKeys(j) \subseteq RevokedKeys(j)'
      /\ \A x : Revoked(x) => Revoked(x)'
  BY LogSteps
<1>2. CASE tombs' = tombs
  BY <1>1, <1>2 DEF TombsOK
<1>3. ASSUME NEW p \in Proc, OffboardTombstone(p) PROVE TombsOK'
  <2>1. /\ tombs' = tombs \cup {[inst |-> about[p], keys |-> keys[p], subs |-> subs[p]]}
        /\ keys[p] \subseteq RevokedKeys(about[p]) /\ \A s \in subs[p] : Revoked(s)
    BY <1>3 DEF OffboardTombstone, ProcOK
  <2>2. \A t \in tombs' : t.keys \subseteq RevokedKeys(t.inst) /\ \A s \in t.subs : Revoked(s)
    BY <2>1 DEF TombsOK
  <2> QED
    BY <1>1, <2>2 DEF TombsOK
<1> QED
  BY <1>2, <1>3
  DEF RegNext, RegisterInstance, AddInstanceKey, RevokeInstanceKey, RegisterSubagent, RevokeSubagent,
      Offboard, OffboardKeys, OffboardKey, OffboardSubs, OffboardSub, Route, RouteCheck, RoutePut,
      RouteAudit, Crash, PopInbox, registry

\* Every step of the registry keeps its invariant.
LEMMA RegStep == ASSUME RegInv, RegNext PROVE RegInv'
<1>1. \A q \in Proc : ProcOK(q)'
  BY Others, OwnOK, SameOK
<1> QED
  BY <1>1, RegTypeStep, TombsStep, LogSteps DEF RegInv
-----------------------------------------------------------------------------
(* The server *)

\* The server's own steps read the registry and do not write it; a delivery writes an inbox.
ServerStep == \/ \E e \in Remote : Accept(e) \/ RejectReplay(e)
              \/ Deliver \/ DeliverFails \/ Restart \/ Tick

\* No step of the server, and no stuttering, disturbs the registry.
LEMMA RegKept ==
    ASSUME RegInv, ServerType, ServerStep \/ UNCHANGED vars
    PROVE  RegInv'
<1> RegTypeOK /\ TombsOK /\ RevokedOnce /\ LateRoutesOnly /\ \A p \in Proc : ProcOK(p)
  BY DEF RegInv
<1>1. UNCHANGED <<registry, locals>> /\ inbox' \in [Actor -> SUBSET Env]
  <2>1. CASE UNCHANGED regVars
    BY <2>1 DEF regVars, RegTypeOK
  <2>2. CASE Deliver
    <3>1. busy \in Remote /\ busy \in Env /\ To[busy] \in Actor
      BY <2>2, RemoteAssumption DEF Deliver, ServerType, Actor
    <3> QED
      BY <2>2, <3>1 DEF Deliver, PutInbox, RegTypeOK
  <2> QED
    BY <2>1, <2>2 DEF ServerStep, Accept, RejectReplay, DeliverFails, Restart, Fresh, Tick, vars
<1> USE <1>1 DEF registry, locals
<1>2. RegTypeOK'
  BY DEF RegTypeOK
<1>3. TombsOK' /\ RevokedOnce' /\ LateRoutesOnly'
  BY DEF TombsOK, RevokedOnce, LateRoutesOnly, RevokedKeys, Revoked
<1>4. \A p \in Proc : ProcOK(p)'
  BY DEF ProcOK, RevokedKeys, Revoked
<1> QED
  BY <1>2, <1>3, <1>4 DEF RegInv

\* An accepted envelope is a new row: it was not remembered, and being fresh it was not
\* forgotten either.
LEMMA AcceptStep == ASSUME ServerInv, NEW e \in Remote, Accept(e) PROVE ServerInv'
<1> ServerType /\ GuardOK /\ AcceptedOnce /\ RememberedDelivered
  BY DEF ServerInv
<1> DEFINE row == [env |-> e, epoch |-> epoch]
<1>1. row \in [env : Remote, epoch : 0 .. MaxRestarts]
  BY DEF ServerType
<1>2. /\ accepts' \in Seq([env : Remote, epoch : 0 .. MaxRestarts])
      /\ \A n \in DOMAIN accepts : accepts'[n] = accepts[n]
      /\ \A n \in DOMAIN accepts' : n \in DOMAIN accepts \/ n = Len(accepts) + 1
      /\ accepts'[Len(accepts) + 1] = row
  BY <1>1 DEF Accept, ServerType
<1>3. e \notin seen /\ ~TooOld(e)
  BY DEF Accept, Replayed, Pruned, FreshEnvelope
<1>4. \A n \in DOMAIN accepts : accepts[n] # row
  BY <1>3 DEF GuardOK
<1>5. ServerType'
  BY <1>2 DEF Accept, ServerType, Pruned
<1>6. GuardOK'
  <2>1. \A x \in seen : x \in seen' \/ TooOld(x)
    BY DEF Accept, Pruned
  <2>2. \A x : TooOld(x)' <=> TooOld(x)
    BY DEF Accept, TooOld
  <2>3. epoch' = epoch /\ epoch \in Nat /\ e \in seen'
    BY DEF Accept, ServerType
  <2> QED
    BY <1>2, <2>1, <2>2, <2>3 DEF GuardOK
<1>7. AcceptedOnce'
  BY <1>2, <1>4 DEF AcceptedOnce
<1>8. RememberedDelivered'
  <2>1. None \notin seen
    BY RemoteAssumption, NoneAssumption DEF ServerType
  <2> QED
    BY <2>1 DEF RememberedDelivered, Accept, Pruned
<1> QED
  BY <1>5, <1>6, <1>7, <1>8 DEF ServerInv

\* The fields of what was accepted.
LEMMA AcceptRows ==
    ASSUME ServerType, NEW n \in DOMAIN accepts
    PROVE  accepts[n].env \in Remote /\ accepts[n].epoch \in Nat
<1> DEFINE Row == [env : Remote, epoch : 0 .. MaxRestarts]
<1>1. accepts \in Seq(Row)
  BY DEF ServerType
<1>2. ASSUME NEW x \in Row PROVE x.env \in Remote /\ x.epoch \in Nat
  BY <1>2
<1> HIDE DEF Row
<1>3. accepts[n] \in Row
  BY <1>1
<1> QED
  BY <1>2, <1>3

\* Every other step of the server, and every step of the registry, keeps ServerInv.
LEMMA ServerKept ==
    ASSUME ServerInv, \/ \E e \in Remote : RejectReplay(e)
                      \/ Deliver \/ DeliverFails \/ Restart \/ Tick \/ UNCHANGED remoteVars
    PROVE  ServerInv'
<1> ServerType /\ GuardOK /\ AcceptedOnce /\ RememberedDelivered
  BY DEF ServerInv
<1>1. \A n \in DOMAIN accepts : accepts[n].env \in Remote /\ accepts[n].epoch \in Nat
  BY AcceptRows
<1>2. ASSUME NEW e \in Remote, RejectReplay(e) PROVE ServerInv'
  BY <1>2 DEF RejectReplay, Pruned, ServerInv, ServerType, GuardOK, AcceptedOnce, RememberedDelivered, TooOld
<1>3. CASE Deliver
  BY <1>3 DEF Deliver, ServerInv, ServerType, GuardOK, AcceptedOnce, RememberedDelivered, TooOld
<1>4. CASE DeliverFails \/ Restart
  <2>1. /\ epoch' = epoch + 1 /\ seen' = {} /\ busy' = None /\ put' = {}
        /\ now' = now /\ accepts' = accepts /\ epoch < MaxRestarts
    BY <1>4 DEF DeliverFails, Restart, Fresh
  <2>2. ServerType'
    BY <2>1, RemoteAssumption DEF ServerType
  <2>3. GuardOK'
    BY <1>1, <2>1 DEF GuardOK, ServerType
  <2> QED
    BY <2>1, <2>2, <2>3 DEF ServerInv, AcceptedOnce, RememberedDelivered
<1>5. CASE Tick
  <2>1. \A x \in Remote : TooOld(x) => TooOld(x)'
    BY <1>5, RemoteAssumption DEF Tick, TooOld, ServerType
  <2>2. GuardOK'
    BY <1>1, <1>5, <2>1 DEF Tick, GuardOK
  <2>3. ServerType'
    BY <1>5, RemoteAssumption DEF Tick, ServerType
  <2> QED
    BY <1>5, <2>2, <2>3 DEF Tick, ServerInv, AcceptedOnce, RememberedDelivered
<1>6. CASE UNCHANGED remoteVars
  BY <1>6 DEF remoteVars, ServerInv, ServerType, GuardOK, AcceptedOnce, RememberedDelivered, TooOld
<1> QED
  BY <1>2, <1>3, <1>4, <1>5, <1>6
-----------------------------------------------------------------------------
(* The theorems *)

\* The empty registry and a server just started satisfy IInv.
LEMMA InitInv == Init => IInv
<1> SUFFICES ASSUME Init PROVE IInv
  OBVIOUS
<1>1. RegInv
  BY DEF Init, RegInit, RegInv, RegTypeOK, ProcOK, TombsOK, RevokedOnce, LateRoutesOnly, PC
<1>2. ServerInv
  BY RemoteAssumption
  DEF Init, ServerInv, ServerType, GuardOK, AcceptedOnce, RememberedDelivered
<1> QED
  BY <1>1, <1>2 DEF IInv

\* IInv is preserved by every step and by stuttering.
LEMMA InductiveStep == IInv /\ [Next]_vars => IInv'
<1> SUFFICES ASSUME IInv, [Next]_vars PROVE IInv'
  OBVIOUS
<1> RegInv /\ ServerInv /\ ServerType
  BY DEF IInv, ServerInv
<1>1. CASE RegNext /\ UNCHANGED remoteVars
  BY <1>1, RegStep, ServerKept DEF IInv
<1>2. CASE ServerStep
  BY <1>2, RegKept, AcceptStep, ServerKept DEF ServerStep, IInv
<1>3. CASE UNCHANGED vars
  <2>1. UNCHANGED remoteVars
    BY <1>3 DEF vars
  <2> QED
    BY <1>3, <2>1, RegKept, ServerKept DEF IInv
<1> QED
  BY <1>1, <1>2, <1>3 DEF Next, ServerStep

\* IInv holds in every reachable state of the registry and the server.
THEOREM Invariance == Spec => []IInv
BY InitInv, InductiveStep, PTL DEF Spec

\* The registry files, the calls under way and the server's memory keep their types.
THEOREM TypeCorrect == Spec => []TypeOK
<1>1. IInv => TypeOK
  BY DEF IInv, RegInv, ServerInv, ServerType, TypeOK
<1> QED
  BY <1>1, Invariance, PTL

\* offboardInstance: what a tombstone lists stays revoked, for any number of concurrent
\* offboardings, additions and revocations, and through crashes half-way.
THEOREM TombstonesHold == Spec => []OffboardComplete
<1>1. IInv => OffboardComplete
  BY DEF IInv, RegInv, TombsOK, OffboardComplete, Active
<1> QED
  BY <1>1, Invariance, PTL

\* revokeInstanceKey and revokeSubagent: one revocation row per key and per sub-agent.
THEOREM OneRevocation == Spec => []RevokedOnce
<1>1. IInv => RevokedOnce
  BY DEF IInv, RegInv
<1> QED
  BY <1>1, Invariance, PTL

\* The replay guard: one incarnation of the server accepts an envelope at most once,
\* whatever maxAgeMs, maxSkewMs and the order and number of deliveries.
THEOREM NoReplay == Spec => []AcceptedOnce
<1>1. IInv => AcceptedOnce
  BY DEF IInv, ServerInv
<1> QED
  BY <1>1, Invariance, PTL

\* An id the guard remembers is in an inbox or about to be: a "replayed" answer is true.
THEOREM ReplayedMeansDelivered == Spec => []RememberedDelivered
<1>1. IInv => RememberedDelivered
  BY DEF IInv, ServerInv
<1> QED
  BY <1>1, Invariance, PTL

\* acceptRemoteEnvelope never accepts a signature by a key its owner was offboarded with.
THEOREM OffboardedKeysRefused == Spec => NoAcceptAfterOffboard
<1>1. IInv /\ [Next]_vars =>
         [\A e \in Remote : busy' = e /\ busy # e
             => \A t \in tombs : t.inst = Signer[e] => SignKey[e] \notin t.keys]_vars
  <2> SUFFICES ASSUME IInv, Next, NEW e \in Remote, busy' = e, busy # e
               PROVE  \A t \in tombs : t.inst = Signer[e] => SignKey[e] \notin t.keys
    OBVIOUS
  <2>1. e # None
    BY RemoteAssumption, NoneAssumption
  <2>2. Accept(e)
    BY <2>1 DEF Next, Accept, RejectReplay, Deliver, DeliverFails, Restart, Fresh, Tick, remoteVars
  <2> QED
    BY <2>2 DEF Accept, Active, IInv, RegInv, TombsOK
<1> QED
  BY <1>1, Invariance, PTL DEF Spec, NoAcceptAfterOffboard

\* routeToSubagent: whatever processes route, revoke and offboard at once, and whatever
\* ids their envelopes share, a routing on record after the revocation of its sub-agent
\* was under way at the revocation.
THEOREM NoLateRouting == Spec => []LateRoutesOnly
<1>1. IInv => LateRoutesOnly
  BY DEF IInv, RegInv
<1> QED
  BY <1>1, Invariance, PTL
=============================================================================
