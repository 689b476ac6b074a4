--------------------------- MODULE LoopSupervisor ---------------------------
(* Durable supervisors (runtime/loop/supervisor.ts, executor-lease.ts and      *)
(* engine/execute.ts) that tick one objective loop.  A beat takes the loop's   *)
(* executor lease, runs the tick, and releases the lease when the tick ends or *)
(* when it is aborted by its lease-safety timeout or by a shutdown.  An action *)
(* already dispatched when the abort comes goes on by itself.                  *)
EXTENDS LeaseLock

VARIABLES tick,      \* supervisor -> state of the tick its beat started
          stray,     \* supervisors with an action still running after an abort
          stolen     \* history: some contender has unlinked a lease to steal it

supVars == <<tick, stray, stolen>>
vars == <<leaseVars, supVars>>

TickStates == {"none", "between", "acting", "ended"}

Init == /\ LeaseInit
        /\ tick = [p \in Proc |-> "none"]
        /\ stray = {}
        /\ stolen = FALSE

\* acquireLoopExecutorLease; on failure the beat skips the loop.
Acquire(p) == /\ \/ Attempt(p) \/ Create(p) \/ Write(p) \/ Read(p) \/ Recreate(p)
              /\ UNCHANGED supVars
Steal(p) == Unlink(p) /\ stolen' = TRUE /\ UNCHANGED <<tick, stray>>

\* runTick up to executePlan's loop.
StartTick(p) ==
    /\ pc[p] = "held" /\ tick[p] = "none"
    /\ tick' = [tick EXCEPT ![p] = "between"]
    /\ UNCHANGED <<leaseVars, stray, stolen>>

\* executePlan dispatches the next action (launch, wake, close, route).
Dispatch(p) ==
    /\ pc[p] = "held" /\ tick[p] = "between"
    /\ tick' = [tick EXCEPT ![p] = "acting"]
    /\ UNCHANGED <<leaseVars, stray, stolen>>

ActionEnds(p) ==
    /\ pc[p] = "held" /\ tick[p] = "acting"
    /\ tick' = [tick EXCEPT ![p] = "between"]
    /\ UNCHANGED <<leaseVars, stray, stolen>>

\* The plan is done (or threw): Promise.race resolves with the tick, and the
\* heartbeat is stamped on success.
TickEnds(p) ==
    /\ pc[p] = "held" /\ tick[p] = "between"
    /\ tick' = [tick EXCEPT ![p] = "ended"]
    /\ UNCHANGED <<leaseVars, stray, stolen>>

\* Half the lease has passed, or a shutdown was signalled: the race resolves
\* with the abort.  No new action is dispatched; one in flight is not waited for.
Abort(p) ==
    /\ pc[p] = "held" /\ tick[p] \in {"between", "acting"}
    /\ stray' = IF tick[p] = "acting" THEN stray \cup {p} ELSE stray
    /\ tick' = [tick EXCEPT ![p] = "ended"]
    /\ UNCHANGED <<leaseVars, stolen>>

StrayEnds(p) ==
    /\ p \in stray
    /\ stray' = stray \ {p}
    /\ UNCHANGED <<leaseVars, tick, stolen>>

\* `finally`: the lease is released.
Release(p) ==
    \/ /\ tick[p] = "ended"
       /\ StartRelease(p)
       /\ tick' = [tick EXCEPT ![p] = "none"]
       /\ UNCHANGED <<stray, stolen>>
    \/ (ReleaseRead(p) \/ ReleaseUnlink(p)) /\ UNCHANGED supVars

\* The supervisor process dies with everything it was running.
Die(p) == /\ Crash(p)
          /\ tick' = [tick EXCEPT ![p] = "none"]
          /\ stray' = stray \ {p}
          /\ UNCHANGED stolen

Beat(p) == \/ Acquire(p) \/ Steal(p) \/ StartTick(p) \/ TickEnds(p) \/ Release(p)

Next == \/ \E p \in Proc : \/ Beat(p) \/ Dispatch(p) \/ ActionEnds(p) \/ Abort(p)
                           \/ StrayEnds(p) \/ Die(p)
        \/ Clock /\ UNCHANGED supVars

Spec == Init /\ [][Next]_vars

\* Supervisors keep beating (runLoopSupervisor), ticks end or are aborted by
\* their timer, actions end, and time passes.
Fairness == /\ \A p \in Proc : /\ WF_vars(Beat(p)) /\ WF_vars(ActionEnds(p))
                               /\ WF_vars(Abort(p)) /\ WF_vars(StrayEnds(p))
            /\ WF_vars(Clock /\ UNCHANGED supVars)
LiveSpec == Spec /\ Fairness

-----------------------------------------------------------------------------
TypeOK == /\ LeaseTypeOK
          /\ tick \in [Proc -> TickStates]
          /\ stray \subseteq Proc
          /\ stolen \in BOOLEAN

\* "Only one contender wins the create": as long as no lease has been stolen,
\* two supervisors never both hold an unexpired lease, releases included.
CreateIsExclusive ==
    ~stolen => \A p, q \in Proc : HoldsUnexpired(p) /\ HoldsUnexpired(q) => p = q

\* "A crashed holder does not wedge the resource forever": supervisors that keep
\* beating tick the loop again and again, whoever died holding the lease.
LoopKeepsTicking == []<>(\E p \in Proc : tick[p] # "none")

\* "At most one holder may execute a given loop's tick at a time".
OneExecutor ==
    \A p, q \in Proc : (tick[p] = "acting" \/ p \in stray) /\ (tick[q] = "acting" \/ q \in stray)
                       => p = q

=============================================================================
