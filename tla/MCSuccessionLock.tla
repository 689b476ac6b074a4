-------------------------- MODULE MCSuccessionLock --------------------------
EXTENDS SuccessionLock, TLC

CONSTANTS p1, p2, p3, far, m1, m2, c1, c2, c3

(* p1, p2 and p3 contend for the prefix in one pid namespace; p3 has the pid of *)
(* p1, so it only starts when p1 is gone.  The others are judged and judge:     *)
(*   far     on another machine;                                                *)
(*   m1, m2  in the next boot of the contenders' machine, in one pid namespace  *)
(*           and two time namespaces;                                           *)
(*   c1..c3  in the boot after, from an image of far's machine, with its id: c2 *)
(*           in another pid namespace than c1; c3 too, with a /proc that is not *)
(*           its namespace's, so it reads no namespace and dates nothing.       *)
MCProc == {p1, p2, p3, far, m1, m2, c1, c2, c3}
MCMachine == [p \in MCProc |-> IF p = far THEN 2 ELSE 1]
MCHost == [p \in MCProc |-> IF p \in {far, c1, c2, c3} THEN 2 ELSE 1]
MCBoot == [p \in MCProc |-> IF p \in {p1, p2, p3} THEN 1 ELSE IF p \in {m1, m2} THEN 2
                            ELSE IF p = far THEN 3 ELSE 4]
MCNs == [p \in MCProc |-> IF p \in {c2, c3} THEN 2 ELSE 1]
MCPid == [p \in MCProc |-> IF p \in {p2, m2, c1} THEN 2 ELSE 1]
MCTimeNs == [p \in MCProc |-> IF p = m2 THEN 2 ELSE 1]
MCSource == [p \in MCProc |-> IF p = c3 THEN "none" ELSE "proc"]
MCBlind == [p \in MCProc |-> IF p = c3 THEN {"ns", "timeNs"} ELSE {}]
MCMaxTok == [p \in MCProc |-> IF p \in {p1, p2, p3} THEN 1 ELSE 0]
=============================================================================
