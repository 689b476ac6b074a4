--------------------------- MODULE MCRemoteServer ---------------------------
EXTENDS RemoteServer, TLC

CONSTANTS p1, p2, i1, k1, s1, e1, e2, x1

\* e1 and the younger e2 have one id; both are for the sub-agent.
MCRegKeys == (i1 :> {k1})
MCParent == (s1 :> i1)
MCId == (e1 :> x1) @@ (e2 :> x1)
MCSigner == (e1 :> i1) @@ (e2 :> i1)
MCSignKey == (e1 :> k1) @@ (e2 :> k1)
MCCreated == (e1 :> 0) @@ (e2 :> 1)
MCTo == (e1 :> s1) @@ (e2 :> s1)

Perms == Permutations({p1, p2})
=============================================================================
