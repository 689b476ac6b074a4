--------------------------- MODULE MCNegotiation ---------------------------
EXTENDS Negotiation, TLC

CONSTANTS c1, c2, n1, n2, a1, a2, h1, h2, path, ka1, ka2

MCClient == {c1, c2}
MCActor == {a1, a2}
MCHash == {h1, h2}
\* Two versions of one contract.
MCPathOf == [h \in MCHash |-> path]
MCRegKeys == (a1 :> {ka1}) @@ (a2 :> {ka2})
MCAuthorized == MCActor \X MCHash

Offer(h) == [kind |-> "offer", actor |-> a1, by |-> None, hash |-> h, key |-> None]
Sign(a, k, h) == [kind |-> "signature", actor |-> a, by |-> a, hash |-> h, key |-> k]

\* Each negotiation is one signature short of a quorum on its own version.
MCInitJournal == (n1 :> <<Offer(h1), Sign(a1, ka1, h1)>>)
                 @@ (n2 :> <<Offer(h2), Sign(a2, ka2, h2)>>)
\* The missing signatures, and one that does not verify.
MCLoads == {Sign(a2, ka2, h1), Sign(a1, ka1, h2), Sign(a2, ka1, h1)}
MCRevocable == {<<a2, ka2>>}

Perms == Permutations(MCClient)
=============================================================================
