---------------------------- MODULE MCTrackStore ----------------------------
EXTENDS TrackStore, TLC

CONSTANTS w1, w2, a1, a2, t1

\* One event; a batch that reuses its token on another set of aggregates; the token
\* on the other aggregate alone; and a command without a token.
MCCommands == {[tok |-> t1, aggs |-> <<a1>>], [tok |-> t1, aggs |-> <<a1, a2>>],
               [tok |-> t1, aggs |-> <<a2>>],
               [tok |-> NoToken, aggs |-> <<a2>>]}
\* The other branch received the first command too.
MCForeign == {[tok |-> t1, agg |-> a1]}

Perms == Permutations({w1, w2})
=============================================================================
