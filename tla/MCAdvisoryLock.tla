--------------------------- MODULE MCAdvisoryLock ---------------------------
EXTENDS AdvisoryLock, TLC

CONSTANTS p1, p2

MCProc == {p1, p2}

\* A record of a process that was gone before the model starts.
Old(p, k, b) == [pid |-> p, inc |-> 0, kind |-> k, st |-> "final", boot |-> b]

\* Nothing, a pre-provenance owner on this boot, or an empty file from before
\* the boot.  (The other cases arise by crashes and reboots.)
MCLeftovers == {None} \cup {Old(p, "legacy", 1) : p \in MCProc}
                      \cup {Old(p, "opaque", 0) : p \in MCProc}

\* A complete record whose owner died before the boot: one stale lock to evict.
MCStale == {Old(p1, "prov", 0), Old(p2, "legacy", 1)}

Perms == Permutations(MCProc)

=============================================================================
