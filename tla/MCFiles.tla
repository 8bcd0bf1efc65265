------------------------------- MODULE MCFiles -------------------------------
EXTENDS Files, TLC

\* Tasks are interchangeable.
MCSymmetry == Permutations(Tasks)

\* Once an index block is stale, ZonesExact, CrashSafe and Durable say
\* nothing, and TLC does not go on.
MCNotStale == ~ stale
=============================================================================
