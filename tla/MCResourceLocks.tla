-------------------------- MODULE MCResourceLocks ---------------------------
EXTENDS ResourceLocks

\* Two batches; the second meets the threads of the first if that is cancelled.
MCBatchOf == [c \in Calls |-> IF c <= 2 THEN 1 ELSE 2]
=============================================================================
