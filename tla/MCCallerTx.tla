----------------------------- MODULE MCCallerTx -----------------------------
(* Instances of CallerTx for TLC.                                          *)
EXTENDS CallerTx

MCPartitions == {1, 2}

\* Two partitions whose keys have different hashes.
MCLockKey == <<11, 12>>

\* Both callers write both partitions.
MCBatch == [c \in Callers |-> MCPartitions]

\* The records of both partitions emit the same tuples, in opposite orders.
MCMvOf == <<<<"a", "b">>, <<"b", "a">>>>

=============================================================================
