------------------------------ MODULE OrphanGC ------------------------------
(***************************************************************************)
(* The collector of cmd/s3pgstore-gc (gc/gc.go) beside the writers it      *)
(* cleans up after.  RunOnce reads the keys of pending_writes rows older   *)
(* than Grace and for each deletes the object, then the row.  It never     *)
(* looks at s3pgstore_files: that it takes no object a committed row names *)
(* rests on time alone, so time is part of this module, and so are the     *)
(* collector's own clock and the bounds on how long a write may take.      *)
(***************************************************************************)
EXTENDS WritePath

CONSTANTS
  Collectors,   \* processes that sweep
  Grace,        \* Config.Grace
  GcBatch,      \* Config.BatchSize
  MaxSkew,      \* how far a collector's clock is from PostgreSQL's
  WriteBound,   \* a write is over this long after its pending row
  CommitBound   \* a write is over this long after its PUT was sent

ASSUME GcAssumption ==
  /\ Grace \in Nat
  /\ GcBatch \in Nat \ {0}
  /\ MaxSkew \in Nat
  /\ WriteBound \in Nat
  /\ CommitBound \in Nat

\* What an operator who sizes Grace has to see to: it covers the longest write
\* ("how long writers have to commit", gc.go) and the difference of the clocks.
ASSUME GraceAssumption == WriteBound + MaxSkew <= Grace

VARIABLES
  todo,         \* keys of the sweep a collector has still to reclaim
  cur           \* the key whose object it has just deleted, 0 for none

gcVars == <<todo, cur>>
allVars == <<vars, gcVars>>

GcTypeOK ==
  /\ TypeOK
  /\ todo \in [Collectors -> SUBSET Keys]
  /\ cur \in [Collectors -> Keys \cup {0}]

GcInit ==
  /\ Init
  /\ todo = [g \in Collectors |-> {}]
  /\ cur = [g \in Collectors |-> 0]

Idle(g) == todo[g] = {} /\ cur[g] = 0

-----------------------------------------------------------------------------
(* One sweep: runOnceWithMetrics.                                          *)

\* Faulty: off by one.
OverdueInclusive(cutoff) == {r \in pending : r.intendedAt <= cutoff}

Overdue(cutoff) == {r \in pending : r.intendedAt < cutoff}

\* Faulty: off by one.
OneTooFew(cutoff) ==
  {S \in SUBSET Overdue(cutoff) :
     Cardinality(S) < GcBatch /\ (S # Overdue(cutoff) => Cardinality(S) = GcBatch - 1)}

\* PendingWritesScanSQL: the oldest rows below the cutoff, at most GcBatch.
\* The cutoff is taken from the collector's clock, before the query.
OldestOverdue(cutoff) ==
  {S \in SUBSET Overdue(cutoff) :
     /\ Cardinality(S) <= GcBatch
     /\ S # Overdue(cutoff) => Cardinality(S) = GcBatch
     /\ \A r \in S, q \in Overdue(cutoff) \ S : r.intendedAt <= q.intendedAt}

Scan(g) ==
  \E skew \in -MaxSkew .. MaxSkew :
    \E S \in OldestOverdue(now + skew - Grace) :
      /\ Idle(g)
      /\ S # {}
      /\ todo' = [todo EXCEPT ![g] = {r.key : r \in S}]
      /\ UNCHANGED <<vars, cur>>

\* Faulty: the row goes even when S3 refuses to delete the object.
DeleteObjectUnchecked(g, k) ==
  /\ cur[g] = 0
  /\ k \in todo[g]
  /\ todo' = [todo EXCEPT ![g] = @ \ {k}]
  /\ objects' \in {objects, objects \ {k}}
  /\ cur' = [cur EXCEPT ![g] = k]
  /\ UNCHANGED <<now, files, partitions, pending, puts, nextKey, nextFileId,
                 writeVars>>

\* The S3 DELETE of reclaimOne.  It may take effect and be reported as an
\* error: the sweep then goes on with the next key.
DeleteObject(g, k) ==
  /\ cur[g] = 0
  /\ k \in todo[g]
  /\ todo' = [todo EXCEPT ![g] = @ \ {k}]
  /\ \/ /\ objects' = objects \ {k}
        /\ cur' \in {[cur EXCEPT ![g] = k], cur}
     \/ UNCHANGED <<objects, cur>>
  /\ UNCHANGED <<now, files, partitions, pending, puts, nextKey, nextFileId,
                 writeVars>>

\* A write that has deleted its pending row and not committed holds the row's
\* lock.
PendingRowFree(k) == \A w \in Writers : pc[w] = "commit" => tx[w].key # k

\* The catalog DELETE of reclaimOne; on an error the row stays for a later sweep.
DeleteRow(g) ==
  /\ cur[g] # 0
  /\ PendingRowFree(cur[g])
  /\ PendingDelete(cur[g]) \/ UNCHANGED pending
  /\ cur' = [cur EXCEPT ![g] = 0]
  /\ UNCHANGED <<now, files, partitions, objects, puts, nextKey, nextFileId,
                 writeVars, todo>>

\* The process is killed, or its ctx is cancelled; Run starts over.
GcCrash(g) ==
  /\ ~Idle(g)
  /\ todo' = [todo EXCEPT ![g] = {}]
  /\ cur' = [cur EXCEPT ![g] = 0]
  /\ UNCHANGED vars

CollectorStep(g) ==
  \/ Scan(g)
  \/ \E k \in Keys : DeleteObject(g, k)
  \/ DeleteRow(g)
  \/ GcCrash(g)

-----------------------------------------------------------------------------
(* Time.  The code enforces neither bound: WriteBound is what the sizing   *)
(* of Grace takes for granted, CommitBound is what the operators' notes    *)
(* ask for.  A request still in flight counts like the write that sent it. *)

Live(k) ==
  \/ \E w \in Writers : pc[w] # "idle" /\ tx[w].key = k
  \/ k \in InFlightKeys

Timely ==
  /\ \A r \in pending : Live(r.key) => now < r.intendedAt + WriteBound
  /\ \A r \in puts : Live(r.key) => now < r.sentAt + CommitBound

Tick ==
  /\ now < MaxTime
  /\ Timely
  /\ now' = now + 1
  /\ UNCHANGED <<files, partitions, pending, objects, puts, nextKey, nextFileId,
                 writeVars, gcVars>>

-----------------------------------------------------------------------------
GcNext ==
  \/ Next /\ UNCHANGED gcVars
  \/ \E g \in Collectors : CollectorStep(g)
  \/ Tick

GcSpec == GcInit /\ [][GcNext]_allVars

-----------------------------------------------------------------------------
(* Safety, given that Grace covers the longest write and the skew.         *)

\* What the collector is about to delete, or has deleted, is an orphan for
\* good: no row names it, and nothing alive can still upload or commit it.
SweepHarmless ==
  \A g \in Collectors :
    \A k \in todo[g] \cup ({cur[g]} \ {0}) : k \notin ReferencedKeys /\ ~Live(k)

-----------------------------------------------------------------------------
(* Liveness.  Writers and requests end, the clock moves on, and neither S3 *)
(* nor PostgreSQL refuses the same deletion for ever.                      *)

DeleteSucceeds(g, k) == DeleteObject(g, k) /\ cur'[g] = k

RowDeleted(g) == DeleteRow(g) /\ cur[g] \notin {r.key : r \in pending'}

GcFairness ==
  /\ WF_allVars(Tick)
  /\ WF_allVars(S3LosePut /\ UNCHANGED <<writeVars, gcVars>>)
  /\ \A w \in Writers :
       WF_allVars((Progress(w) \/ (pc[w] = "putting" /\ FailAndLeave(w)))
                  /\ UNCHANGED gcVars)
  /\ \A g \in Collectors :
       /\ WF_allVars(Scan(g))
       /\ SF_allVars(RowDeleted(g))
       /\ \A k \in Keys : SF_allVars(DeleteSucceeds(g, k))

GcFairSpec == GcSpec /\ GcFairness

Orphan(k) == k \in objects /\ k \notin ReferencedKeys /\ ~Live(k)

\* Every orphan is reclaimed, object and row, through failed deletions, crashes
\* of the collector and a bounded batch (of those whose grace ends in time).
OrphansReclaimed ==
  \A k \in Keys :
    (Orphan(k) /\ \E r \in pending : r.key = k /\ r.intendedAt + Grace + MaxSkew < MaxTime)
      ~> (k \notin objects /\ k \notin TrackedKeys)

=============================================================================
