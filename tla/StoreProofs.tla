---------------------------- MODULE StoreProofs ----------------------------
(***************************************************************************)
(* Collectors beside writers, and then writers, collectors and sequencers  *)
(* together, for any number of each.                                       *)
(*                                                                         *)
(* Collectors.  None takes an object that a committed row names, now or    *)
(* ever, with any batch size and every Grace that covers the longest write *)
(* and the skew of the clocks.  A key is alive while its write runs or its *)
(* PUT is in flight.  Timely keeps a live key's pending row young          *)
(* (LiveIsYoung), so a scan finds only keys that are dead, and tracked,    *)
(* hence in no committed row.  A dead key stays dead: new keys are new,    *)
(* and a PUT is sent by a live write only (NothingRevived).  Deleting its  *)
(* object and its row then disturbs nothing that KeyInv says of writers.   *)
(*                                                                         *)
(* The whole.  Seen through their file ids and the start of their          *)
(* transactions, the writers of WritePath do what the environment of       *)
(* Sequencer does, and the collectors do nothing (RunsSequencer); so what  *)
(* SequencerProofs shows of a sequencer in its environment holds of it     *)
(* beside the real writers.  That the view is right rests on the ids that  *)
(* the sequence hands out: each is above all before it (FreshIds), so the  *)
(* row a COMMIT adds has an id that no row has had.                        *)
(*                                                                         *)
(* Log and feed. Each write of the whole is one step of VersionedLog,      *)
(* beside collectors and sequencers (RowsKept, RowsInvariant). The         *)
(* theorems of SequencerProofs hold of the whole as they stand: they are   *)
(* instantiated with its view of the writers (Proved), and the two         *)
(* instances of Sequencer are one (SameTerms, SameNext).                   *)
(***************************************************************************)
EXTENDS Store, WritePathProofs

-----------------------------------------------------------------------------
(* The inductive invariant.                                                *)

\* The keys a collector has scanned and not done with.
Swept(g) == todo[g] \cup ({cur[g]} \ {0})

\* They were generated, and the one in cur has no object any more.
SweepSound ==
  \A g \in Collectors :
    /\ \A k \in Swept(g) : k < nextKey
    /\ cur[g] # 0 => cur[g] \notin objects

\* The row of a write that still runs is not older than a write may take.
LiveIsYoung == \A r \in pending : Live(r.key) => now <= r.intendedAt + WriteBound

GcTyped ==
  /\ todo \in [Collectors -> SUBSET Keys]
  /\ cur \in [Collectors -> Keys \cup {0}]

GcInv ==
  /\ TypeInv /\ KeyInv
  /\ GcTyped /\ SweepSound /\ LiveIsYoung /\ SweepHarmless

LEMMA GcInitInv == GcInit => GcInv
<1> SUFFICES ASSUME GcInit PROVE GcInv
  OBVIOUS
<1>1. Init /\ todo = [g \in Collectors |-> {}] /\ cur = [g \in Collectors |-> 0]
  BY DEF GcInit
<1>2. TypeInv /\ KeyInv
  BY <1>1, TypeInit, KeyInit
<1>3. GcTyped
  BY <1>1 DEF GcTyped
<1>4. SweepSound /\ SweepHarmless
  BY <1>1 DEF SweepSound, SweepHarmless, Swept
<1>5. LiveIsYoung
  BY <1>1 DEF Init, CatalogInit, LiveIsYoung
<1> QED BY <1>2, <1>3, <1>4, <1>5 DEF GcInv

-----------------------------------------------------------------------------
(* Writers and the bucket.                                                 *)

\* A key that was generated and is dead stays dead.
LEMMA NothingRevived ==
  ASSUME TypeInv, KeyInv, [Next]_vars, NEW k \in Keys, k < nextKey, Live(k)'
  PROVE  Live(k)
<1> USE DEF TypeInv, TypeOK, CatalogTypeOK, WriteTypeOK, Goto, Leave, ReturnErr, ReturnRef,
    Live, InFlightKeys, NoTx, TxLocals
<1>1. ASSUME NEW w \in Writers, StartCall(w) PROVE Live(k)
  <2>1. tx[w].key = 0
    BY <1>1 DEF StartCall, KeyInv, KeysOwned, WithKey, Unsent, Sent, PrePut, Aborted
  <2> QED BY <1>1, <2>1 DEF StartCall, catalogVars, Keys
<1>2. ASSUME NEW w \in Writers, LookupToken(w) PROVE Live(k)
  BY <1>2 DEF LookupToken, LookupHit, catalogVars, Keys
<1>3. ASSUME NEW w \in Writers, TrackPending(w) PROVE Live(k)
  <2>1. k # nextKey
    BY DEF Keys
  <2> QED BY <1>3, <2>1 DEF TrackPending, Keys
<1>4. ASSUME NEW w \in Writers, BeginTx(w) \/ UpsertPartition(w) \/ InsertFile(w) PROVE Live(k)
  BY <1>4 DEF BeginTx, UpsertPartition, InsertFile, catalogVars
<1>5. ASSUME NEW w \in Writers, SendPut(w) PROVE Live(k)
  BY <1>5 DEF SendPut
<1>6. ASSUME NEW w \in Writers, PutAcked(w) \/ UntrackPending(w) \/ FailBeforePut(w) PROVE Live(k)
  <2>1. pc[w] # "idle" /\ UNCHANGED <<tx, puts>> /\ \A v \in Writers \ {w} : pc'[v] = pc[v]
    BY <1>6 DEF PutAcked, UntrackPending, FailBeforePut, catalogVars, PrePut
  <2> QED BY <2>1
<1>7. ASSUME NEW w \in Writers, Commit(w) \/ CommitUnknown(w) PROVE Live(k)
  BY <1>7 DEF Commit, CommitUnknown, CommitEffect, Keys
<1>8. ASSUME NEW w \in Writers, CleanUp(w) PROVE Live(k)
  <2>1. puts' = puts
    BY <1>8 DEF CleanUp
  <2>2. CASE ReturnErr(w)
    BY <2>1, <2>2 DEF Keys
  <2>3. CASE Goto(w, {"raceLost"}, "relookup") /\ UNCHANGED tx
    BY <2>1, <2>3
  <2> QED BY <1>8, <2>2, <2>3 DEF CleanUp
<1>9. ASSUME NEW w \in Writers, Relookup(w) \/ FailAndLeave(w) PROVE Live(k)
  BY <1>9 DEF Relookup, LookupHit, FailAndLeave, catalogVars, Keys
<1>10. ASSUME BucketStep PROVE Live(k)
  BY <1>10 DEF BucketStep, S3ApplyPut, S3LosePut, writeVars
<1>11. CASE UNCHANGED vars
  BY <1>11 DEF vars, catalogVars, writeVars
<1> QED
  BY <1>1, <1>2, <1>3, <1>4, <1>5, <1>6, <1>7, <1>8, <1>9, <1>10, <1>11
  DEF Next, WriterStep, Progress, Failure

\* What the tables can gain in a step: a row of a live key, an object whose PUT
\* was in flight, the pending row of a new key.
LEMMA WhatTablesGain ==
  ASSUME TypeInv, KeyInv, [Next]_vars
  PROVE  /\ now' = now /\ nextKey' \in {nextKey, nextKey + 1}
         /\ \A f \in files' : f \in files \/ Live(f.key)
         /\ \A k \in objects' : k \in objects \/ Live(k)
         /\ \A r \in pending' : r \in pending \/ (r.key = nextKey /\ r.intendedAt = now)
<1> DEFINE Gains ==
             /\ now' = now /\ nextKey' \in {nextKey, nextKey + 1}
             /\ \A f \in files' : f \in files \/ Live(f.key)
             /\ \A k \in objects' : k \in objects \/ Live(k)
             /\ \A r \in pending' : r \in pending \/ (r.key = nextKey /\ r.intendedAt = now)
<1>1. ASSUME NEW w \in Writers, TrackPending(w) PROVE Gains
  BY <1>1 DEF TrackPending, PendingInsert
<1>2. ASSUME NEW w \in Writers, pc[w] = "commit", CommitEffect(w) PROVE Gains
  <2>1. RowOf(w).key = tx[w].key
    BY DEF RowOf
  <2>2. Live(tx[w].key)
    BY <1>2 DEF Live
  <2> QED BY <1>2, <2>1, <2>2 DEF CommitEffect, PendingDelete
<1>3. ASSUME NEW w \in Writers, CleanUp(w) PROVE Gains
  BY <1>3 DEF CleanUp, PendingDelete
<1>4. CASE S3ApplyPut
  BY <1>4 DEF S3ApplyPut, Live, InFlightKeys
<1>5. CASE UNCHANGED <<now, files, objects, pending, nextKey>>
  BY <1>5
<1>6. \/ \E w \in Writers : TrackPending(w) \/ (pc[w] = "commit" /\ CommitEffect(w)) \/ CleanUp(w)
      \/ S3ApplyPut
      \/ UNCHANGED <<now, files, objects, pending, nextKey>>
  <2>1. CASE UNCHANGED vars
    BY <2>1 DEF vars, catalogVars
  <2>2. CASE BucketStep
    BY <2>2 DEF BucketStep, S3LosePut
  <2>3. ASSUME NEW w \in Writers, StartCall(w) \/ Progress(w)
        PROVE  \/ TrackPending(w) \/ CleanUp(w) \/ (pc[w] = "commit" /\ CommitEffect(w))
               \/ UNCHANGED <<now, files, objects, pending, nextKey>>
    BY <2>3 DEF Progress, StartCall, LookupToken, LookupHit, BeginTx, UpsertPartition,
       InsertFile, SendPut, PutAcked, UntrackPending, Commit, Relookup, catalogVars
  <2>4. ASSUME NEW w \in Writers, Failure(w)
        PROVE  \/ (pc[w] = "commit" /\ CommitEffect(w))
               \/ UNCHANGED <<now, files, objects, pending, nextKey>>
    BY <2>4 DEF Failure, CommitUnknown, FailBeforePut, FailAndLeave, catalogVars
  <2> QED BY <2>1, <2>2, <2>3, <2>4 DEF Next, WriterStep
<1> QED BY <1>1, <1>2, <1>3, <1>4, <1>5, <1>6

LEMMA WriterKeepsGcInv ==
  ASSUME GcInv, [Next]_vars, UNCHANGED gcVars
  PROVE  GcInv'
<1>1. TypeInv' /\ KeyInv'
  BY TypeStep, KeyStep DEF GcInv
<1>2. GcTyped'
  BY DEF GcInv, GcTyped, gcVars
<1> USE DEF GcInv, gcVars
<1>3. nextKey \in Nat /\ nextKey' \in {nextKey, nextKey + 1} /\ now' = now /\ now \in Nat
  BY WhatTablesGain, CatalogAssumption DEF TypeInv, TypeOK, CatalogTypeOK, Times
<1>4. \A g \in Collectors : \A k \in Swept(g) : k \in Keys /\ k < nextKey /\ ~Live(k) /\ ~Live(k)'
  <2> SUFFICES ASSUME NEW g \in Collectors, NEW k \in Swept(g)
               PROVE  k \in Keys /\ k < nextKey /\ ~Live(k) /\ ~Live(k)'
    OBVIOUS
  <2>1. k \in Keys /\ k < nextKey /\ ~Live(k)
    BY DEF GcTyped, SweepSound, SweepHarmless, Swept
  <2> QED BY <2>1, NothingRevived
<1>5. SweepSound'
  BY <1>3, <1>4, WhatTablesGain DEF SweepSound, Swept, Keys
<1>6. SweepHarmless'
  <2> SUFFICES ASSUME NEW g \in Collectors, NEW k \in Swept(g)
               PROVE  k \notin ReferencedKeys'
    BY <1>4 DEF SweepHarmless, Swept
  <2> QED BY <1>4, WhatTablesGain DEF SweepHarmless, Swept, ReferencedKeys
<1>7. LiveIsYoung'
  <2> SUFFICES ASSUME NEW r \in pending', Live(r.key)'
               PROVE  now <= r.intendedAt + WriteBound
    BY <1>3 DEF LiveIsYoung
  <2>1. CASE r \in pending
    <3>1. r.key \in Keys /\ r.key < nextKey
      BY <2>1 DEF TypeInv, TypeOK, CatalogTypeOK, PendingRow, KeyInv, KeysGenerated
    <3>2. Live(r.key)
      BY <3>1, NothingRevived
    <3> QED BY <2>1, <3>2 DEF LiveIsYoung
  <2>2. CASE r.intendedAt = now
    BY <1>3, <2>2, GcAssumption
  <2> QED BY <2>1, <2>2, WhatTablesGain
<1> QED BY <1>1, <1>2, <1>5, <1>6, <1>7

-----------------------------------------------------------------------------
(* The collector and the clock.                                            *)

\* A step that leaves the writers and the requests in flight alone.
LEMMA SameLife ==
  ASSUME UNCHANGED <<pc, tx, puts>>
  PROVE  \A k : Live(k)' <=> Live(k)
BY DEF Live, InFlightKeys

\* What is overdue is an orphan: its write is over, and has not committed.
LEMMA OverdueIsDead ==
  ASSUME GcInv, NEW skew \in -MaxSkew .. MaxSkew, NEW r \in Overdue(now + skew - Grace)
  PROVE  /\ r.key \in Keys /\ r.key < nextKey
         /\ r.key \notin ReferencedKeys /\ ~Live(r.key)
<1>1. r \in pending /\ r.intendedAt < now + skew - Grace
  BY DEF Overdue
<1>2. r.key \in Keys /\ r.intendedAt \in Nat /\ now \in Nat
  BY <1>1, CatalogAssumption DEF GcInv, TypeInv, TypeOK, CatalogTypeOK, PendingRow, Times
<1>3. r.key < nextKey /\ r.key \notin ReferencedKeys
  BY <1>1 DEF GcInv, KeyInv, KeysGenerated, CommittedNotTracked, TrackedKeys
<1>4. ~(now <= r.intendedAt + WriteBound)
  BY <1>1, <1>2, GcAssumption, GraceAssumption
<1> QED BY <1>1, <1>2, <1>3, <1>4 DEF GcInv, LiveIsYoung

LEMMA ScanKeepsGcInv ==
  ASSUME GcInv, NEW g \in Collectors, Scan(g)
  PROVE  GcInv'
<1>0. PICK skew \in -MaxSkew .. MaxSkew :
        \E S \in OldestOverdue(now + skew - Grace) : todo' = [todo EXCEPT ![g] = {r.key : r \in S}]
  BY DEF Scan
<1>1. PICK S \in SUBSET Overdue(now + skew - Grace) :
        todo' = [todo EXCEPT ![g] = {r.key : r \in S}]
  BY <1>0 DEF OldestOverdue
<1>2. UNCHANGED <<vars, cur>> /\ cur[g] = 0
  BY DEF Scan, Idle
<1>3. \A k \in {r.key : r \in S} : k \in Keys /\ k < nextKey /\ k \notin ReferencedKeys /\ ~Live(k)
  BY OverdueIsDead
<1>4. TypeInv' /\ KeyInv'
  BY <1>2, TypeStep, KeyStep DEF GcInv
<1>5. GcTyped'
  BY <1>1, <1>2, <1>3 DEF GcInv, GcTyped
<1>6. UNCHANGED <<pc, tx, puts, pending, now, files, objects, nextKey>>
  BY <1>2 DEF vars, catalogVars, writeVars
<1>7. SweepSound' /\ SweepHarmless'
  BY <1>1, <1>2, <1>3, <1>6, SameLife DEF GcInv, GcTyped, SweepSound, SweepHarmless, Swept,
     ReferencedKeys
<1>8. LiveIsYoung'
  BY <1>6, SameLife DEF GcInv, LiveIsYoung
<1> QED BY <1>4, <1>5, <1>7, <1>8 DEF GcInv

LEMMA DeleteObjectKeepsGcInv ==
  ASSUME GcInv, NEW g \in Collectors, NEW k \in Keys, DeleteObject(g, k)
  PROVE  GcInv'
<1>1. /\ cur[g] = 0 /\ k \in todo[g]
      /\ todo' = [todo EXCEPT ![g] = @ \ {k}]
      /\ \/ objects' = objects \ {k} /\ cur' \in {[cur EXCEPT ![g] = k], cur}
         \/ objects' = objects /\ cur' = cur
      /\ UNCHANGED <<now, files, partitions, pending, puts, nextKey, nextFileId,
                     pc, op, tx, acked>>
  BY DEF DeleteObject, writeVars
<1>2. k < nextKey /\ k \notin ReferencedKeys /\ ~Live(k)
  BY <1>1 DEF GcInv, SweepSound, SweepHarmless, Swept
<1>3. objects' \subseteq objects /\ objects \subseteq objects' \cup {k}
  BY <1>1
<1>4. TypeInv'
  BY <1>1, <1>3 DEF GcInv, TypeInv, TypeOK, CatalogTypeOK, WriteTypeOK, RowHasId, RowHasKey
<1>5. KeyInv'
  <2>1. KeysGenerated' /\ KeysOwned'
    BY <1>1, <1>3 DEF GcInv, KeyInv, KeysGenerated, KeysOwned
  <2>2. \A w \in Writers : pc[w] \in Sent => tx[w].key # k
    BY <1>2 DEF Live, Sent
  <2>3. KeysTracked'
    BY <1>1, <1>3, <2>2 DEF GcInv, KeyInv, KeysTracked, TrackedKeys, InFlightKeys
  <2>4. CommittedNotTracked' /\ CommittedHasObject' /\ OrphansTracked'
    BY <1>1, <1>2, <1>3 DEF GcInv, KeyInv, CommittedNotTracked, CommittedHasObject,
       OrphansTracked, ReferencedKeys, TrackedKeys, InFlightKeys
  <2> QED BY <2>1, <2>3, <2>4 DEF KeyInv
<1>6. GcTyped'
  BY <1>1 DEF GcInv, GcTyped
<1>7. \A h \in Collectors : Swept(h)' \subseteq Swept(h)
  BY <1>1 DEF GcInv, GcTyped, Swept
<1>8. SweepSound'
  BY <1>1, <1>3, <1>7 DEF GcInv, GcTyped, SweepSound
<1>9. SweepHarmless' /\ LiveIsYoung'
  BY <1>1, <1>7, SameLife DEF GcInv, SweepHarmless, Swept, ReferencedKeys, LiveIsYoung
<1> QED BY <1>4, <1>5, <1>6, <1>8, <1>9 DEF GcInv

LEMMA DeleteRowKeepsGcInv ==
  ASSUME GcInv, NEW g \in Collectors, DeleteRow(g)
  PROVE  GcInv'
<1> DEFINE k == cur[g]
<1>1. /\ k # 0
      /\ PendingDelete(k) \/ UNCHANGED pending
      /\ cur' = [cur EXCEPT ![g] = 0]
      /\ UNCHANGED <<now, files, partitions, objects, puts, nextKey, nextFileId,
                     pc, op, tx, acked, todo>>
  BY DEF DeleteRow, writeVars
<1>2. k \notin ReferencedKeys /\ ~Live(k) /\ k \notin objects
  BY <1>1 DEF GcInv, SweepSound, SweepHarmless
<1>3. /\ pending' \subseteq pending
      /\ \A r \in pending : r.key # k => r \in pending'
  BY <1>1 DEF PendingDelete
<1> HIDE DEF k
<1>4. TypeInv'
  BY <1>1, <1>3 DEF GcInv, TypeInv, TypeOK, CatalogTypeOK, WriteTypeOK, RowHasId, RowHasKey
<1>5. KeyInv'
  <2>1. KeysGenerated' /\ KeysOwned'
    BY <1>1, <1>3 DEF GcInv, KeyInv, KeysGenerated, KeysOwned
  <2>2. \A w \in Writers : pc[w] \in WithRow => tx[w].key # k
    BY <1>2 DEF Live, WithRow, InTx, HoldsRow, PrePut, PutDone
  <2>3. KeysTracked'
    BY <1>1, <1>3, <2>2 DEF GcInv, KeyInv, KeysTracked, TrackedKeys, InFlightKeys
  <2>4. k \notin InFlightKeys
    BY <1>2 DEF Live
  <2>5. CommittedNotTracked' /\ CommittedHasObject' /\ OrphansTracked'
    BY <1>1, <1>2, <1>3, <2>4 DEF GcInv, KeyInv, CommittedNotTracked, CommittedHasObject,
       OrphansTracked, ReferencedKeys, TrackedKeys, InFlightKeys
  <2> QED BY <2>1, <2>3, <2>5 DEF KeyInv
<1>6. GcTyped'
  BY <1>1 DEF GcInv, GcTyped
<1>7. \A h \in Collectors : Swept(h)' \subseteq Swept(h)
  BY <1>1 DEF GcInv, GcTyped, Swept
<1>8. SweepSound'
  BY <1>1, <1>7 DEF GcInv, GcTyped, SweepSound
<1>9. SweepHarmless' /\ LiveIsYoung'
  BY <1>1, <1>3, <1>7, SameLife DEF GcInv, SweepHarmless, Swept, ReferencedKeys, LiveIsYoung
<1> QED BY <1>4, <1>5, <1>6, <1>8, <1>9 DEF GcInv

LEMMA CrashKeepsGcInv ==
  ASSUME GcInv, NEW g \in Collectors, GcCrash(g)
  PROVE  GcInv'
<1>1. /\ todo' = [todo EXCEPT ![g] = {}] /\ cur' = [cur EXCEPT ![g] = 0]
      /\ UNCHANGED vars
  BY DEF GcCrash
<1>2. TypeInv' /\ KeyInv'
  BY <1>1, TypeStep, KeyStep DEF GcInv
<1>3. GcTyped'
  BY <1>1 DEF GcInv, GcTyped
<1>4. UNCHANGED <<pc, tx, puts, pending, now, files, objects, nextKey>>
  BY <1>1 DEF vars, catalogVars, writeVars
<1>5. \A h \in Collectors : Swept(h)' \subseteq Swept(h)
  BY <1>1 DEF GcInv, GcTyped, Swept
<1>6. SweepSound'
  BY <1>1, <1>4, <1>5 DEF GcInv, GcTyped, SweepSound
<1>7. SweepHarmless' /\ LiveIsYoung'
  BY <1>4, <1>5, SameLife DEF GcInv, SweepHarmless, Swept, ReferencedKeys, LiveIsYoung
<1> QED BY <1>2, <1>3, <1>6, <1>7 DEF GcInv

LEMMA TickKeepsGcInv ==
  ASSUME GcInv, Tick
  PROVE  GcInv'
<1>1. /\ now < MaxTime /\ now' = now + 1
      /\ \A r \in pending : Live(r.key) => now < r.intendedAt + WriteBound
      /\ UNCHANGED <<files, partitions, pending, objects, puts, nextKey, nextFileId,
                     pc, op, tx, acked, todo, cur>>
  BY DEF Tick, Timely, writeVars, gcVars
<1>2. now \in Nat /\ now' \in Times
  BY <1>1, CatalogAssumption DEF GcInv, TypeInv, TypeOK, CatalogTypeOK, Times
<1>3. TypeInv'
  BY <1>1, <1>2 DEF GcInv, TypeInv, TypeOK, CatalogTypeOK, WriteTypeOK, RowHasId, RowHasKey
<1>4. KeyInv'
  BY <1>1 DEF GcInv, KeyInv, KeysGenerated, KeysOwned, KeysTracked, CommittedNotTracked,
     CommittedHasObject, OrphansTracked, TrackedKeys, ReferencedKeys, InFlightKeys
<1>5. GcTyped' /\ SweepSound'
  BY <1>1 DEF GcInv, GcTyped, SweepSound, Swept
<1>6. SweepHarmless'
  BY <1>1, SameLife DEF GcInv, SweepHarmless, ReferencedKeys
<1>7. LiveIsYoung'
  <2> SUFFICES ASSUME NEW r \in pending, Live(r.key)
               PROVE  now + 1 <= r.intendedAt + WriteBound
    BY <1>1, SameLife DEF LiveIsYoung
  <2>1. r.intendedAt \in Nat
    BY CatalogAssumption DEF GcInv, TypeInv, TypeOK, CatalogTypeOK, PendingRow, Times
  <2> QED BY <1>1, <1>2, <2>1, GcAssumption
<1> QED BY <1>3, <1>4, <1>5, <1>6, <1>7 DEF GcInv

-----------------------------------------------------------------------------
(* What follows for every behaviour.                                       *)

LEMMA GcInvariant == GcSpec => []GcInv
<1>1. GcInit => GcInv
  BY GcInitInv
<1>2. GcInv /\ [GcNext]_allVars => GcInv'
  <2> SUFFICES ASSUME GcInv, [GcNext]_allVars
               PROVE  GcInv'
    OBVIOUS
  <2>1. CASE Next /\ UNCHANGED gcVars
    BY <2>1, WriterKeepsGcInv
  <2>2. CASE \E g \in Collectors : CollectorStep(g)
    BY <2>2, ScanKeepsGcInv, DeleteObjectKeepsGcInv, DeleteRowKeepsGcInv, CrashKeepsGcInv
       DEF CollectorStep
  <2>3. CASE Tick
    BY <2>3, TickKeepsGcInv
  <2>4. CASE UNCHANGED allVars
    BY <2>4, WriterKeepsGcInv DEF allVars
  <2> QED BY <2>1, <2>2, <2>3, <2>4 DEF GcNext
<1> QED BY <1>1, <1>2, PTL DEF GcSpec

\* The tables and the collectors' lists have the shapes the code gives them.
THEOREM GcTypeCorrect == GcSpec => []GcTypeOK
<1>1. GcInv => GcTypeOK
  BY DEF GcInv, TypeInv, GcTyped, GcTypeOK
<1> QED BY <1>1, GcInvariant, PTL

\* reclaimOne, which never looks at s3pgstore_files, deletes orphans only.
THEOREM SweepIsHarmless == GcSpec => []SweepHarmless
<1>1. GcInv => SweepHarmless
  BY DEF GcInv
<1> QED BY <1>1, GcInvariant, PTL

\* No committed row loses its object to a collector.
THEOREM CommittedKeepsObject == GcSpec => []CommittedHasObject
<1>1. GcInv => CommittedHasObject
  BY DEF GcInv, KeyInv
<1> QED BY <1>1, GcInvariant, PTL

\* No object is left without a file row and a pending row, whichever deletions
\* fail and wherever a writer or a collector stops.
THEOREM OrphansStayTracked == GcSpec => []OrphansTracked
<1>1. GcInv => OrphansTracked
  BY DEF GcInv, KeyInv
<1> QED BY <1>1, GcInvariant, PTL

-----------------------------------------------------------------------------
(* The writers' rows beside the collectors.                                *)

\* The collectors' steps and the clock's touch no row that a writer reads.
LEMMA OthersKeepRows ==
  ASSUME UNCHANGED <<files, partitions, pc, op, tx, acked>>
  PROVE  /\ RowInv => RowInv'
         /\ [Atomic!Next]_Atomic!vars
<1>1. TableInv /\ AnswerInv => TableInv' /\ AnswerInv'
  BY SameAnswers
<1>2. CallInv => CallInv'
  BY DEF CallInv, RowLocked, VersionNext, TokenFree, RelookupHits, TokenRows
<1>3. UNCHANGED Atomic!vars
  BY QuietLog
<1> QED BY <1>1, <1>2, <1>3 DEF RowInv

\* A step of the whole is a writer's, or leaves the writers' rows alone.
LEMMA WriterOrOther ==
  ASSUME [GcNext]_allVars
  PROVE  [Next]_vars \/ UNCHANGED <<files, partitions, pc, op, tx, acked>>
BY DEF GcNext, CollectorStep, Scan, DeleteObject, DeleteRow, GcCrash, Tick,
   allVars, vars, catalogVars, writeVars

\* What WritePathProofs shows of versions, tokens and answers stays true.
LEMMA RowsKept ==
  ASSUME GcInv, RowInv, [GcNext]_allVars
  PROVE  RowInv'
<1>1. CASE [Next]_vars
  BY <1>1, RowStep DEF GcInv
<1>2. CASE UNCHANGED <<files, partitions, pc, op, tx, acked>>
  BY <1>2, OthersKeepRows
<1> QED BY <1>1, <1>2, WriterOrOther

\* Every step is one of the versioned log, or one that it cannot see.
LEMMA GcStepImplements ==
  ASSUME GcInv, GcInv', RowInv, RowInv', [GcNext]_allVars
  PROVE  [Atomic!Next]_Atomic!vars
<1>1. CASE [Next]_vars
  BY <1>1, NextImplements DEF GcInv, IInv
<1>2. CASE UNCHANGED <<files, partitions, pc, op, tx, acked>>
  BY <1>2, OthersKeepRows
<1> QED BY <1>1, <1>2, WriterOrOther

\* It holds in every reachable state.
LEMMA RowsInvariant == GcSpec => []RowInv
<1>1. GcInit => RowInv
  BY RowInit DEF GcInit
<1>2. GcInv /\ RowInv /\ [GcNext]_allVars => RowInv'
  BY RowsKept
<1> QED BY <1>1, <1>2, GcInvariant, PTL DEF GcSpec

\* Beside collectors that sweep at any moment, writePartition is still the
\* atomic append of VersionedLog.
THEOREM GcImplementsLog == GcSpec => WritesAreAtomic
<1>1. GcInit => Atomic!Init
  BY InitImplements DEF GcInit
<1>2. GcInv /\ GcInv' /\ RowInv /\ RowInv' /\ [GcNext]_allVars => [Atomic!Next]_Atomic!vars
  BY GcStepImplements
<1> QED
  BY <1>1, <1>2, GcInvariant, RowsInvariant, PTL DEF GcSpec, WritesAreAtomic, Atomic!Spec

\* A FileRef returned without an error stays good: its row is committed and its
\* object is in the bucket, for ever, with collectors sweeping.
AnsweredReadable ==
  \A a \in acked : a.ref \in files /\ a.ref.key \in objects

\* It does, for every grace that covers the longest write and the clocks' skew
\* (gc.go:Sweep deletes tracked objects only; write_path.go untracks a key in the
\* transaction that makes its row visible).
THEOREM AnsweredStaysReadable == GcSpec => []AnsweredReadable
<1>1. GcInv /\ RowInv => AnsweredReadable
  BY DEF GcInv, KeyInv, CommittedHasObject, ReferencedKeys, RowInv, AnswerInv,
     AnswersDurable, AnsweredReadable
<1> QED BY <1>1, GcInvariant, RowsInvariant, PTL

-----------------------------------------------------------------------------
(* File ids.                                                               *)

FreshIds ==
  /\ \A f \in files : f.id < nextFileId
  /\ \A w \in Writers : HasRow(w) =>
       /\ tx[w].fileId \in FileIds /\ tx[w].fileId < nextFileId
       /\ \A f \in files : f.id # tx[w].fileId
  /\ \A v, w \in Writers :
       (HasRow(v) /\ HasRow(w) /\ tx[v].fileId = tx[w].fileId) => v = w

StoreInv == GcInv /\ FreshIds

\* A step that inserts and commits nothing.
LEMMA QuietIds ==
  ASSUME FreshIds, nextFileId' = nextFileId, files' = files,
         \A w \in Writers : HasRow(w)' => HasRow(w) /\ tx'[w].fileId = tx[w].fileId
  PROVE  FreshIds'
BY DEF FreshIds

\* A transaction that ends, or adds its row to the table.
LEMMA EndIds ==
  ASSUME TypeInv, FreshIds, NEW w \in Writers, Leave(w), nextFileId' = nextFileId,
         files' = files \/ (HasRow(w) /\ files' = files \cup {RowOf(w)})
  PROVE  FreshIds'
<1>1. /\ ~HasRow(w)'
      /\ \A v \in Writers \ {w} : pc'[v] = pc[v] /\ tx'[v] = tx[v]
  BY DEF Leave, HasRow, PrePut, PutDone, TypeInv, TypeOK, WriteTypeOK
<1>2. RowOf(w).id = tx[w].fileId
  BY DEF RowOf
<1> QED BY <1>1, <1>2 DEF FreshIds, HasRow

\* Statement by statement, ids stay fresh.
LEMMA WriterKeepsIds ==
  ASSUME TypeInv, FreshIds, NEW w \in Writers, WriterStep(w)
  PROVE  FreshIds'
<1> USE DEF TypeInv, TypeOK, CatalogTypeOK, WriteTypeOK, HasRow, PrePut, PutDone, Goto, TxLocals
<1>1. CASE StartCall(w)
  <2>1. PICK to \in {"track", "lookup"} : pc' = [pc EXCEPT ![w] = to]
    BY <1>1 DEF StartCall
  <2> QED BY <1>1, <2>1, QuietIds DEF StartCall, catalogVars
<1>2. CASE TrackPending(w)
  BY <1>2, QuietIds, EndIds DEF TrackPending, ReturnErr
<1>3. CASE BeginTx(w) \/ UpsertPartition(w)
  BY <1>3, QuietIds DEF BeginTx, UpsertPartition, catalogVars
<1>4. CASE InsertFile(w)
  <2>1. /\ nextFileId \in Nat /\ nextFileId \in FileIds
        /\ nextFileId' = nextFileId + 1 /\ files' = files
    BY <1>4, CatalogAssumption DEF InsertFile, FileIds
  <2>2. \A v \in Writers \ {w} : (HasRow(v)' <=> HasRow(v)) /\ tx'[v] = tx[v]
    BY <1>4 DEF InsertFile
  <2>3. HasRow(w)' => tx'[w].fileId = nextFileId
    BY <1>4 DEF InsertFile
  <2>4. \A i \in FileIds : i < nextFileId => i < nextFileId + 1 /\ i # nextFileId
    BY <2>1 DEF FileIds
  <2>5. \A f \in files : f.id \in FileIds
    BY DEF FileRow
  <2>6. nextFileId < nextFileId + 1
    BY <2>1
  <2> HIDE DEF TypeInv, TypeOK, CatalogTypeOK, WriteTypeOK, HasRow, FileIds
  <2> QED BY <2>1, <2>2, <2>3, <2>4, <2>5, <2>6 DEF FreshIds
<1>5. CASE SendPut(w) \/ PutAcked(w) \/ UntrackPending(w) \/ FailBeforePut(w)
  BY <1>5, QuietIds DEF SendPut, PutAcked, UntrackPending, FailBeforePut, catalogVars
<1>6. CASE Commit(w) \/ CommitUnknown(w)
  BY <1>6, EndIds DEF Commit, CommitUnknown, CommitEffect, ReturnRef, ReturnErr
<1>7. CASE LookupToken(w) \/ Relookup(w)
  BY <1>7, QuietIds, EndIds
     DEF LookupToken, Relookup, LookupHit, ReturnRef, ReturnErr, catalogVars
<1>8. CASE CleanUp(w)
  BY <1>8, QuietIds, EndIds DEF CleanUp, ReturnErr
<1>9. CASE FailAndLeave(w)
  BY <1>9, EndIds DEF FailAndLeave, ReturnErr, catalogVars
<1> QED
  BY <1>1, <1>2, <1>3, <1>4, <1>5, <1>6, <1>7, <1>8, <1>9 DEF WriterStep, Progress, Failure

-----------------------------------------------------------------------------
(* The writers as the sequencers' environment.                             *)

\* The bounds of Store are inside those of Sequencer.
LEMMA IdBounds ==
  ASSUME TypeInv
  PROVE  /\ nextFileId <= MaxKeys + 1
         /\ nextFileId <= MaxKeys => nextFileId <= MaxKeys + 1
BY CatalogAssumption DEF TypeInv, TypeOK, CatalogTypeOK

\* What a sequencer sees of a writer whose statement moves it to phase to.
LEMMA ViewMoves ==
  ASSUME TypeInv, NEW w \in Writers, NEW to, pc' = [pc EXCEPT ![w] = to],
         \A v \in Writers \ {w} : tx'[v] = tx[v]
  PROVE  /\ WriterView' = [WriterView EXCEPT ![w] =
                            IF to \in (PrePut \ {"insert"}) \cup PutDone THEN "inserted"
                            ELSE IF to \in InTx THEN "open" ELSE "none"]
         /\ WriterStart' = [WriterStart EXCEPT ![w] =
                             IF to \in InTx THEN tx'[w].start ELSE 0]
         /\ WriterId' = [WriterId EXCEPT ![w] =
                          IF to \in (PrePut \ {"insert"}) \cup PutDone
                          THEN tx'[w].fileId ELSE 0]
BY DEF TypeInv, TypeOK, WriteTypeOK, WriterView, WriterStart, WriterId, HasRow

\* A statement that opens no transaction, ends none and inserts nothing.
LEMMA QuietView ==
  ASSUME TypeInv, NEW w \in Writers, NEW to, pc' = [pc EXCEPT ![w] = to],
         \A v \in Writers \ {w} : tx'[v] = tx[v],
         \/ pc[w] \notin InTx /\ to \notin InTx
         \/ /\ {pc[w], to} \subseteq {"upsert", "insert"}
            /\ tx'[w].start = tx[w].start
         \/ {pc[w], to} \subseteq (PrePut \ {"insert"}) \cup PutDone /\ tx' = tx,
         UNCHANGED <<now, nextFileId, files, seqVars>>
  PROVE  UNCHANGED Sequencing!vars
<1>1. UNCHANGED <<WriterView, WriterStart, WriterId>>
  <2>1. /\ WriterView[w] = IF to \in (PrePut \ {"insert"}) \cup PutDone THEN "inserted"
                           ELSE IF to \in InTx THEN "open" ELSE "none"
        /\ WriterStart[w] = IF to \in InTx THEN tx'[w].start ELSE 0
        /\ WriterId[w] = IF to \in (PrePut \ {"insert"}) \cup PutDone
                         THEN tx'[w].fileId ELSE 0
    BY DEF WriterView, WriterStart, WriterId, HasRow, PrePut, PutDone, InTx, HoldsRow
  <2>2. /\ WriterView' = [WriterView EXCEPT ![w] = WriterView[w]]
        /\ WriterStart' = [WriterStart EXCEPT ![w] = WriterStart[w]]
        /\ WriterId' = [WriterId EXCEPT ![w] = WriterId[w]]
    BY <2>1, ViewMoves
  <2> QED BY <2>2 DEF WriterView, WriterStart, WriterId
<1>2. UNCHANGED <<CommittedIds, WrittenAt>>
  BY DEF CommittedIds, WrittenAt, RowWithId
<1> QED
  BY <1>1, <1>2 DEF Sequencing!vars, Sequencing!writerVars, Sequencing!feedVars,
     Sequencing!sequencerVars, seqVars

\* One that ends a transaction without its rows.
LEMMA RollbackView ==
  ASSUME TypeInv, NEW w \in Writers, NEW to, pc' = [pc EXCEPT ![w] = to],
         \A v \in Writers \ {w} : tx'[v] = tx[v],
         pc[w] \in InTx, to \notin InTx,
         \/ nextFileId' = nextFileId
         \/ pc[w] = "insert" /\ nextFileId <= MaxKeys /\ nextFileId' = nextFileId + 1,
         UNCHANGED <<now, files, seqVars>>
  PROVE  Sequencing!WriterRollback(w)
<1>1. /\ WriterView' = [WriterView EXCEPT ![w] = "none"]
      /\ WriterStart' = [WriterStart EXCEPT ![w] = 0]
      /\ WriterId' = [WriterId EXCEPT ![w] = 0]
  BY ViewMoves DEF InTx, HoldsRow
<1>2. WriterView[w] # "none" /\ (pc[w] = "insert" => WriterView[w] = "open")
  BY DEF WriterView, HasRow, PrePut, PutDone, InTx, HoldsRow
<1>3. UNCHANGED <<CommittedIds, WrittenAt>>
  BY DEF CommittedIds, WrittenAt, RowWithId
<1> QED
  BY <1>1, <1>2, <1>3, IdBounds DEF Sequencing!WriterRollback, Sequencing!WriterEnds,
     Sequencing!feedVars, Sequencing!sequencerVars, seqVars

\* COMMIT.
LEMMA CommitView ==
  ASSUME TypeInv, FreshIds, NEW w \in Writers, pc[w] = "commit", CommitEffect(w), Leave(w),
         UNCHANGED seqVars
  PROVE  Sequencing!WriterCommit(w)
<1> DEFINE id == tx[w].fileId
<1>1. /\ WriterView' = [WriterView EXCEPT ![w] = "none"]
      /\ WriterStart' = [WriterStart EXCEPT ![w] = 0]
      /\ WriterId' = [WriterId EXCEPT ![w] = 0]
  <2>1. pc' = [pc EXCEPT ![w] = "idle"] /\ \A v \in Writers \ {w} : tx'[v] = tx[v]
    BY DEF Leave, TypeInv, TypeOK, WriteTypeOK
  <2>2. "idle" \notin InTx /\ "idle" \notin (PrePut \ {"insert"}) \cup PutDone
    BY DEF InTx, HoldsRow, PrePut, PutDone
  <2> QED BY <2>1, <2>2, ViewMoves
<1>2. WriterView[w] = "inserted" /\ WriterId[w] = id /\ WriterStart[w] = tx[w].start
  BY DEF WriterView, WriterId, WriterStart, HasRow, PrePut, PutDone, InTx, HoldsRow
<1>3. /\ files' = files \cup {RowOf(w)}
      /\ RowOf(w).id = id /\ RowOf(w).writtenAt = tx[w].start
      /\ UNCHANGED <<now, nextFileId>>
  BY DEF CommitEffect, RowOf
<1>4. id \in FeedIds /\ \A f \in files : f.id # id
  BY CatalogAssumption DEF FreshIds, HasRow, PutDone, FileIds, FeedIds
<1>5. CommittedIds' = CommittedIds \cup {id}
  BY <1>3 DEF CommittedIds
<1>6. WrittenAt' = [WrittenAt EXCEPT ![id] = tx[w].start]
  <2> SUFFICES ASSUME NEW i \in FeedIds
               PROVE  WrittenAt'[i] = IF i = id THEN tx[w].start ELSE WrittenAt[i]
    BY <1>4 DEF WrittenAt
  <2>1. CASE i = id
    <3>1. {g \in files' : g.id = id} = {RowOf(w)}
      BY <1>3, <1>4
    <3> QED BY <1>3, <1>5, <2>1, <3>1 DEF WrittenAt, RowWithId
  <2>2. CASE i # id
    <3>1. {g \in files' : g.id = i} = {g \in files : g.id = i}
      BY <1>3, <2>2
    <3>2. i \in CommittedIds' <=> i \in CommittedIds
      BY <1>5, <2>2
    <3>3. RowWithId(i)' = RowWithId(i)
      BY <3>1 DEF RowWithId
    <3> QED BY <2>2, <3>2, <3>3 DEF WrittenAt
  <2> QED BY <2>1, <2>2
<1> QED
  BY <1>1, <1>2, <1>3, <1>5, <1>6 DEF Sequencing!WriterCommit, Sequencing!WriterEnds,
     Sequencing!feedVars, Sequencing!sequencerVars, seqVars

\* BEGIN.
LEMMA BeginView ==
  ASSUME TypeInv, NEW w \in Writers, BeginTx(w), UNCHANGED seqVars
  PROVE  Sequencing!WriterBegin(w)
<1>1. /\ pc[w] = "begin" /\ pc' = [pc EXCEPT ![w] = "upsert"]
      /\ \A v \in Writers \ {w} : tx'[v] = tx[v]
      /\ tx'[w].start = now
      /\ UNCHANGED <<now, files, nextFileId>>
  BY DEF BeginTx, Goto, catalogVars, TypeInv, TypeOK, WriteTypeOK, TxLocals
<1>2. "upsert" \in InTx /\ "upsert" \notin (PrePut \ {"insert"}) \cup PutDone
  BY DEF InTx, HoldsRow, PrePut, PutDone
<1>3. /\ WriterView' = [WriterView EXCEPT ![w] = "open"]
      /\ WriterStart' = [WriterStart EXCEPT ![w] = now]
      /\ WriterId' = [WriterId EXCEPT ![w] = 0]
  BY <1>1, <1>2, ViewMoves
<1>4. WriterView[w] = "none" /\ WriterId[w] = 0
  BY <1>1 DEF WriterView, WriterId, HasRow, PrePut, PutDone, InTx, HoldsRow
<1>5. WriterId' = WriterId
  BY <1>3, <1>4 DEF WriterId
<1>6. UNCHANGED <<CommittedIds, WrittenAt>>
  BY <1>1 DEF CommittedIds, WrittenAt, RowWithId
<1> QED
  BY <1>1, <1>3, <1>4, <1>5, <1>6, IdBounds DEF Sequencing!WriterBegin, Sequencing!feedVars,
     Sequencing!sequencerVars, seqVars

\* An INSERT that adds the row.
LEMMA InsertView ==
  ASSUME TypeInv, NEW w \in Writers, InsertFile(w), pc' = [pc EXCEPT ![w] = "put"],
         tx' = [tx EXCEPT ![w].fileId = nextFileId], UNCHANGED seqVars
  PROVE  Sequencing!WriterInsert(w)
<1>1. /\ pc[w] = "insert" /\ nextFileId <= MaxKeys /\ nextFileId' = nextFileId + 1
      /\ \A v \in Writers \ {w} : tx'[v] = tx[v]
      /\ tx'[w].start = tx[w].start /\ tx'[w].fileId = nextFileId
      /\ UNCHANGED <<now, files>>
  BY DEF InsertFile, Goto, TypeInv, TypeOK, WriteTypeOK, TxLocals
<1>2. "put" \in InTx /\ "put" \in (PrePut \ {"insert"}) \cup PutDone
  BY DEF InTx, HoldsRow, PrePut, PutDone
<1>3. /\ WriterView' = [WriterView EXCEPT ![w] = "inserted"]
      /\ WriterStart' = [WriterStart EXCEPT ![w] = tx[w].start]
      /\ WriterId' = [WriterId EXCEPT ![w] = nextFileId]
  BY <1>1, <1>2, ViewMoves
<1>4. WriterView[w] = "open" /\ WriterStart[w] = tx[w].start
  BY <1>1 DEF WriterView, WriterStart, HasRow, PrePut, PutDone, InTx, HoldsRow
<1>5. WriterStart' = WriterStart
  BY <1>3, <1>4 DEF WriterStart
<1>6. UNCHANGED <<CommittedIds, WrittenAt>>
  BY <1>1 DEF CommittedIds, WrittenAt, RowWithId
<1> QED
  BY <1>1, <1>3, <1>4, <1>5, <1>6, IdBounds DEF Sequencing!WriterInsert, Sequencing!feedVars,
     Sequencing!sequencerVars, seqVars

\* Every statement and every failure of a writer.
LEMMA WriterSimulated ==
  ASSUME TypeInv, FreshIds, NEW w \in Writers, WriterStep(w), UNCHANGED seqVars
  PROVE  Sequencing!WriterStep(w) \/ UNCHANGED Sequencing!vars
<1> USE DEF TypeInv, TypeOK, WriteTypeOK, Goto, Leave, ReturnErr, ReturnRef, catalogVars
<1>1. CASE StartCall(w)
  <2>1. PICK to \in {"track", "lookup"} : pc' = [pc EXCEPT ![w] = to]
    BY <1>1 DEF StartCall
  <2>2. pc[w] \notin InTx /\ to \notin InTx /\ UNCHANGED <<now, nextFileId, files, tx>>
    BY <1>1 DEF StartCall, InTx, HoldsRow, PrePut, PutDone
  <2> HIDE DEF TypeInv
  <2> QED BY <2>1, <2>2, QuietView
<1>2. CASE LookupToken(w) \/ TrackPending(w) \/ CleanUp(w) \/ Relookup(w)
  <2>1. PICK to \in {"idle", "track", "begin", "relookup"} : pc' = [pc EXCEPT ![w] = to]
    BY <1>2 DEF LookupToken, LookupHit, TrackPending, CleanUp, Relookup
  <2>2. pc[w] \notin InTx /\ to \notin InTx
    BY <1>2 DEF LookupToken, LookupHit, TrackPending, CleanUp, Relookup, InTx, HoldsRow, PrePut,
       PutDone
  <2>3. UNCHANGED <<now, nextFileId, files>> /\ \A v \in Writers \ {w} : tx'[v] = tx[v]
    BY <1>2 DEF LookupToken, LookupHit, TrackPending, CleanUp, Relookup
  <2> HIDE DEF TypeInv
  <2> QED BY <2>1, <2>2, <2>3, QuietView
<1>3. CASE BeginTx(w)
  BY <1>3, BeginView DEF Sequencing!WriterStep
<1>4. CASE UpsertPartition(w)
  <2>1. /\ pc[w] = "upsert" /\ UNCHANGED <<now, nextFileId, files>>
        /\ \A v \in Writers : tx'[v] = tx[v] \/ v = w
        /\ tx'[w].start = tx[w].start
        /\ pc' = [pc EXCEPT ![w] = "insert"] \/ pc' = [pc EXCEPT ![w] = "conflict"]
    BY <1>4 DEF UpsertPartition, TxLocals
  <2>2. "upsert" \in InTx /\ "conflict" \notin InTx
    BY DEF InTx, HoldsRow, PrePut, PutDone
  <2> HIDE DEF TypeInv
  <2>3. CASE pc' = [pc EXCEPT ![w] = "insert"]
    BY <2>1, <2>3, QuietView
  <2>4. CASE pc' = [pc EXCEPT ![w] = "conflict"]
    BY <2>1, <2>2, <2>4, RollbackView DEF Sequencing!WriterStep
  <2> QED BY <2>1, <2>3, <2>4
<1>5. CASE InsertFile(w)
  <2>1. /\ pc[w] = "insert" /\ nextFileId <= MaxKeys /\ nextFileId' = nextFileId + 1
        /\ UNCHANGED <<now, files>>
        /\ \/ pc' = [pc EXCEPT ![w] = "put"] /\ tx' = [tx EXCEPT ![w].fileId = nextFileId]
           \/ pc' = [pc EXCEPT ![w] = "raceLost"] /\ tx' = tx
    BY <1>5 DEF InsertFile
  <2>2. "insert" \in InTx /\ "raceLost" \notin InTx
    BY DEF InTx, HoldsRow, PrePut, PutDone
  <2> HIDE DEF TypeInv
  <2>3. CASE pc' = [pc EXCEPT ![w] = "put"] /\ tx' = [tx EXCEPT ![w].fileId = nextFileId]
    BY <1>5, <2>3, InsertView DEF Sequencing!WriterStep
  <2>4. CASE pc' = [pc EXCEPT ![w] = "raceLost"] /\ tx' = tx
    BY <2>1, <2>2, <2>4, RollbackView DEF Sequencing!WriterStep
  <2> QED BY <2>1, <2>3, <2>4
<1>6. CASE SendPut(w) \/ PutAcked(w) \/ UntrackPending(w)
  <2>1. PICK to \in {"putting", "untrack", "commit"} :
          /\ pc' = [pc EXCEPT ![w] = to]
          /\ pc[w] \in {"put", "putting", "untrack"}
          /\ UNCHANGED <<now, nextFileId, files, tx>>
    BY <1>6 DEF SendPut, PutAcked, UntrackPending
  <2>2. {pc[w], to} \subseteq (PrePut \ {"insert"}) \cup PutDone
    BY <2>1 DEF PrePut, PutDone
  <2> HIDE DEF TypeInv
  <2> QED BY <2>1, <2>2, QuietView
<1>7. CASE Commit(w) \/ CommitUnknown(w)
  <2>1. pc[w] = "commit" /\ CommitEffect(w) /\ Leave(w)
    BY <1>7 DEF Commit, CommitUnknown
  <2> HIDE DEF TypeInv, Leave
  <2> QED BY <2>1, CommitView DEF Sequencing!WriterStep
<1>8. CASE FailBeforePut(w) \/ FailAndLeave(w)
  <2>1. PICK to \in {"failed", "idle"} : pc' = [pc EXCEPT ![w] = to]
    BY <1>8 DEF FailBeforePut, FailAndLeave
  <2>2. UNCHANGED <<now, nextFileId, files>> /\ \A v \in Writers \ {w} : tx'[v] = tx[v]
    BY <1>8 DEF FailBeforePut, FailAndLeave
  <2>3. to \notin InTx
    BY DEF InTx, HoldsRow, PrePut, PutDone
  <2> HIDE DEF TypeInv
  <2>4. CASE pc[w] \in InTx
    BY <2>1, <2>2, <2>3, <2>4, RollbackView DEF Sequencing!WriterStep
  <2>5. CASE pc[w] \notin InTx
    BY <2>1, <2>2, <2>3, <2>5, QuietView
  <2> QED BY <2>4, <2>5
<1> HIDE DEF TypeInv, TypeOK, WriteTypeOK, Goto, Leave, ReturnErr, ReturnRef, catalogVars
<1> QED
  BY <1>1, <1>2, <1>3, <1>4, <1>5, <1>6, <1>7, <1>8 DEF WriterStep, Progress, Failure

-----------------------------------------------------------------------------
(* The steps of the whole.                                                 *)

\* A step that a sequencer cannot notice.
LEMMA SameView ==
  ASSUME UNCHANGED <<now, nextFileId, files, pc, tx, seqVars>>
  PROVE  UNCHANGED Sequencing!vars
<1>1. UNCHANGED <<WriterView, WriterStart, WriterId, CommittedIds, WrittenAt>>
  BY DEF WriterView, WriterStart, WriterId, HasRow, CommittedIds, WrittenAt, RowWithId
<1> QED
  BY <1>1 DEF Sequencing!vars, Sequencing!writerVars, Sequencing!feedVars,
     Sequencing!sequencerVars, seqVars

\* The bucket's and the collectors' steps leave the writers' rows and
\* transactions alone.
LEMMA CollectorsUnseen ==
  ASSUME (BucketStep /\ UNCHANGED gcVars) \/ \E g \in Collectors : CollectorStep(g)
  PROVE  UNCHANGED <<now, nextFileId, files, pc, tx>>
BY DEF BucketStep, S3ApplyPut, S3LosePut, CollectorStep, Scan, DeleteObject, DeleteRow, GcCrash,
   vars, catalogVars, writeVars

\* To its writers and collectors, Store is OrphanGC.
LEMMA StoreIsGc == StoreSpec => GcSpec
<1>1. StoreInit => GcInit
  BY DEF StoreInit
<1>2. [StoreNext]_storeVars => [GcNext]_allVars
  BY DEF StoreNext, SequencerSteps, storeVars
<1> QED BY <1>1, <1>2, PTL DEF StoreSpec, GcSpec

\* The other processes take no ids.
LEMMA IdsStayFresh ==
  ASSUME GcInv, FreshIds, [StoreNext]_storeVars
  PROVE  FreshIds'
<1>1. CASE UNCHANGED <<nextFileId, files, pc, tx>>
  BY <1>1, QuietIds DEF HasRow
<1>2. ASSUME NEW w \in Writers, WriterStep(w) PROVE FreshIds'
  BY <1>2, WriterKeepsIds DEF GcInv
<1>3. CASE (BucketStep /\ UNCHANGED gcVars) \/ \E g \in Collectors : CollectorStep(g)
  BY <1>1, <1>3, CollectorsUnseen
<1>4. CASE Tick \/ UNCHANGED allVars
  BY <1>1, <1>4 DEF Tick, allVars, vars, catalogVars, writeVars
<1> QED
  BY <1>2, <1>3, <1>4 DEF StoreNext, GcNext, Next, SequencerSteps, storeVars

\* What holds of the collectors' part, and of the ids, in every behaviour.
LEMMA StoreInvariant == StoreSpec => []StoreInv
<1>1. StoreInit => FreshIds
  BY CatalogAssumption DEF StoreInit, GcInit, Init, CatalogInit, FreshIds, HasRow, PrePut, PutDone
<1>2. GcInv /\ FreshIds /\ [StoreNext]_storeVars => FreshIds'
  BY IdsStayFresh
<1>3. GcInv /\ FreshIds <=> StoreInv
  BY DEF StoreInv
<1> QED BY <1>1, <1>2, <1>3, StoreIsGc, GcInvariant, PTL DEF StoreSpec

\* Every step of the whole is a step of Sequencer, or one that it cannot see.
LEMMA StoreStep ==
  ASSUME StoreInv, [StoreNext]_storeVars
  PROVE  [Sequencing!Next]_(Sequencing!vars)
<1>1. CASE UNCHANGED <<now, nextFileId, files, pc, tx, seqVars>>
  BY <1>1, SameView
<1>2. ASSUME NEW w \in Writers, WriterStep(w), UNCHANGED seqVars
      PROVE  [Sequencing!Next]_(Sequencing!vars)
  BY <1>2, WriterSimulated DEF StoreInv, GcInv, Sequencing!Next
<1>3. CASE /\ (BucketStep /\ UNCHANGED gcVars) \/ \E g \in Collectors : CollectorStep(g)
           /\ UNCHANGED seqVars
  BY <1>1, <1>3, CollectorsUnseen
<1>4. CASE Tick /\ UNCHANGED seqVars
  <2>1. /\ now < MaxTime /\ now' = now + 1
        /\ UNCHANGED <<nextFileId, files, pc, tx, seqVars>>
    BY <1>4 DEF Tick, writeVars
  <2>2. UNCHANGED <<WriterView, WriterStart, WriterId, CommittedIds, WrittenAt>>
    BY <2>1 DEF WriterView, WriterStart, WriterId, HasRow, CommittedIds, WrittenAt, RowWithId
  <2> QED
    BY <2>1, <2>2 DEF Sequencing!Next, Sequencing!Tick, Sequencing!feedVars,
       Sequencing!sequencerVars, seqVars
<1>5. CASE SequencerSteps
  BY <1>5 DEF SequencerSteps, Sequencing!Next
<1>6. CASE UNCHANGED storeVars
  BY <1>1, <1>6 DEF storeVars, allVars, vars, catalogVars, writeVars
<1> QED
  BY <1>2, <1>3, <1>4, <1>5, <1>6 DEF StoreNext, GcNext, Next

\* The whole starts as Sequencer does.
LEMMA StoreStart ==
  ASSUME StoreInit
  PROVE  Sequencing!Init
<1>1. /\ now = 0 /\ files = {} /\ nextFileId = 1
      /\ pc = [w \in Writers |-> "idle"]
  BY DEF StoreInit, GcInit, Init, CatalogInit
<1>2. /\ WriterView = [w \in Writers |-> "none"]
      /\ WriterStart = [w \in Writers |-> 0]
      /\ WriterId = [w \in Writers |-> 0]
  BY <1>1 DEF WriterView, WriterStart, WriterId, HasRow, PrePut, PutDone, InTx, HoldsRow
<1>3. CommittedIds = {} /\ WrittenAt = [i \in FeedIds |-> 0]
  BY <1>1 DEF CommittedIds, WrittenAt
<1> QED
  BY <1>1, <1>2, <1>3 DEF StoreInit, Sequencing!Init, Sequencing!FileIds, FeedIds

-----------------------------------------------------------------------------
(* What follows for every behaviour.                                       *)

\* Beside the writers of writePartition and the collectors, whatever they do,
\* the sequencers run in the environment that Sequencer gives them.
THEOREM StoreRunsSequencer == StoreSpec => RunsSequencer
<1>1. StoreInit => Sequencing!Init
  BY StoreStart
<1>2. StoreInv /\ [StoreNext]_storeVars => [Sequencing!Next]_(Sequencing!vars)
  BY StoreStep
<1> QED
  BY <1>1, <1>2, StoreInvariant, PTL DEF StoreSpec, RunsSequencer, Sequencing!Spec

\* Only committed rows are numbered, in the table or in an open pass.
FeedCommitted ==
  /\ plan = [s \in Sequencers |-> plan[s]]
  /\ \A i \in FeedIds : feedSeq[i] # 0 => i \in CommittedIds
  /\ \A s \in Sequencers : \A i \in FeedIds : plan[s][i] # 0 => i \in CommittedIds

\* A pass numbers rows of its snapshot, and no committed row goes away.
LEMMA FeedStaysCommitted ==
  ASSUME FeedCommitted, [Sequencing!Next]_(Sequencing!vars)
  PROVE  FeedCommitted'
<1>1. CASE /\ CommittedIds \subseteq CommittedIds'
           /\ UNCHANGED <<feedSeq, plan>>
  BY <1>1 DEF FeedCommitted
<1>2. CASE \E w \in Writers : Sequencing!WriterStep(w)
  BY <1>1, <1>2 DEF Sequencing!WriterStep, Sequencing!WriterBegin, Sequencing!WriterInsert,
     Sequencing!WriterCommit, Sequencing!WriterRollback, Sequencing!feedVars,
     Sequencing!sequencerVars
<1>3. CASE Sequencing!Tick
  BY <1>1, <1>3 DEF Sequencing!Tick, Sequencing!feedVars, Sequencing!sequencerVars
<1>4. ASSUME NEW s \in Sequencers, Sequencing!SequencerStep(s) PROVE FeedCommitted'
  <2>1. CommittedIds' = CommittedIds
    BY <1>4 DEF Sequencing!SequencerStep, Sequencing!BeginTx, Sequencing!AcquireLock,
       Sequencing!Assign, Sequencing!Commit, Sequencing!CommitEffect, Sequencing!StartRun,
       Sequencing!Wake, Sequencing!CommitUnknown, Sequencing!FailPass, Sequencing!Crash,
       Sequencing!writerVars
  <2>2. CASE Sequencing!Assign(s)
    <3>1. PICK B \in Sequencing!Batches : \E rn \in Sequencing!RowNumbers(B) :
            plan' = [plan EXCEPT ![s] =
              [f \in FeedIds |-> IF f \in B THEN Sequencing!MaxSeq + rn[f] ELSE 0]]
      BY <2>2 DEF Sequencing!Assign, Sequencing!FileIds, FeedIds
    <3>2. B \subseteq CommittedIds
      BY DEF Sequencing!Batches, Sequencing!Unsequenced
    <3>3. feedSeq' = feedSeq
      BY <2>2 DEF Sequencing!Assign, Sequencing!feedVars
    <3> QED BY <2>1, <3>1, <3>2, <3>3 DEF FeedCommitted
  <2>3. CASE Sequencing!CommitEffect(s)
    BY <2>1, <2>3 DEF Sequencing!CommitEffect, Sequencing!Forget, Sequencing!Planned,
       Sequencing!NoPlan, Sequencing!FileIds, FeedIds, FeedCommitted
  <2>4. CASE feedSeq' = feedSeq /\ (plan' = plan \/ Sequencing!Forget(s))
    <3>1. CASE plan' = plan
      BY <2>1, <2>4, <3>1 DEF FeedCommitted
    <3>2. CASE Sequencing!Forget(s)
      BY <2>1, <2>4, <3>2 DEF Sequencing!Forget, Sequencing!NoPlan, Sequencing!FileIds, FeedIds,
         FeedCommitted
    <3> QED BY <2>4, <3>1, <3>2
  <2> QED
    BY <1>4, <2>2, <2>3, <2>4 DEF Sequencing!SequencerStep, Sequencing!BeginTx,
       Sequencing!AcquireLock, Sequencing!Commit, Sequencing!StartRun, Sequencing!Wake,
       Sequencing!CommitUnknown, Sequencing!FailPass, Sequencing!Crash, Sequencing!feedVars
<1>5. CASE UNCHANGED Sequencing!vars
  BY <1>1, <1>5 DEF Sequencing!vars, Sequencing!writerVars, Sequencing!feedVars,
     Sequencing!sequencerVars
<1> QED BY <1>2, <1>3, <1>4, <1>5 DEF Sequencing!Next

\* Whoever reads the feed finds the object behind every place in it, with
\* sequencers numbering rows, collectors sweeping and writers failing anywhere.
THEOREM FeedKeepsObjects == StoreSpec => []FeedHasObjects
<1>1. StoreInit => FeedCommitted
  BY DEF StoreInit, FeedCommitted, Sequencing!NoPlan, Sequencing!FileIds, FeedIds
<1>2. StoreInv /\ FeedCommitted /\ [StoreNext]_storeVars => FeedCommitted'
  BY StoreStep, FeedStaysCommitted
<1>3. StoreInv /\ FeedCommitted => FeedHasObjects
  BY CatalogAssumption DEF StoreInv, GcInv, KeyInv, CommittedHasObject, ReferencedKeys, FeedCommitted,
     CommittedIds, FeedHasObjects, FileIds, FeedIds
<1> QED BY <1>1, <1>2, <1>3, StoreInvariant, PTL DEF StoreSpec

\* To its callers a deployment with all its processes is a versioned log.
THEOREM StoreImplementsLog == StoreSpec => WritesAreAtomic
BY StoreIsGc, GcImplementsLog, PTL

-----------------------------------------------------------------------------
(* The feed of the whole.                                                  *)

\* Sequencer seen as Sequencing sees it, with what SequencerProofs shows of it.
Proved == INSTANCE SequencerProofs WITH
  BatchSize <- SeqBatch,
  MaxFiles  <- MaxKeys + 1,
  nextId    <- nextFileId,
  wpc       <- WriterView,
  wstart    <- WriterStart,
  wid       <- WriterId,
  committed <- CommittedIds,
  writtenAt <- WrittenAt

\* What SequencerProofs assumes of its constants.
LEMMA ProvedAssumption == Proved!SequencerAssumption
BY StoreAssumption DEF Sequencing!SequencerAssumption, Proved!SequencerAssumption

\* Two instances of one module in one state: the same sets and numbers,
LEMMA SameTerms ==
  /\ Sequencing!FileIds = Proved!FileIds /\ Sequencing!NoPlan = Proved!NoPlan
  /\ Sequencing!HasLock = Proved!HasLock /\ Sequencing!InTx = Proved!InTx
  /\ Sequencing!MaxSeq = Proved!MaxSeq /\ Sequencing!Batches = Proved!Batches
  /\ Sequencing!LogNow = Proved!LogNow /\ Sequencing!LogNow' = Proved!LogNow'
<1>1. Sequencing!FileIds = Proved!FileIds /\ Sequencing!NoPlan = Proved!NoPlan
  BY DEF Sequencing!FileIds, Proved!FileIds, Sequencing!NoPlan, Proved!NoPlan
<1>2. Sequencing!HasLock = Proved!HasLock /\ Sequencing!InTx = Proved!InTx
  BY DEF Sequencing!HasLock, Proved!HasLock, Sequencing!InTx, Proved!InTx
<1>3. Sequencing!MaxSeq = Proved!MaxSeq /\ Sequencing!MaxSeq' = Proved!MaxSeq'
  BY DEF Sequencing!MaxSeq, Proved!MaxSeq, Sequencing!FileIds, Proved!FileIds
<1>4. Sequencing!Batches = Proved!Batches
  BY DEF Sequencing!Batches, Proved!Batches, Sequencing!Unsequenced, Proved!Unsequenced,
     Sequencing!Before, Proved!Before, Sequencing!Cardinality, Proved!Cardinality
<1>5. Sequencing!LogNow = Proved!LogNow /\ Sequencing!LogNow' = Proved!LogNow'
  BY <1>1, <1>3 DEF Sequencing!LogNow, Proved!LogNow
<1> QED BY <1>1, <1>2, <1>3, <1>4, <1>5

\* the same steps,
LEMMA SameNext == Sequencing!Next <=> Proved!Next
<1>1. ASSUME NEW w \in Writers
      PROVE  Sequencing!WriterStep(w) <=> Proved!WriterStep(w)
  BY DEF Sequencing!WriterStep, Proved!WriterStep,
     Sequencing!WriterBegin, Proved!WriterBegin, Sequencing!WriterInsert, Proved!WriterInsert,
     Sequencing!WriterCommit, Proved!WriterCommit, Sequencing!WriterEnds, Proved!WriterEnds,
     Sequencing!WriterRollback, Proved!WriterRollback,
     Sequencing!feedVars, Proved!feedVars, Sequencing!sequencerVars, Proved!sequencerVars
<1>2. Sequencing!Tick <=> Proved!Tick
  BY DEF Sequencing!Tick, Proved!Tick,
     Sequencing!feedVars, Proved!feedVars, Sequencing!sequencerVars, Proved!sequencerVars
<1>3. ASSUME NEW s \in Sequencers
      PROVE  /\ Sequencing!BeginTx(s) <=> Proved!BeginTx(s)
             /\ Sequencing!AcquireLock(s) <=> Proved!AcquireLock(s)
             /\ Sequencing!StartRun(s) <=> Proved!StartRun(s)
             /\ Sequencing!Wake(s) <=> Proved!Wake(s)
  BY SameTerms DEF Sequencing!BeginTx, Proved!BeginTx, Sequencing!AcquireLock, Proved!AcquireLock,
     Sequencing!StartRun, Proved!StartRun, Sequencing!Wake, Proved!Wake,
     Sequencing!Move, Proved!Move,
     Sequencing!writerVars, Proved!writerVars, Sequencing!feedVars, Proved!feedVars
<1>4. ASSUME NEW s \in Sequencers
      PROVE  Sequencing!Assign(s) <=> Proved!Assign(s)
  BY DEF Sequencing!Assign, Proved!Assign, Sequencing!RowNumbers, Proved!RowNumbers,
     Sequencing!Batches, Proved!Batches, Sequencing!Unsequenced, Proved!Unsequenced,
     Sequencing!MaxSeq, Proved!MaxSeq, Sequencing!FileIds, Proved!FileIds,
     Sequencing!Before, Proved!Before, Sequencing!Move, Proved!Move,
     Sequencing!Cardinality, Proved!Cardinality,
     Sequencing!writerVars, Proved!writerVars, Sequencing!feedVars, Proved!feedVars
<1>5. ASSUME NEW s \in Sequencers
      PROVE  /\ Sequencing!Forget(s) <=> Proved!Forget(s)
             /\ Sequencing!CommitEffect(s) <=> Proved!CommitEffect(s)
  BY SameTerms DEF Sequencing!CommitEffect, Proved!CommitEffect, Sequencing!Forget, Proved!Forget,
     Sequencing!Planned, Proved!Planned, Sequencing!writerVars, Proved!writerVars
<1>6. ASSUME NEW s \in Sequencers
      PROVE  /\ Sequencing!Commit(s) <=> Proved!Commit(s)
             /\ Sequencing!CommitUnknown(s) <=> Proved!CommitUnknown(s)
             /\ Sequencing!FailPass(s) <=> Proved!FailPass(s)
             /\ Sequencing!Crash(s) <=> Proved!Crash(s)
  BY <1>5, SameTerms DEF Sequencing!Commit, Proved!Commit, Sequencing!Planned, Proved!Planned,
     Sequencing!CommitUnknown, Proved!CommitUnknown, Sequencing!FailPass, Proved!FailPass,
     Sequencing!Crash, Proved!Crash, Sequencing!AfterError, Proved!AfterError,
     Sequencing!Move, Proved!Move, Sequencing!Cardinality, Proved!Cardinality,
     Sequencing!writerVars, Proved!writerVars, Sequencing!feedVars, Proved!feedVars
<1>7. ASSUME NEW s \in Sequencers
      PROVE  Sequencing!SequencerStep(s) <=> Proved!SequencerStep(s)
  BY <1>3, <1>4, <1>6 DEF Sequencing!SequencerStep, Proved!SequencerStep
<1> QED BY <1>1, <1>2, <1>7 DEF Sequencing!Next, Proved!Next

\* and so the same behaviours,
LEMMA SameSpec == Sequencing!Spec <=> Proved!Spec
<1>1. Sequencing!Init <=> Proved!Init
  BY DEF Sequencing!Init, Proved!Init, Sequencing!FileIds, Proved!FileIds,
     Sequencing!NoPlan, Proved!NoPlan
<1>2. [Sequencing!Next]_(Sequencing!vars) <=> [Proved!Next]_(Proved!vars)
  BY SameNext DEF Sequencing!writerVars, Proved!writerVars, Sequencing!feedVars, Proved!feedVars,
   Sequencing!sequencerVars, Proved!sequencerVars, Sequencing!vars, Proved!vars
<1> QED BY <1>1, <1>2, PTL DEF Sequencing!Spec, Proved!Spec

\* as well as the same log to implement.
LEMMA SameFeed == Proved!FeedIsALog <=> Sequencing!FeedIsALog
<1>1. Sequencing!AbstractFeed!Init <=> Proved!AbstractFeed!Init
  BY SameTerms DEF Sequencing!AbstractFeed!Init, Proved!AbstractFeed!Init
<1>2. ASSUME NEW f
      PROVE  Sequencing!AbstractFeed!Publish(f) <=> Proved!AbstractFeed!Publish(f)
  BY SameTerms DEF Sequencing!AbstractFeed!Publish, Proved!AbstractFeed!Publish
<1>3. Sequencing!AbstractFeed!Extend <=> Proved!AbstractFeed!Extend
  BY SameTerms DEF Sequencing!AbstractFeed!Extend, Proved!AbstractFeed!Extend,
     Sequencing!AbstractFeed!Logged, Proved!AbstractFeed!Logged,
     Sequencing!AbstractFeed!Cardinality, Proved!AbstractFeed!Cardinality
<1>4. Sequencing!AbstractFeed!Next <=> Proved!AbstractFeed!Next
  BY <1>2, <1>3, SameTerms DEF Sequencing!AbstractFeed!Next, Proved!AbstractFeed!Next
<1>5. [Sequencing!AbstractFeed!Next]_(Sequencing!AbstractFeed!vars)
        <=> [Proved!AbstractFeed!Next]_(Proved!AbstractFeed!vars)
  BY <1>4, SameTerms DEF Sequencing!AbstractFeed!vars, Proved!AbstractFeed!vars
<1> QED
  BY <1>1, <1>5, PTL DEF Sequencing!FeedIsALog, Proved!FeedIsALog,
     Sequencing!AbstractFeed!Spec, Proved!AbstractFeed!Spec

\* Beside the writers of writePartition and the collectors, the sequencers
\* extend one append-only log of committed rows.
THEOREM StoreImplementsFeed == StoreSpec => Sequencing!FeedIsALog
<1>1. Proved!Spec => Proved!FeedIsALog
  BY ProvedAssumption, Proved!SequencerImplementsFeed
<1>2. Sequencing!Spec => Sequencing!FeedIsALog
  BY <1>1, SameSpec, SameFeed, PTL
<1> QED BY <1>2, StoreRunsSequencer, PTL DEF RunsSequencer

\* So a reader that walks the feed meets every offset, and no row that commits
\* late is numbered behind it.
THEOREM StoreReadersMissNothing ==
  StoreSpec => []Sequencing!GapFree /\ Sequencing!NothingBehindReaders
<1>1. Proved!Spec => []Proved!GapFree
  BY ProvedAssumption, Proved!FeedIsGapFree
<1>2. Proved!Spec => Proved!NothingBehindReaders
  BY ProvedAssumption, Proved!ReadersMissNothing
<1>3. Sequencing!GapFree <=> Proved!GapFree
  BY DEF Sequencing!GapFree, Proved!GapFree, Sequencing!FileIds, Proved!FileIds
<1>4. Sequencing!NothingBehindReaders <=> Proved!NothingBehindReaders
  BY DEF Sequencing!NothingBehindReaders, Proved!NothingBehindReaders,
     Sequencing!FileIds, Proved!FileIds
<1> QED BY <1>1, <1>2, <1>3, <1>4, SameSpec, StoreRunsSequencer, PTL DEF RunsSequencer

=============================================================================
