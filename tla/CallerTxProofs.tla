--------------------------- MODULE CallerTxProofs ---------------------------
(***************************************************************************)
(* What holds of Writes in transactions of their own and in callers'       *)
(* transactions side by side, for any number of callers and partitions,    *)
(* any batches, and any size of the connection pool.                       *)
(*                                                                         *)
(* An open transaction that has upserted a partition's row is the only one *)
(* with its lock, so the version the upsert returned is still one above    *)
(* the committed one when it ends (LockedRows).  A caller commits after a  *)
(* Write without an error only: then none of its statements has aborted    *)
(* the transaction (AbortSeen), so all its tasks still have their rows     *)
(* (TasksHoldRows), and all of them become visible at once with the tuples *)
(* of the view that they inserted (ViewInv).                               *)
(*                                                                         *)
(* A transaction that is not aborted holds every partition lock that it    *)
(* asked for (HoldsAsked), a lock has one holder, whatever keys collide    *)
(* (OneHolder), so what a holder has read is the last version that a       *)
(* transaction which asks for the lock has committed (ReadCurrent).        *)
(***************************************************************************)
EXTENDS CallerTx, FiniteSetTheorems, TLAPS

-----------------------------------------------------------------------------
(* The inductive invariant.                                                *)

Calling == {"idle", "open", "lock"}
Early   == {"none", "queued", "track", "begin", "upsert"}
Unsent  == Early \cup {"put", "cleanup"}

\* A task exists from the call of Write on, and Write waits for it.
TasksOfWrites ==
  \A t \in Tasks :
    /\ cpc[t[1]] \in Calling => phase[t] = "none"
    /\ phase[t] \notin Ended => cpc[t[1]] = "writing"
    /\ cpc[t[1]] = "idle" => ~WithTx(t[1])

\* An open transaction that upserted a row has the next version of its partition;
\* no committed task has a lock.
LockedRows ==
  \A t \in rowLocks :
    /\ t \notin files /\ phase[t] \notin Early
    /\ version[t] = partitions[t[2]] + 1
    /\ WithTx(t[1]) => Open(t[1])
    /\ ~WithTx(t[1]) => phase[t] \in {"put", "mv"}

\* A partition is locked by one transaction.
Exclusive == \A t, u \in rowLocks : t[2] = u[2] => t = u

\* A task between its upsert and its end has its row, and one that is done in a
\* caller's transaction still does until that ends.
TasksHoldRows ==
  \A t \in Tasks :
    /\ (phase[t] \in {"put", "mv"} /\ Healthy(t)) => t \in rowLocks
    /\ (phase[t] = "done" /\ Open(t[1]) /\ ~aborted[t[1]]) => t \in rowLocks

\* A transaction is aborted by an error that Write returns.
AbortSeen ==
  \A c \in Callers :
    aborted[c] => failed[c] \/ \E t \in TasksOf(c) : phase[t] = "cleanup"

\* Committed rows are of tasks, and callers' transactions, that have ended.
CommittedEnded ==
  \A t \in files :
    /\ phase[t] \in {"done", "failed"}
    /\ WithTx(t[1]) => cpc[t[1]] = "ended"

\* VersionsDense, and that files of a partition are finitely many.
Counted ==
  \A p \in Partitions :
    /\ IsFiniteSet(FilesOf(p))
    /\ Cardinality(FilesOf(p)) = partitions[p]
    /\ {version[t] : t \in FilesOf(p)} = 1 .. partitions[p]

RowInv ==
  /\ TasksOfWrites /\ LockedRows /\ Exclusive /\ TasksHoldRows
  /\ AbortSeen /\ CommittedEnded /\ Counted

\* What a task's phase says of its object and of its pending row.
ObjectInv ==
  \A t \in Tasks :
    /\ phase[t] \in Unsent => t \notin objects
    /\ phase[t] \in {"begin", "upsert", "put", "mv"} => t \in pending
    /\ phase[t] \in {"mv", "done"} => t \in objects
    /\ t \in objects => t \in files \/ t \in pending
    /\ t \in files => t \in objects /\ t \notin pending

\* The view has the tuples of the committed files, uncommitted tuples are of the
\* tasks that inserted them, and a task is not done before all its own are in.
ViewInv ==
  /\ \A x \in tuples : x[2] \in TuplesOf(x[1])
  /\ mv = UNION {TuplesOf(t) : t \in files}
  /\ \A t \in Tasks :
       (phase[t] = "done" /\ Open(t[1]) /\ ~aborted[t[1]]) => TuplesLeft(t) = {}

\* What a task's phase says of its slot, and its end of its Write.
SlotInv ==
  /\ \A t \in Tasks :
       /\ out[t] = IF phase[t] = "done" THEN version[t] ELSE 0
       /\ phase[t] \in {"put", "mv", "done"} => version[t] >= 1
       /\ phase[t] = "failed" => failed[t[1]]
       /\ (phase[t] = "done" /\ ~WithTx(t[1])) => t \in files
  /\ \A t \in files : WithTx(t[1]) =>
       \A u \in TasksOf(t[1]) : phase[u] # "none" => u \in files

\* A transaction that is not aborted holds the locks it asked for.
HoldsAsked ==
  \A c \in Callers :
    /\ cpc[c] = "idle" => ~WithTx(c)
    /\ cpc[c] \in {"open", "lock"} => WithTx(c)
    /\ asked[c] # {} => WithTx(c)
    /\ (Open(c) /\ ~aborted[c] /\ cpc[c] # "lock") => held[c] = asked[c]

\* A hash is locked by one transaction.
OneHolder ==
  \A c, d \in Callers : c # d =>
    \A p \in held[c], q \in held[d] : LockKey[p] # LockKey[q]

\* What a holder of the lock has read is still the last write of those who ask
\* for the lock.
ReadCurrent ==
  /\ \A t \in Tasks : read[t] # -1 => t[2] \in asked[t[1]]
  /\ \A t \in Tasks, u \in files :
       (u # t /\ t[2] = u[2] /\ t[2] \in held[t[1]] /\ u[2] \in asked[u[1]])
         => version[u] <= read[t]

LockInv == HoldsAsked /\ OneHolder /\ ReadCurrent /\ NoLostUpdate

IInv == TypeOK /\ RowInv /\ ObjectInv /\ ViewInv /\ SlotInv /\ LockInv

\* Tasks of one partition and one transaction are the same.
LEMMA TaskEq ==
  ASSUME NEW t \in Tasks, NEW u \in Tasks, t[2] = u[2], TxOf(t) = TxOf(u)
  PROVE  t = u
<1>1. t = <<t[1], t[2]>> /\ u = <<u[1], u[2]>> /\ Len(t) = 2 /\ Len(u) = 2
  BY DEF Tasks
<1>2. \A c : Len(<<c>>) = 1
  OBVIOUS
<1>3. t[1] = u[1]
  BY <1>1, <1>2 DEF TxOf
<1> QED BY <1>1, <1>3

\* A task is a caller and a partition.
LEMMA TaskParts ==
  ASSUME NEW t \in Tasks
  PROVE  t[1] \in Callers /\ t[2] \in Partitions /\ t \in TasksOf(t[1])
BY DEF Tasks, TasksOf

\* The invariant holds initially.
LEMMA InitInv == Init => IInv
<1> SUFFICES ASSUME Init PROVE IInv
  OBVIOUS
<1>1. TypeOK
  BY DEF Init, TypeOK, Versions, Phases, Ended
<1>2. ObjectInv
  BY DEF Init, ObjectInv
<1>3. TasksOfWrites /\ LockedRows /\ Exclusive /\ TasksHoldRows /\ AbortSeen /\ CommittedEnded
  BY TaskParts DEF Init, TasksOfWrites, LockedRows, Exclusive, TasksHoldRows, AbortSeen,
     CommittedEnded, Ended, WithTx, Open
<1>4. Counted
  BY FS_EmptySet DEF Init, Counted, FilesOf
<1>5. ViewInv
  BY DEF Init, ViewInv
<1>6. SlotInv
  BY DEF Init, SlotInv
<1>7. LockInv
  BY TaskParts DEF Init, LockInv, HoldsAsked, OneHolder, ReadCurrent, NoLostUpdate, WithTx,
     Open
<1> QED BY <1>1, <1>2, <1>3, <1>4, <1>5, <1>6, <1>7 DEF IInv, RowInv

-----------------------------------------------------------------------------
(* Types.                                                                  *)

\* What becomes visible has the types of the catalog.
LEMMA VisibleType ==
  ASSUME TypeOK, NEW ts, ts \subseteq Tasks, Visible(ts)
  PROVE  files' \subseteq Tasks /\ partitions' \in [Partitions -> Versions]
         /\ mv' \subseteq Tuples /\ pending' \subseteq Tasks
<1>1. files' \subseteq Tasks /\ pending' \subseteq Tasks
  BY DEF TypeOK, Visible
<1>2. mv' \subseteq Tuples
  BY DEF TypeOK, Visible
<1>3. ASSUME NEW p \in Partitions PROVE partitions'[p] \in Versions
  <2> DEFINE mine == {t \in ts : t[2] = p}
  <2>1. CASE mine = {}
    BY <2>1 DEF TypeOK, Visible
  <2>2. CASE mine # {}
    <3>1. (CHOOSE t \in mine : TRUE) \in Tasks
      BY <2>2
    <3>2. partitions'[p] = version[CHOOSE t \in mine : TRUE]
      BY <2>2 DEF Visible
    <3> QED BY <3>1, <3>2 DEF TypeOK
  <2> QED BY <2>1, <2>2
<1> QED BY <1>1, <1>2, <1>3 DEF Visible

\* A caller's steps keep the types.
LEMMA CallerType ==
  ASSUME TypeOK, NEW c \in Callers, CallerStep(c)
  PROVE  TypeOK'
<1> USE DEF TypeOK, InCall, callerVars, txVars, catalog
<1>1. CASE WriteInPool(c) \/ WriteInTx(c)
  BY <1>1 DEF WriteInPool, WriteInTx, FanOut, Call, Phases, Ended
<1>2. CASE BeginCallerTx(c)
  BY <1>2 DEF BeginCallerTx, Call
<1>3. CASE AskLock(c)
  BY <1>3 DEF AskLock, Call
<1>4. CASE LockGranted(c)
  BY <1>4, TaskParts DEF LockGranted, Call
<1>5. CASE LockFails(c)
  BY <1>5 DEF LockFails, AbortCallerTx, ReleaseCaller, Call
<1>6. CASE WriteReturns(c)
  BY <1>6 DEF WriteReturns, Call
<1>7. CASE CommitCallerTx(c)
  <2>1. {t \in TasksOf(c) : phase[t] = "done"} \subseteq Tasks
    BY DEF TasksOf
  <2>2. files' \subseteq Tasks /\ partitions' \in [Partitions -> Versions]
        /\ mv' \subseteq Tuples /\ pending' \subseteq Tasks
    BY <1>7, <2>1, VisibleType DEF CommitCallerTx
  <2> QED BY <1>7, <2>2 DEF CommitCallerTx, ReleaseCaller, Call
<1>8. CASE RollbackCallerTx(c)
  BY <1>8 DEF RollbackCallerTx, ReleaseCaller, Call
<1> QED
  BY <1>1, <1>2, <1>3, <1>4, <1>5, <1>6, <1>7, <1>8 DEF CallerStep

\* So do a task's, and its errors.
LEMMA TaskType ==
  ASSUME TypeOK, NEW t \in Tasks, Progress(t) \/ Error(t)
  PROVE  TypeOK'
<1>0. t[1] \in Callers /\ t[2] \in Partitions
  BY TaskParts
<1> USE <1>0 DEF TypeOK, InCall, Phases, Ended, InPoolTx, callerVars, txVars, catalog,
      Step, Fails
<1>1. CASE StartTask(t) \/ TrackPending(t) \/ BeginTx(t) \/ Put(t) \/ CleanUp(t)
  <2>1. /\ phase' \in [Tasks -> Phases] /\ failed' \in [Callers -> BOOLEAN]
        /\ pending' \subseteq Tasks /\ objects' \subseteq Tasks
    BY <1>1 DEF StartTask, TrackPending, BeginTx, Put, CleanUp
  <2>2. UNCHANGED <<mode, cpc, asked, held, read, aborted, out, txVars, catalog>>
    BY <1>1 DEF StartTask, TrackPending, BeginTx, Put, CleanUp
  <2> QED BY <2>1, <2>2
<1>2. CASE UpsertPartition(t)
  BY <1>2 DEF UpsertPartition, Versions
<1>3. CASE InsertMvRow(t)
  <2>1. PICK i \in 1 .. Len(MvOf[t[2]]) : tuples' = tuples \cup {<<t, MvOf[t[2]][i]>>}
    BY <1>3 DEF InsertMvRow
  <2>2. MvOf[t[2]][i] \in Tuples
    BY DEF Tuples, TuplesOf
  <2> QED BY <1>3, <2>1, <2>2 DEF InsertMvRow
<1>4. CASE TaskDone(t)
  BY <1>4 DEF TaskDone, FillSlot
<1>5. CASE Commit(t) \/ CommitUnknown(t)
  <2>1. files' \subseteq Tasks /\ partitions' \in [Partitions -> Versions]
        /\ mv' \subseteq Tuples /\ pending' \subseteq Tasks
    BY <1>5, VisibleType DEF Commit, CommitUnknown
  <2>2. /\ rowLocks' \subseteq rowLocks /\ tuples' \subseteq tuples
        /\ UNCHANGED <<mode, cpc, asked, held, read, aborted, version, objects>>
    BY <1>5 DEF Commit, CommitUnknown, Release
  <2>3. phase' \in [Tasks -> Phases] /\ failed' \in [Callers -> BOOLEAN]
    BY <1>5 DEF Commit, CommitUnknown
  <2>4. out' \in [Tasks -> Versions]
    BY <1>5 DEF Commit, CommitUnknown, FillSlot
  <2> QED BY <2>1, <2>2, <2>3, <2>4
<1>6. CASE TrackFails(t)
  BY <1>6 DEF TrackFails
<1>7. CASE FailsBeforePut(t) \/ FailsAfterPut(t)
  <2>1. aborted' \in [Callers -> BOOLEAN] /\ held' \in [Callers -> SUBSET Partitions]
        /\ \A c \in Callers : held'[c] \subseteq held[c]
    <3>1. \/ UNCHANGED <<aborted, held>>
          \/ /\ aborted' = [aborted EXCEPT ![t[1]] = TRUE]
             /\ held' = [held EXCEPT ![t[1]] = {}]
      BY <1>7 DEF FailsBeforePut, FailsAfterPut, StatementFails, OtherwiseFails,
         AbortCallerTx, ReleaseCaller
    <3> QED BY <3>1
  <2>2. rowLocks' \subseteq Tasks /\ tuples' \subseteq Tasks \X Tuples
    BY <1>7 DEF FailsBeforePut, FailsAfterPut, StatementFails, OtherwiseFails,
       AbortCallerTx,
       ReleaseCaller, Release
  <2>3. phase' \in [Tasks -> Phases] /\ failed' \in [Callers -> BOOLEAN]
        /\ objects' \subseteq Tasks
    BY <1>7 DEF FailsBeforePut, FailsAfterPut
  <2>4. UNCHANGED <<mode, cpc, asked, read, out, version, catalog, pending>>
    BY <1>7 DEF FailsBeforePut, FailsAfterPut
  <2> QED BY <2>1, <2>2, <2>3, <2>4
<1> QED
  BY <1>1, <1>2, <1>3, <1>4, <1>5, <1>6, <1>7 DEF Progress, Error

-----------------------------------------------------------------------------
(* Steps of a task within its transaction.                                 *)

\* A task moves on: no lock is taken or released.
LEMMA MoveKeepsRows ==
  ASSUME TypeOK, RowInv, NEW t \in Tasks, NEW a, NEW b, Step(t, a, b),
         UNCHANGED <<mode, cpc, aborted, files, partitions, version, rowLocks>>,
         \A c \in Callers : failed[c] => failed'[c],
         \/ a \in Early \ {"none"} /\ b \in Early \cup {"failed"}
         \/ a = "put" /\ b = "mv"
         \/ a = "mv" /\ b = "done" /\ WithTx(t[1]) /\ Healthy(t)
         \/ a = "cleanup" /\ b = "failed" /\ failed'[t[1]]
  PROVE  RowInv'
<1>0. t[1] \in Callers /\ t[2] \in Partitions /\ t \in TasksOf(t[1])
  BY TaskParts
<1>1. phase[t] = a /\ phase' = [phase EXCEPT ![t] = b] /\ phase \in [Tasks -> Phases]
  BY DEF Step, TypeOK
<1>2. a \notin Ended /\ cpc[t[1]] = "writing" /\ t \notin files
  BY <1>1 DEF RowInv, TasksOfWrites, CommittedEnded, Ended, Early
<1>3. TasksOfWrites'
  BY <1>1, <1>2 DEF RowInv, TasksOfWrites, Ended, WithTx, Calling
<1>4. LockedRows' /\ Exclusive'
  BY <1>1 DEF RowInv, LockedRows, Exclusive, Early, WithTx, Open, InCall
<1>5. TasksHoldRows'
  BY <1>1 DEF RowInv, TasksHoldRows, Healthy, WithTx, Open, Early
<1>6. AbortSeen'
  BY <1>0, <1>1 DEF RowInv, AbortSeen, TasksOf, Early
<1>7. CommittedEnded'
  BY <1>1, <1>2 DEF RowInv, CommittedEnded, WithTx
<1>8. Counted'
  BY DEF RowInv, Counted, FilesOf
<1> QED BY <1>3, <1>4, <1>5, <1>6, <1>7, <1>8 DEF RowInv

\* A task fails: its own transaction ends, or its caller's is aborted, or the
\* caller's transaction keeps the task's rows.
LEMMA FailureKeepsRows ==
  ASSUME TypeOK, RowInv, NEW t \in Tasks,
         FailsBeforePut(t) \/ FailsAfterPut(t)
  PROVE  RowInv'
<1>0. t[1] \in Callers /\ t[2] \in Partitions /\ t \in TasksOf(t[1])
  BY TaskParts
<1>1. PICK b \in {"cleanup", "failed"} :
        phase' = [phase EXCEPT ![t] = b] /\ (b = "failed" => failed'[t[1]])
  BY <1>0 DEF FailsBeforePut, FailsAfterPut, Fails, Step, TypeOK
<1>2. phase \in [Tasks -> Phases] /\ phase[t] \in {"begin", "upsert", "put", "mv"}
  BY DEF FailsBeforePut, FailsAfterPut, TypeOK
<1>3. UNCHANGED <<mode, cpc, version, files, partitions>>
  BY DEF FailsBeforePut, FailsAfterPut, catalog
<1>4. \A c \in Callers : failed[c] => failed'[c]
  BY DEF FailsBeforePut, FailsAfterPut, Fails, TypeOK
<1>5. \/ ~WithTx(t[1]) /\ aborted' = aborted /\ rowLocks' = rowLocks \ {t}
      \/ WithTx(t[1]) /\ aborted' = [aborted EXCEPT ![t[1]] = TRUE]
         /\ rowLocks' = rowLocks \ TasksOf(t[1])
      \/ WithTx(t[1]) /\ aborted' = aborted /\ rowLocks' = rowLocks
  BY DEF FailsBeforePut, FailsAfterPut, StatementFails, OtherwiseFails, AbortCallerTx,
     ReleaseCaller, Release
<1>6. cpc[t[1]] = "writing" /\ t \notin files
  BY <1>2 DEF RowInv, TasksOfWrites, CommittedEnded, Ended
<1>7. TasksOfWrites'
  BY <1>1, <1>3, <1>6 DEF RowInv, TasksOfWrites, Ended, WithTx, Calling
<1>8. LockedRows' /\ Exclusive'
  BY <1>1, <1>2, <1>3, <1>5 DEF RowInv, LockedRows, Exclusive, Early, WithTx, Open, InCall
<1>9. TasksHoldRows'
  <2> SUFFICES ASSUME NEW u \in Tasks
               PROVE  /\ (phase'[u] \in {"put", "mv"} /\ Healthy(u)') => u \in rowLocks'
                      /\ (phase'[u] = "done" /\ Open(u[1])' /\ ~aborted'[u[1]])
                           => u \in rowLocks'
    BY DEF TasksHoldRows
  <2>0. u[1] \in Callers /\ aborted \in [Callers -> BOOLEAN]
    BY TaskParts DEF TypeOK
  <2>1. CASE u = t
    BY <2>1, <1>1, <1>2
  <2>2. CASE u # t
    <3>1. phase'[u] = phase[u] /\ Open(u[1])' = Open(u[1])
      BY <2>2, <1>1, <1>2, <1>3 DEF Open, WithTx
    <3>2. CASE aborted' = aborted /\ rowLocks \ {t} \subseteq rowLocks'
      BY <1>3, <1>5, <2>2, <3>1, <3>2 DEF RowInv, TasksHoldRows, Healthy, WithTx
    <3>3. CASE /\ WithTx(t[1]) /\ aborted' = [aborted EXCEPT ![t[1]] = TRUE]
               /\ rowLocks' = rowLocks \ TasksOf(t[1])
      BY <1>0, <1>3, <2>0, <3>1, <3>3
      DEF RowInv, TasksHoldRows, Healthy, WithTx, TasksOf, Open
    <3> QED BY <1>5, <3>2, <3>3
  <2> QED BY <2>1, <2>2
<1>10. AbortSeen'
  BY <1>0, <1>1, <1>2, <1>4, <1>5 DEF RowInv, AbortSeen, TasksOf, TypeOK
<1>11. CommittedEnded'
  BY <1>1, <1>2, <1>3, <1>6 DEF RowInv, CommittedEnded, WithTx
<1>12. Counted'
  BY <1>3 DEF RowInv, Counted, FilesOf
<1> QED BY <1>7, <1>8, <1>9, <1>10, <1>11, <1>12 DEF RowInv

\* The upsert takes the lock of a row that nobody else has.
LEMMA UpsertKeepsRows ==
  ASSUME TypeOK, RowInv, NEW t \in Tasks, UpsertPartition(t)
  PROVE  RowInv'
<1>0. t[1] \in Callers /\ t[2] \in Partitions /\ t \in TasksOf(t[1])
  BY TaskParts
<1>1. /\ phase[t] = "upsert" /\ phase' = [phase EXCEPT ![t] = "put"]
      /\ version' = [version EXCEPT ![t] = partitions[t[2]] + 1]
      /\ rowLocks' = rowLocks \cup {t}
      /\ UNCHANGED <<mode, cpc, aborted, failed, files, partitions>>
      /\ Healthy(t) /\ RowFree(t)
  BY DEF UpsertPartition, Step, callerVars, catalog
<1>2. /\ phase \in [Tasks -> Phases] /\ version \in [Tasks -> Versions]
      /\ files \subseteq Tasks /\ rowLocks \subseteq Tasks
  BY DEF TypeOK
<1>3. cpc[t[1]] = "writing" /\ t \notin files /\ t \notin rowLocks
  BY <1>1 DEF RowInv, TasksOfWrites, CommittedEnded, LockedRows, Ended, Early
<1>4. TasksOfWrites'
  BY <1>1, <1>2, <1>3 DEF RowInv, TasksOfWrites, Ended, WithTx, Calling
<1>5. LockedRows'
  BY <1>1, <1>2, <1>3 DEF RowInv, LockedRows, Early, WithTx, Open, InCall
<1>6. Exclusive'
  BY <1>1, <1>2, TaskEq DEF RowInv, Exclusive, RowFree
<1>7. TasksHoldRows'
  BY <1>1, <1>2 DEF RowInv, TasksHoldRows, Healthy, WithTx, Open
<1>8. AbortSeen'
  BY <1>1, <1>2 DEF RowInv, AbortSeen, TasksOf
<1>9. CommittedEnded'
  BY <1>1, <1>2, <1>3 DEF RowInv, CommittedEnded, WithTx
<1>10. Counted'
  <2>1. ASSUME NEW p \in Partitions
        PROVE  {version'[u] : u \in FilesOf(p)} = {version[u] : u \in FilesOf(p)}
    <3>1. \A u \in FilesOf(p) : version'[u] = version[u]
      BY <1>1, <1>2, <1>3 DEF FilesOf
    <3> QED BY <3>1
  <2> QED BY <1>1, <2>1 DEF RowInv, Counted, FilesOf
<1> QED BY <1>4, <1>5, <1>6, <1>7, <1>8, <1>9, <1>10 DEF RowInv

-----------------------------------------------------------------------------
(* Commits.                                                                *)

\* Rows that become visible under their locks are counted, and the partitions
\* that are still locked are as they were.
LEMMA VisibleCounts ==
  ASSUME TypeOK, LockedRows, Exclusive, Counted, NEW ts, ts \subseteq rowLocks,
         Visible(ts), version' = version
  PROVE  Counted' /\ \A u \in rowLocks \ ts : partitions'[u[2]] = partitions[u[2]]
<1>0. /\ rowLocks \subseteq Tasks /\ files \subseteq Tasks
      /\ partitions \in [Partitions -> Nat] /\ version \in [Tasks -> Nat]
      /\ \A u \in rowLocks : u[2] \in Partitions
  BY TaskParts DEF TypeOK, Versions
<1>1. \A u \in rowLocks \ ts : partitions'[u[2]] = partitions[u[2]]
  <2> SUFFICES ASSUME NEW u \in rowLocks \ ts
               PROVE  partitions'[u[2]] = partitions[u[2]]
    OBVIOUS
  <2>1. {t \in ts : t[2] = u[2]} = {}
    BY DEF Exclusive
  <2> QED BY <1>0, <2>1 DEF Visible
<1>2. ASSUME NEW p \in Partitions
      PROVE  /\ IsFiniteSet(FilesOf(p)')
             /\ Cardinality(FilesOf(p)') = partitions'[p]
             /\ {version'[t] : t \in FilesOf(p)'} = 1 .. partitions'[p]
  <2> DEFINE mine == {t \in ts : t[2] = p}
  <2>1. CASE mine = {}
    <3>1. FilesOf(p)' = FilesOf(p) /\ partitions'[p] = partitions[p]
      BY <2>1 DEF Visible, FilesOf
    <3> QED BY <3>1 DEF Counted
  <2>2. CASE mine # {}
    <3>1. PICK u \in ts : u[2] = p
      BY <2>2
    <3>2. mine = {u}
      BY <3>1 DEF Exclusive
    <3>3. version[u] = partitions[p] + 1 /\ u \notin files
      BY <3>1 DEF LockedRows
    <3>4. FilesOf(p)' = FilesOf(p) \cup {u} /\ u \notin FilesOf(p)
      BY <3>2, <3>3 DEF Visible, FilesOf
    <3>5. partitions'[p] = partitions[p] + 1
      <4>1. partitions'[p] = version[CHOOSE t \in mine : TRUE]
        BY <2>2 DEF Visible
      <4>2. (CHOOSE t \in mine : TRUE) = u
        BY <3>2
      <4> QED BY <4>1, <4>2, <3>3
    <3>6. IsFiniteSet(FilesOf(p)') /\ Cardinality(FilesOf(p)') = partitions[p] + 1
      BY <1>0, <3>4, FS_AddElement DEF Counted
    <3>7. {version'[t] : t \in FilesOf(p)'} = (1 .. partitions[p]) \cup {version[u]}
      BY <3>4 DEF Counted
    <3>8. (1 .. partitions[p]) \cup {partitions[p] + 1} = 1 .. (partitions[p] + 1)
      BY <1>0
    <3> QED BY <3>3, <3>5, <3>6, <3>7, <3>8
  <2> QED BY <2>1, <2>2
<1> QED BY <1>1, <1>2 DEF Counted

\* COMMIT of a task's own transaction, whether its answer comes or not.
LEMMA CommitKeepsRows ==
  ASSUME TypeOK, RowInv, NEW t \in Tasks, Commit(t) \/ CommitUnknown(t)
  PROVE  RowInv'
<1>0. t[1] \in Callers /\ t[2] \in Partitions /\ t \in TasksOf(t[1])
  BY TaskParts
<1>1. PICK b \in {"done", "failed"} : phase' = [phase EXCEPT ![t] = b]
  BY DEF Commit, CommitUnknown, Fails, Step
<1>2. /\ phase[t] = "mv" /\ ~WithTx(t[1]) /\ Visible({t})
      /\ rowLocks' = rowLocks \ {t}
      /\ UNCHANGED <<mode, cpc, aborted, version>>
  BY DEF Commit, CommitUnknown, Fails, Step, Release
<1>3. \A c \in Callers : failed[c] => failed'[c]
  BY DEF Commit, CommitUnknown, Fails, TypeOK
<1>4. phase \in [Tasks -> Phases] /\ rowLocks \subseteq Tasks /\ files' = files \cup {t}
  BY <1>2 DEF TypeOK, Visible
<1>5. t \in rowLocks /\ cpc[t[1]] = "writing"
  BY <1>2 DEF RowInv, TasksHoldRows, Healthy, TasksOfWrites, Ended
<1>6. Counted' /\ \A u \in rowLocks \ {t} : partitions'[u[2]] = partitions[u[2]]
  BY <1>2, <1>5, VisibleCounts DEF RowInv
<1>7. TasksOfWrites'
  BY <1>1, <1>2, <1>4, <1>5 DEF RowInv, TasksOfWrites, Ended, WithTx, Calling
<1>8. LockedRows' /\ Exclusive'
  BY <1>1, <1>2, <1>4, <1>6 DEF RowInv, LockedRows, Exclusive, WithTx, Open, InCall
<1>9. TasksHoldRows'
  BY <1>1, <1>2, <1>4 DEF RowInv, TasksHoldRows, Healthy, WithTx, Open
<1>10. AbortSeen'
  BY <1>0, <1>1, <1>2, <1>3, <1>4 DEF RowInv, AbortSeen, TasksOf
<1>11. CommittedEnded'
  BY <1>1, <1>2, <1>4 DEF RowInv, CommittedEnded, WithTx
<1> QED BY <1>6, <1>7, <1>8, <1>9, <1>10, <1>11 DEF RowInv

\* A task that leaves the catalog alone or commits keeps the rows' invariant.
LEMMA TaskRows ==
  ASSUME TypeOK, RowInv, NEW t \in Tasks, Progress(t) \/ Error(t)
  PROVE  RowInv'
<1> USE DEF callerVars, txVars, catalog
<1>1. CASE StartTask(t)
  BY <1>1, MoveKeepsRows DEF StartTask, Early
<1>2. CASE TrackPending(t) \/ BeginTx(t)
  BY <1>2, MoveKeepsRows DEF TrackPending, BeginTx, Early
<1>3. CASE Put(t)
  BY <1>3, MoveKeepsRows DEF Put
<1>4. CASE TaskDone(t)
  BY <1>4, MoveKeepsRows DEF TaskDone
<1>5. CASE TrackFails(t) \/ CleanUp(t)
  <2>1. t[1] \in Callers
    BY TaskParts
  <2>2. failed'[t[1]] /\ \A c \in Callers : failed[c] => failed'[c]
    BY <1>5, <2>1 DEF TrackFails, CleanUp, Fails, TypeOK
  <2>3. CASE TrackFails(t)
    BY <2>2, <2>3, MoveKeepsRows DEF TrackFails, Fails, Early
  <2>4. CASE CleanUp(t)
    BY <2>2, <2>4, MoveKeepsRows DEF CleanUp, Fails
  <2> QED BY <1>5, <2>3, <2>4
<1>6. CASE InsertMvRow(t)
  <2>1. UNCHANGED <<mode, cpc, failed, aborted, phase, version, rowLocks, files, partitions>>
    BY <1>6 DEF InsertMvRow
  <2>2. TasksOfWrites' /\ LockedRows' /\ Exclusive' /\ TasksHoldRows'
    BY <2>1 DEF RowInv, TasksOfWrites, LockedRows, Exclusive, TasksHoldRows, WithTx, Open,
       Healthy
  <2>3. AbortSeen' /\ CommittedEnded' /\ Counted'
    BY <2>1 DEF RowInv, AbortSeen, CommittedEnded, Counted, FilesOf, WithTx
  <2> QED BY <2>2, <2>3 DEF RowInv
<1>7. CASE UpsertPartition(t)
  BY <1>7, UpsertKeepsRows
<1>8. CASE Commit(t) \/ CommitUnknown(t)
  BY <1>8, CommitKeepsRows
<1>9. CASE FailsBeforePut(t) \/ FailsAfterPut(t)
  BY <1>9, FailureKeepsRows
<1> QED
  BY <1>1, <1>2, <1>3, <1>4, <1>5, <1>6, <1>7, <1>8, <1>9 DEF Progress, Error

-----------------------------------------------------------------------------
(* Steps of a caller.                                                      *)

\* A caller that ends its transaction gives up its locks.
LEMMA EndKeepsRows ==
  ASSUME TypeOK, RowInv, NEW c \in Callers,
         LockFails(c) \/ CommitCallerTx(c) \/ RollbackCallerTx(c)
  PROVE  RowInv'
<1>0. /\ cpc \in [Callers -> {"idle", "open", "returned", "ended"} \cup InCall]
      /\ aborted \in [Callers -> BOOLEAN] /\ failed \in [Callers -> BOOLEAN]
      /\ rowLocks \subseteq Tasks /\ files \subseteq Tasks
      /\ \A t \in Tasks : t[1] \in Callers
  BY TaskParts DEF TypeOK
<1>1. /\ cpc[c] \in {"lock", "open", "returned"}
      /\ \E to \in {"returned", "ended"} : cpc' = [cpc EXCEPT ![c] = to]
      /\ CommitCallerTx(c) \/ RollbackCallerTx(c) => cpc'[c] = "ended"
      /\ rowLocks' = rowLocks \ TasksOf(c)
      /\ UNCHANGED <<mode, phase, version>>
  BY <1>0 DEF LockFails, CommitCallerTx, RollbackCallerTx, Call, AbortCallerTx,
     ReleaseCaller
<1>2. \A t \in TasksOf(c) : phase[t] \in Ended
  BY <1>1 DEF RowInv, TasksOfWrites, TasksOf
<1>3. TasksOfWrites'
  BY <1>0, <1>1, <1>2 DEF RowInv, TasksOfWrites, Calling, WithTx, TasksOf
<1>4. Exclusive'
  BY <1>1 DEF RowInv, Exclusive
<1>5. CASE LockFails(c) \/ RollbackCallerTx(c)
  <2>1. UNCHANGED <<files, partitions>>
    BY <1>5 DEF LockFails, RollbackCallerTx, catalog
  <2>2. LockedRows' /\ Counted'
    BY <1>0, <1>1, <2>1 DEF RowInv, LockedRows, Counted, FilesOf, WithTx, Open, InCall,
       TasksOf
  <2>3. CommittedEnded'
    BY <1>0, <1>1, <2>1 DEF RowInv, CommittedEnded, WithTx
  <2>4. CASE LockFails(c)
    <3>1. failed' = [failed EXCEPT ![c] = TRUE] /\ aborted' = [aborted EXCEPT ![c] = TRUE]
      BY <2>4 DEF LockFails, AbortCallerTx
    <3>2. TasksHoldRows'
      BY <1>0, <1>1, <1>2, <3>1
      DEF RowInv, TasksHoldRows, Healthy, WithTx, Open, TasksOf, Ended, InCall
    <3>3. AbortSeen'
      BY <1>0, <1>1, <3>1 DEF RowInv, AbortSeen
    <3> QED BY <1>3, <1>4, <2>2, <2>3, <3>2, <3>3 DEF RowInv
  <2>5. CASE RollbackCallerTx(c)
    <3>1. UNCHANGED <<failed, aborted>> /\ cpc'[c] = "ended"
      BY <1>1, <2>5 DEF RollbackCallerTx
    <3>2. TasksHoldRows'
      BY <1>0, <1>1, <1>2, <3>1
      DEF RowInv, TasksHoldRows, Healthy, WithTx, Open, TasksOf, Ended, InCall
    <3>3. AbortSeen'
      BY <1>1, <3>1 DEF RowInv, AbortSeen
    <3> QED BY <1>3, <1>4, <2>2, <2>3, <3>2, <3>3 DEF RowInv
  <2> QED BY <1>5, <2>4, <2>5
<1>6. CASE CommitCallerTx(c)
  <2> DEFINE ts == {t \in TasksOf(c) : phase[t] = "done"}
  <2>1. /\ WithTx(c) /\ ~failed[c] /\ cpc[c] = "returned" /\ Visible(ts)
        /\ UNCHANGED <<failed, aborted>> /\ cpc'[c] = "ended"
    BY <1>1, <1>6 DEF CommitCallerTx, Call
  <2>2. ~aborted[c]
    BY <1>2, <2>1 DEF RowInv, AbortSeen, Ended
  <2>3. ts \subseteq rowLocks
    BY <2>1, <2>2 DEF RowInv, TasksHoldRows, Open, TasksOf
  <2>4. Counted' /\ \A u \in rowLocks \ ts : partitions'[u[2]] = partitions[u[2]]
    BY <1>1, <2>1, <2>3, VisibleCounts DEF RowInv
  <2>5. files' = files \cup ts
    BY <2>1 DEF Visible
  <2>6. LockedRows'
    <3> SUFFICES ASSUME NEW t \in rowLocks'
                 PROVE  /\ t \notin files' /\ phase'[t] \notin Early
                        /\ version'[t] = partitions'[t[2]] + 1
                        /\ WithTx(t[1])' => Open(t[1])'
                        /\ ~WithTx(t[1])' => phase'[t] \in {"put", "mv"}
      BY DEF LockedRows
    <3>1. t \in rowLocks /\ t \notin ts /\ t[1] # c
      BY <1>0, <1>1 DEF TasksOf
    <3> QED BY <1>0, <1>1, <2>4, <2>5, <3>1 DEF RowInv, LockedRows, WithTx, Open
  <2>7. TasksHoldRows'
    BY <1>0, <1>1, <1>2, <2>1
    DEF RowInv, TasksHoldRows, Healthy, WithTx, Open, TasksOf, Ended, InCall
  <2>8. AbortSeen'
    BY <1>1, <2>1 DEF RowInv, AbortSeen
  <2>9. CommittedEnded'
    BY <1>0, <1>1, <2>1, <2>5 DEF RowInv, CommittedEnded, WithTx, TasksOf
  <2> QED BY <1>3, <1>4, <2>4, <2>6, <2>7, <2>8, <2>9 DEF RowInv
<1> QED BY <1>5, <1>6

\* The caller's other steps take and release no row.
LEMMA CallerRows ==
  ASSUME TypeOK, RowInv, NEW c \in Callers, CallerStep(c)
  PROVE  RowInv'
<1>0. /\ cpc \in [Callers -> {"idle", "open", "returned", "ended"} \cup InCall]
      /\ mode \in [Callers -> {"pool", "tx"}] /\ phase \in [Tasks -> Phases]
      /\ rowLocks \subseteq Tasks /\ files \subseteq Tasks
      /\ \A t \in Tasks : t[1] \in Callers
  BY TaskParts DEF TypeOK
<1>1. ASSUME WriteInPool(c) \/ WriteInTx(c) PROVE RowInv'
  <2>1. /\ cpc[c] \in {"idle", "open"} /\ cpc' = [cpc EXCEPT ![c] = "writing"] /\ FanOut(c)
        /\ UNCHANGED <<mode, failed, aborted, version, rowLocks, files, partitions>>
    BY <1>1 DEF WriteInPool, WriteInTx, Call, txVars, catalog
  <2>2. \A t \in Tasks : t[1] = c => phase[t] = "none"
    BY <2>1 DEF RowInv, TasksOfWrites, Calling
  <2>3. \A t \in Tasks : phase'[t] = phase[t] \/ (t[1] = c /\ phase'[t] = "queued")
    <3> SUFFICES ASSUME NEW t \in Tasks
                 PROVE  phase'[t] = phase[t] \/ (t[1] = c /\ phase'[t] = "queued")
      OBVIOUS
    <3>1. phase'[t] = IF t[1] = c /\ t[2] \in Batch[c] THEN "queued" ELSE phase[t]
      BY <2>1 DEF FanOut
    <3> QED BY <3>1
  <2>4. TasksOfWrites'
    <3> SUFFICES ASSUME NEW t \in Tasks
                 PROVE  /\ cpc'[t[1]] \in Calling => phase'[t] = "none"
                        /\ phase'[t] \notin Ended => cpc'[t[1]] = "writing"
                        /\ cpc'[t[1]] = "idle" => ~WithTx(t[1])'
      BY DEF TasksOfWrites
    <3>1. CASE t[1] = c
      BY <1>0, <2>1, <3>1 DEF Calling
    <3>2. CASE t[1] # c
      BY <1>0, <2>1, <2>3, <3>2 DEF RowInv, TasksOfWrites, WithTx
    <3> QED BY <3>1, <3>2
  <2>5. LockedRows' /\ Exclusive'
    BY <1>0, <2>1, <2>2, <2>3 DEF RowInv, LockedRows, Exclusive, Early, WithTx, Open, InCall
  <2>6. TasksHoldRows'
    BY <1>0, <2>1, <2>2, <2>3 DEF RowInv, TasksHoldRows, Healthy, WithTx, Open, InCall
  <2>7. AbortSeen'
    BY <1>0, <2>1, <2>2, <2>3 DEF RowInv, AbortSeen, TasksOf
  <2>8. Counted'
    BY <2>1 DEF RowInv, Counted, FilesOf
  <2>9. CommittedEnded'
    <3>1. \A t \in files : t \in Tasks /\ t[1] # c /\ phase'[t] = phase[t]
      BY <1>0, <2>2, <2>3 DEF RowInv, CommittedEnded
    <3> QED BY <1>0, <2>1, <3>1 DEF RowInv, CommittedEnded, WithTx
  <2> QED BY <2>4, <2>5, <2>6, <2>7, <2>8, <2>9 DEF RowInv
<1>2. ASSUME BeginCallerTx(c) \/ AskLock(c) \/ LockGranted(c) PROVE RowInv'
  <2>1. /\ \/ cpc[c] = "idle" /\ mode' = [mode EXCEPT ![c] = "tx"]
              /\ cpc' = [cpc EXCEPT ![c] = "open"]
           \/ cpc[c] = "open" /\ mode' = mode /\ cpc' = [cpc EXCEPT ![c] = "lock"]
           \/ cpc[c] = "lock" /\ mode' = mode /\ cpc' = [cpc EXCEPT ![c] = "open"]
        /\ UNCHANGED <<phase, failed, aborted, version, rowLocks, files, partitions>>
    BY <1>2 DEF BeginCallerTx, AskLock, LockGranted, Call, txVars, catalog
  <2>2. \A t \in Tasks : t[1] = c => phase[t] = "none"
    BY <2>1 DEF RowInv, TasksOfWrites, Calling
  <2>3. TasksOfWrites'
    BY <1>0, <2>1, <2>2 DEF RowInv, TasksOfWrites, Calling, Ended, WithTx
  <2>4. LockedRows' /\ Exclusive'
    BY <1>0, <2>1, <2>2 DEF RowInv, LockedRows, Exclusive, Early, WithTx, Open, InCall
  <2>5. TasksHoldRows'
    BY <1>0, <2>1, <2>2 DEF RowInv, TasksHoldRows, Healthy, WithTx, Open, InCall
  <2>6. AbortSeen' /\ Counted'
    BY <2>1 DEF RowInv, AbortSeen, Counted, FilesOf
  <2>7. CommittedEnded'
    BY <1>0, <2>1, <2>2 DEF RowInv, CommittedEnded, WithTx
  <2> QED BY <2>3, <2>4, <2>5, <2>6, <2>7 DEF RowInv
<1>3. ASSUME WriteReturns(c) PROVE RowInv'
  <2>1. /\ cpc[c] = "writing" /\ cpc' = [cpc EXCEPT ![c] = "returned"]
        /\ \A t \in TasksOf(c) : phase[t] \in Ended
        /\ UNCHANGED <<mode, phase, failed, aborted, version, rowLocks, files, partitions>>
    BY <1>3 DEF WriteReturns, Call, txVars, catalog
  <2>2. TasksOfWrites'
    BY <1>0, <2>1 DEF RowInv, TasksOfWrites, Calling, TasksOf, WithTx
  <2>3. LockedRows' /\ Exclusive'
    BY <1>0, <2>1 DEF RowInv, LockedRows, Exclusive, WithTx, Open, InCall
  <2>4. TasksHoldRows'
    BY <1>0, <2>1 DEF RowInv, TasksHoldRows, Healthy, WithTx, Open, InCall
  <2>5. AbortSeen' /\ Counted'
    BY <2>1 DEF RowInv, AbortSeen, Counted, FilesOf
  <2>6. CommittedEnded'
    BY <1>0, <2>1 DEF RowInv, CommittedEnded, WithTx
  <2> QED BY <2>2, <2>3, <2>4, <2>5, <2>6 DEF RowInv
<1> QED
  BY <1>1, <1>2, <1>3, EndKeepsRows DEF CallerStep

-----------------------------------------------------------------------------
(* Objects and pending rows.                                               *)

\* A step of a caller leaves objects alone, and pending rows but those of the
\* tasks it commits, which have put their objects.
LEMMA CallerObjects ==
  ASSUME TypeOK, RowInv, ObjectInv, NEW c \in Callers, CallerStep(c)
  PROVE  ObjectInv'
<1>0. phase \in [Tasks -> Phases] /\ pending \subseteq Tasks /\ objects' = objects
  BY DEF TypeOK, CallerStep, WriteInPool, WriteInTx, BeginCallerTx, AskLock, LockGranted,
     LockFails, WriteReturns, CommitCallerTx, RollbackCallerTx
<1>1. CASE CommitCallerTx(c)
  <2>1. PICK ts \in SUBSET {t \in Tasks : phase[t] = "done"} :
          files' = files \cup ts /\ pending' = pending \ ts /\ phase' = phase
    <3>1. Visible({t \in TasksOf(c) : phase[t] = "done"}) /\ phase' = phase
      BY <1>1 DEF CommitCallerTx
    <3>2. {t \in TasksOf(c) : phase[t] = "done"} \in SUBSET {t \in Tasks : phase[t] = "done"}
      BY DEF TasksOf
    <3> QED BY <3>1, <3>2 DEF Visible
  <2> QED BY <1>0, <2>1 DEF ObjectInv
<1>2. CASE WriteInPool(c) \/ WriteInTx(c)
  <2>1. FanOut(c) /\ cpc[c] \in Calling /\ UNCHANGED <<files, pending>>
    BY <1>2 DEF WriteInPool, WriteInTx, Call, Calling, catalog
  <2>2. \A t \in Tasks : t[1] = c => phase[t] = "none"
    BY <2>1 DEF RowInv, TasksOfWrites
  <2> SUFFICES ASSUME NEW t \in Tasks
               PROVE  \/ phase'[t] = phase[t]
                      \/ phase[t] = "none" /\ phase'[t] = "queued"
    BY <1>0, <2>1 DEF ObjectInv, Unsent, Early
  <2>3. phase'[t] = IF t[1] = c /\ t[2] \in Batch[c] THEN "queued" ELSE phase[t]
    BY <2>1 DEF FanOut
  <2> QED BY <2>2, <2>3
<1>3. CASE UNCHANGED <<phase, files, pending>>
  BY <1>0, <1>3 DEF ObjectInv
<1> QED
  BY <1>1, <1>2, <1>3 DEF CallerStep, BeginCallerTx, AskLock, LockGranted, LockFails,
     WriteReturns, RollbackCallerTx, catalog

\* A task tracks its key before it puts the object, and untracks it when it has
\* not put it or when its row is committed.
LEMMA TaskObjects ==
  ASSUME TypeOK, RowInv, ObjectInv, NEW t \in Tasks, Progress(t) \/ Error(t)
  PROVE  ObjectInv'
<1>0. /\ phase \in [Tasks -> Phases] /\ pending \subseteq Tasks /\ objects \subseteq Tasks
      /\ phase[t] \notin {"done", "failed"} => t \notin files
  BY DEF TypeOK, RowInv, CommittedEnded
<1> USE <1>0 DEF ObjectInv, Unsent, Early, Step, Fails, callerVars, txVars, catalog
<1>1. CASE StartTask(t) \/ BeginTx(t)
  BY <1>1 DEF StartTask, BeginTx
<1>2. CASE UpsertPartition(t) \/ TaskDone(t)
  BY <1>2 DEF UpsertPartition, TaskDone
<1>3. CASE TrackPending(t) \/ TrackFails(t)
  BY <1>3 DEF TrackPending, TrackFails
<1>4. CASE Put(t)
  BY <1>4 DEF Put
<1>5. CASE InsertMvRow(t)
  BY <1>5 DEF InsertMvRow
<1>6. CASE CleanUp(t)
  BY <1>6 DEF CleanUp
<1>7. CASE Commit(t) \/ CommitUnknown(t)
  BY <1>7 DEF Commit, CommitUnknown, Visible
<1>8. CASE FailsBeforePut(t)
  BY <1>8 DEF FailsBeforePut
<1>9. CASE FailsAfterPut(t)
  BY <1>9 DEF FailsAfterPut
<1> QED
  BY <1>1, <1>2, <1>3, <1>4, <1>5, <1>6, <1>7, <1>8, <1>9 DEF Progress, Error

-----------------------------------------------------------------------------
(* Views.                                                                  *)

\* A task with no tuple left has inserted each or found it committed.
LEMMA NoneLeft ==
  ASSUME NEW t
  PROVE  TuplesLeft(t) = {} <=>
           \A m \in TuplesOf(t) : m \in mv \/ \E y \in tuples : y[1] = t /\ y[2] = m
BY DEF TuplesLeft, TuplesOf

\* It stays so while its uncommitted tuples and those of the view do.
LEMMA NoneLeftStable ==
  ASSUME NEW t, TuplesLeft(t) = {}, mv \subseteq mv',
         \A y \in tuples : y[1] = t => y \in tuples'
  PROVE  TuplesLeft(t)' = {}
<1>1. \A m \in TuplesOf(t) : m \in mv' \/ \E y \in tuples' : y[1] = t /\ y[2] = m
  BY NoneLeft
<1>2. (\A m \in TuplesOf(t) : m \in mv' \/ \E y \in tuples' : y[1] = t /\ y[2] = m)
        => TuplesLeft(t)' = {}
  BY DEF TuplesLeft, TuplesOf
<1> QED BY <1>1, <1>2

\* Tasks with no tuple left, whose rows become visible, add all their tuples.
LEMMA VisibleViews ==
  ASSUME ViewInv, NEW ts, Visible(ts), \A t \in ts : TuplesLeft(t) = {}
  PROVE  mv' = UNION {TuplesOf(t) : t \in files'} /\ mv \subseteq mv'
<1>1. files' = files \cup ts /\ mv' = mv \cup {x[2] : x \in {y \in tuples : y[1] \in ts}}
  BY DEF Visible
<1>2. ASSUME NEW t \in ts, NEW m \in TuplesOf(t) PROVE m \in mv'
  BY <1>1, NoneLeft
<1>3. ASSUME NEW m \in mv' \ mv PROVE \E t \in ts : m \in TuplesOf(t)
  BY <1>1 DEF ViewInv
<1>4. ASSUME NEW m
      PROVE  m \in mv' <=> \E t \in files' : m \in TuplesOf(t)
  BY <1>1, <1>2, <1>3 DEF ViewInv
<1> QED BY <1>1, <1>4

\* A caller's steps: all tuples of its tasks become visible, or are gone with its
\* transaction.
LEMMA CallerViews ==
  ASSUME TypeOK, RowInv, ViewInv, NEW c \in Callers, CallerStep(c)
  PROVE  ViewInv'
<1> DEFINE ts == {t \in TasksOf(c) : phase[t] = "done"}
<1>0. /\ cpc \in [Callers -> {"idle", "open", "returned", "ended"} \cup InCall]
      /\ aborted \in [Callers -> BOOLEAN]
      /\ \A t \in Tasks : t[1] \in Callers
  BY TaskParts DEF TypeOK
<1>1. CASE CommitCallerTx(c)
  <2>1. /\ Visible(ts) /\ ReleaseCaller(c) /\ UNCHANGED <<mode, aborted, phase>>
        /\ WithTx(c) /\ ~failed[c] /\ cpc[c] = "returned"
        /\ cpc' = [cpc EXCEPT ![c] = "ended"]
    BY <1>1 DEF CommitCallerTx, Call
  <2>2. ~aborted[c]
    BY <2>1 DEF RowInv, AbortSeen, TasksOfWrites, TasksOf, Ended
  <2>3. \A t \in ts : TuplesLeft(t) = {}
    BY <2>1, <2>2 DEF ViewInv, Open, TasksOf
  <2>4. mv' = UNION {TuplesOf(t) : t \in files'} /\ mv \subseteq mv'
    BY <2>1, <2>3, VisibleViews
  <2>5. \A x \in tuples' : x[2] \in TuplesOf(x[1])
    BY <2>1 DEF ViewInv, ReleaseCaller
  <2>6. ASSUME NEW t \in Tasks, phase'[t] = "done", Open(t[1])', ~aborted'[t[1]]
        PROVE  TuplesLeft(t)' = {}
    <3>1. t[1] # c
      BY <1>0, <2>1, <2>6 DEF Open, InCall
    <3>2. TuplesLeft(t) = {}
      BY <1>0, <2>1, <2>6, <3>1 DEF ViewInv, Open, WithTx
    <3>3. \A y \in tuples : y[1] = t => y \in tuples'
      BY <2>1, <3>1 DEF ReleaseCaller, TasksOf
    <3> QED BY <2>4, <3>2, <3>3, NoneLeftStable
  <2> QED BY <2>4, <2>5, <2>6 DEF ViewInv
<1>2. CASE ~CommitCallerTx(c)
  <2>1. UNCHANGED <<mv, files>>
    BY <1>2 DEF CallerStep, WriteInPool, WriteInTx, BeginCallerTx, AskLock, LockGranted,
       LockFails, WriteReturns, RollbackCallerTx, catalog
  <2>2. \/ tuples' = tuples
        \/ /\ tuples' = {x \in tuples : x[1] \notin TasksOf(c)}
           /\ cpc'[c] = "ended" \/ aborted'[c]
    BY <1>0, <1>2 DEF CallerStep, WriteInPool, WriteInTx, BeginCallerTx, AskLock,
       LockGranted, LockFails, WriteReturns, RollbackCallerTx, Call, ReleaseCaller,
       AbortCallerTx, txVars
  <2>3. ASSUME NEW t \in Tasks, phase'[t] = "done", Open(t[1])', ~aborted'[t[1]]
        PROVE  TuplesLeft(t)' = {}
    <3>1. phase[t] = "done"
      <4>1. phase' = phase \/ FanOut(c)
        BY <1>2 DEF CallerStep, WriteInPool, WriteInTx, BeginCallerTx, AskLock, LockGranted,
           LockFails, WriteReturns, RollbackCallerTx
      <4>2. CASE FanOut(c)
        <5>1. phase'[t] = IF t[1] = c /\ t[2] \in Batch[c] THEN "queued" ELSE phase[t]
          BY <4>2 DEF FanOut
        <5> QED BY <2>3, <5>1
      <4> QED BY <2>3, <4>1, <4>2
    <3>2. cpc[t[1]] \notin Calling
      BY <3>1 DEF RowInv, TasksOfWrites
    <3>3. Open(t[1]) /\ ~aborted[t[1]]
      <4>1. \/ mode' = mode
            \/ mode' = [mode EXCEPT ![c] = "tx"] /\ cpc[c] = "idle"
        BY <1>2 DEF CallerStep, WriteInPool, WriteInTx, BeginCallerTx, AskLock, LockGranted,
           LockFails, WriteReturns, RollbackCallerTx, Call
      <4>2. \/ aborted' = aborted
            \/ aborted' = [aborted EXCEPT ![c] = TRUE]
        BY <1>2 DEF CallerStep, WriteInPool, WriteInTx, BeginCallerTx, AskLock, LockGranted,
           LockFails, WriteReturns, RollbackCallerTx, AbortCallerTx
      <4>3. \/ cpc'[t[1]] = cpc[t[1]]
            \/ t[1] = c /\ cpc[c] = "writing"
            \/ t[1] = c /\ cpc'[c] = "ended"
        <5>1. t[1] # c \/ cpc[c] \notin Calling
          BY <3>2
        <5>2. CASE RollbackCallerTx(c)
          BY <1>0, <5>2 DEF RollbackCallerTx, Call
        <5>3. CASE ~RollbackCallerTx(c)
          <6>1. /\ cpc' = [cpc EXCEPT ![c] = cpc'[c]]
                /\ cpc[c] \in Calling \/ cpc[c] = "writing"
            BY <1>0, <1>2, <5>3 DEF CallerStep, WriteInPool, WriteInTx, BeginCallerTx,
               AskLock, LockGranted, LockFails, WriteReturns, Call, Calling
          <6> QED BY <1>0, <5>1, <6>1
        <5> QED BY <5>2, <5>3
      <4>4. WithTx(t[1])
        BY <1>0, <2>3, <3>2, <4>1 DEF Open, WithTx, Calling, TypeOK
      <4>5. cpc[t[1]] \in {"open", "returned"} \cup InCall
        BY <2>3, <4>3 DEF Open, InCall
      <4> QED BY <1>0, <2>3, <4>2, <4>4, <4>5 DEF Open
    <3>4. TuplesLeft(t) = {}
      BY <3>1, <3>3 DEF ViewInv
    <3>5. \A y \in tuples : y[1] = t => y \in tuples'
      BY <2>2, <2>3 DEF TasksOf, Open, InCall
    <3> QED BY <2>1, <3>4, <3>5, NoneLeftStable
  <2>4. \A x \in tuples' : x[2] \in TuplesOf(x[1])
    BY <2>2 DEF ViewInv
  <2> QED BY <2>1, <2>3, <2>4 DEF ViewInv
<1> QED BY <1>1, <1>2

\* A task's steps: it inserts its own tuples, and is done or commits with none left.
LEMMA TaskViews ==
  ASSUME TypeOK, RowInv, ViewInv, NEW t \in Tasks, Progress(t) \/ Error(t)
  PROVE  ViewInv'
<1>0. /\ t[1] \in Callers /\ aborted \in [Callers -> BOOLEAN] /\ phase \in [Tasks -> Phases]
      /\ \A u \in Tasks : u[1] \in Callers
      /\ UNCHANGED <<mode, cpc>>
  BY TaskParts DEF TypeOK, Progress, Error, StartTask, TrackPending, BeginTx,
     UpsertPartition, Put, InsertMvRow, TaskDone, Commit, CleanUp, TrackFails,
     FailsBeforePut, FailsAfterPut, CommitUnknown, callerVars
<1>1. CASE Commit(t) \/ CommitUnknown(t)
  <2>1. /\ Visible({t}) /\ Release(t) /\ ~WithTx(t[1]) /\ TuplesLeft(t) = {}
        /\ aborted' = aborted
        /\ \E b : phase' = [phase EXCEPT ![t] = b]
    BY <1>1 DEF Commit, CommitUnknown, Fails, Step
  <2>2. mv' = UNION {TuplesOf(u) : u \in files'} /\ mv \subseteq mv'
    BY <2>1, VisibleViews
  <2>3. \A x \in tuples' : x[2] \in TuplesOf(x[1])
    BY <2>1 DEF ViewInv, Release
  <2>4. ASSUME NEW u \in Tasks, phase'[u] = "done", Open(u[1])', ~aborted'[u[1]]
        PROVE  TuplesLeft(u)' = {}
    <3>1. u # t
      BY <1>0, <2>1, <2>4 DEF Open, WithTx
    <3>2. TuplesLeft(u) = {}
      BY <1>0, <2>1, <2>4, <3>1 DEF ViewInv, Open, WithTx
    <3>3. \A y \in tuples : y[1] = u => y \in tuples'
      BY <2>1, <3>1 DEF Release
    <3> QED BY <2>2, <3>2, <3>3, NoneLeftStable
  <2> QED BY <2>2, <2>3, <2>4 DEF ViewInv
<1>2. CASE ~(Commit(t) \/ CommitUnknown(t))
  <2>1. UNCHANGED <<mv, files>>
    BY <1>2 DEF Progress, Error, StartTask, TrackPending, BeginTx, UpsertPartition, Put,
       InsertMvRow, TaskDone, CleanUp, TrackFails, FailsBeforePut, FailsAfterPut, catalog
  <2>2. \A x \in tuples' : x[2] \in TuplesOf(x[1])
    <3>1. CASE InsertMvRow(t)
      BY <3>1 DEF InsertMvRow, ViewInv, TuplesOf
    <3>2. CASE ~InsertMvRow(t)
      <4>1. tuples' \subseteq tuples
        BY <1>2, <3>2 DEF Progress, Error, StartTask, TrackPending, BeginTx,
           UpsertPartition, Put, TaskDone, CleanUp, TrackFails, FailsBeforePut,
           FailsAfterPut, StatementFails, OtherwiseFails, AbortCallerTx, ReleaseCaller,
           Release, txVars
      <4> QED BY <4>1 DEF ViewInv
    <3> QED BY <3>1, <3>2
  <2>3. \/ aborted' = aborted /\ \A y \in tuples : y[1] # t => y \in tuples'
        \/ /\ aborted' = [aborted EXCEPT ![t[1]] = TRUE]
           /\ tuples' = {x \in tuples : x[1] \notin TasksOf(t[1])}
    BY <1>2 DEF Progress, Error, StartTask, TrackPending, BeginTx, UpsertPartition, Put,
       InsertMvRow, TaskDone, CleanUp, TrackFails, FailsBeforePut, FailsAfterPut,
       StatementFails, OtherwiseFails, AbortCallerTx, ReleaseCaller, Release, txVars,
       callerVars
  <2>4. /\ \A u \in Tasks \ {t} : phase'[u] = phase[u]
        /\ phase'[t] = "done" => TaskDone(t) \/ (InsertMvRow(t) /\ phase[t] # "done")
    BY <1>0, <1>2 DEF Progress, Error, StartTask, TrackPending, BeginTx, UpsertPartition,
       Put, InsertMvRow, CleanUp, TrackFails, FailsBeforePut, FailsAfterPut, TaskDone,
       Step, Fails
  <2>5. ASSUME NEW u \in Tasks, phase'[u] = "done", Open(u[1])', ~aborted'[u[1]]
        PROVE  TuplesLeft(u)' = {}
    <3>1. CASE u = t
      <4>1. TaskDone(t)
        BY <1>0, <2>4, <2>5, <3>1 DEF InsertMvRow
      <4>2. TuplesLeft(t) = {} /\ tuples' = tuples /\ mv' = mv
        BY <4>1 DEF TaskDone, txVars, catalog
      <4> QED BY <3>1, <4>2, NoneLeftStable
    <3>2. CASE u # t
      <4>1. ~aborted[u[1]] /\ phase[u] = "done" /\ Open(u[1])
        BY <1>0, <2>3, <2>4, <2>5, <3>2 DEF Open, WithTx
      <4>2. TuplesLeft(u) = {}
        BY <4>1 DEF ViewInv
      <4>3. \A y \in tuples : y[1] = u => y \in tuples'
        BY <1>0, <2>3, <2>5, <3>2 DEF TasksOf
      <4> QED BY <2>1, <4>2, <4>3, NoneLeftStable
    <3> QED BY <3>1, <3>2
  <2> QED BY <2>1, <2>2, <2>5 DEF ViewInv
<1> QED BY <1>1, <1>2

-----------------------------------------------------------------------------
(* Result slots.                                                           *)

\* A caller's steps fill no slot, and commit all its tasks that wrote or none.
LEMMA CallerSlots ==
  ASSUME TypeOK, RowInv, SlotInv, NEW c \in Callers, CallerStep(c)
  PROVE  SlotInv'
<1>0. /\ \A t \in Tasks : t[1] \in Callers
      /\ failed \in [Callers -> BOOLEAN] /\ files \subseteq Tasks
      /\ mode \in [Callers -> {"pool", "tx"}]
      /\ UNCHANGED <<out, version>>
      /\ \A d \in Callers : failed[d] => failed'[d]
  BY TaskParts DEF TypeOK, CallerStep, WriteInPool, WriteInTx, BeginCallerTx, AskLock,
     LockGranted, LockFails, WriteReturns, CommitCallerTx, RollbackCallerTx, txVars
<1>1. CASE CommitCallerTx(c)
  <2> DEFINE ts == {t \in TasksOf(c) : phase[t] = "done"}
  <2>1. /\ files' = files \cup ts /\ UNCHANGED <<mode, phase>>
        /\ ~failed[c] /\ cpc[c] = "returned"
    BY <1>1 DEF CommitCallerTx, Visible, Call
  <2>2. \A u \in TasksOf(c) : phase[u] # "none" => u \in ts
    BY <2>1 DEF SlotInv, RowInv, TasksOfWrites, TasksOf, Ended
  <2>3. ASSUME NEW t \in files', WithTx(t[1]), NEW u \in TasksOf(t[1]), phase[u] # "none"
        PROVE  u \in files'
    <3>1. CASE t \in files
      BY <2>1, <2>3, <3>1 DEF SlotInv
    <3>2. CASE t \in ts
      BY <2>1, <2>2, <2>3, <3>2 DEF TasksOf
    <3> QED BY <2>1, <3>1, <3>2
  <2> QED BY <1>0, <2>1, <2>3 DEF SlotInv, WithTx, TasksOf
<1>2. CASE ~CommitCallerTx(c)
  <2>1. files' = files
    BY <1>2 DEF CallerStep, WriteInPool, WriteInTx, BeginCallerTx, AskLock, LockGranted,
       LockFails, WriteReturns, RollbackCallerTx, catalog
  <2>2. \/ phase' = phase
        \/ FanOut(c) /\ cpc[c] \in Calling
    BY <1>2 DEF CallerStep, WriteInPool, WriteInTx, BeginCallerTx, AskLock, LockGranted,
       LockFails, WriteReturns, RollbackCallerTx, Call, Calling
  <2>3. \A t \in Tasks : \/ phase'[t] = phase[t]
                         \/ t[1] = c /\ phase[t] = "none" /\ phase'[t] = "queued"
    <3> SUFFICES ASSUME NEW t \in Tasks, FanOut(c), cpc[c] \in Calling
                 PROVE  \/ phase'[t] = phase[t]
                        \/ t[1] = c /\ phase[t] = "none" /\ phase'[t] = "queued"
      BY <2>2
    <3>1. phase'[t] = IF t[1] = c /\ t[2] \in Batch[c] THEN "queued" ELSE phase[t]
      BY DEF FanOut
    <3>2. t[1] = c => phase[t] = "none"
      BY DEF RowInv, TasksOfWrites
    <3> QED BY <3>1, <3>2
  <2>4. \A t \in Tasks : phase[t] # "none" => WithTx(t[1])' = WithTx(t[1])
    <3>1. \/ mode' = mode
          \/ mode' = [mode EXCEPT ![c] = "tx"] /\ cpc[c] = "idle"
      BY <1>2 DEF CallerStep, WriteInPool, WriteInTx, BeginCallerTx, AskLock, LockGranted,
         LockFails, WriteReturns, RollbackCallerTx, Call
    <3> QED BY <1>0, <3>1 DEF RowInv, TasksOfWrites, Calling, WithTx
  <2>5. ASSUME NEW t \in Tasks
        PROVE  /\ out'[t] = IF phase'[t] = "done" THEN version'[t] ELSE 0
               /\ phase'[t] \in {"put", "mv", "done"} => version'[t] >= 1
               /\ phase'[t] = "failed" => failed'[t[1]]
               /\ (phase'[t] = "done" /\ ~WithTx(t[1])') => t \in files'
    BY <1>0, <2>1, <2>3, <2>4 DEF SlotInv
  <2>6. ASSUME NEW t \in files', WithTx(t[1])', NEW u \in TasksOf(t[1]), phase'[u] # "none"
        PROVE  u \in files'
    <3>1. t \in Tasks /\ u \in Tasks /\ u[1] = t[1] /\ phase[t] \in {"done", "failed"}
      BY <1>0, <2>1 DEF RowInv, CommittedEnded, TasksOf
    <3>2. WithTx(t[1]) /\ cpc[t[1]] = "ended"
      BY <2>1, <2>4, <2>6, <3>1 DEF RowInv, CommittedEnded
    <3>3. phase'[u] = phase[u]
      <4>1. cpc[u[1]] \notin Calling
        BY <3>1, <3>2 DEF Calling
      <4> QED BY <2>2, <2>3, <3>1, <4>1
    <3> QED BY <2>1, <2>6, <3>2, <3>3 DEF SlotInv
  <2> QED BY <2>5, <2>6 DEF SlotInv, TasksOf
<1> QED BY <1>1, <1>2

\* A task's steps: its slot is filled when it is done, with its version.
LEMMA TaskSlots ==
  ASSUME TypeOK, RowInv, SlotInv, NEW t \in Tasks, Progress(t) \/ Error(t)
  PROVE  SlotInv'
<1>0. /\ t[1] \in Callers /\ failed \in [Callers -> BOOLEAN] /\ phase \in [Tasks -> Phases]
      /\ version \in [Tasks -> Nat] /\ out \in [Tasks -> Nat]
      /\ partitions[t[2]] \in Nat
      /\ \A u \in Tasks : u[1] \in Callers
      /\ files \subseteq Tasks
  BY TaskParts DEF TypeOK, Versions
<1>1. /\ UNCHANGED <<mode, cpc>>
      /\ \A c \in Callers : failed[c] => failed'[c]
  BY <1>0 DEF Progress, Error, StartTask, TrackPending, BeginTx, UpsertPartition, Put,
     InsertMvRow, TaskDone, Commit, CleanUp, TrackFails, FailsBeforePut, FailsAfterPut,
     CommitUnknown, callerVars, Fails
<1>2. phase[t] \notin Ended
  BY DEF Progress, Error, StartTask, TrackPending, BeginTx, UpsertPartition, Put,
     InsertMvRow, TaskDone, Commit, CleanUp, TrackFails, FailsBeforePut, FailsAfterPut,
     CommitUnknown, Step, Fails, Ended
<1>3. \A u \in Tasks \ {t} :
        phase'[u] = phase[u] /\ version'[u] = version[u] /\ out'[u] = out[u]
  BY <1>0 DEF Progress, Error, StartTask, TrackPending, BeginTx, UpsertPartition, Put,
     InsertMvRow, TaskDone, Commit, CleanUp, TrackFails, FailsBeforePut, FailsAfterPut,
     CommitUnknown, callerVars, txVars, Fails, Step, FillSlot
<1>4. /\ phase'[t] = "failed" => failed'[t[1]]
      /\ phase'[t] \in {"put", "mv", "done"} => version'[t] >= 1
      /\ out'[t] = IF phase'[t] = "done" THEN version'[t] ELSE 0
      /\ files \subseteq files'
      /\ (phase'[t] = "done" /\ ~WithTx(t[1])) => t \in files'
  <2> USE <1>0, <1>2 DEF SlotInv, Step, Fails, callerVars, txVars, catalog, Ended
  <2>1. CASE StartTask(t) \/ TrackPending(t) \/ BeginTx(t) \/ Put(t) \/ InsertMvRow(t)
    BY <2>1 DEF StartTask, TrackPending, BeginTx, Put, InsertMvRow
  <2>2. CASE UpsertPartition(t)
    BY <2>2 DEF UpsertPartition
  <2>3. CASE TaskDone(t)
    BY <2>3 DEF TaskDone, FillSlot
  <2>4. CASE Commit(t)
    BY <2>4 DEF Commit, FillSlot, Visible
  <2>5. CASE CommitUnknown(t)
    BY <2>5 DEF CommitUnknown, Visible
  <2>6. CASE CleanUp(t) \/ TrackFails(t)
    <3>1. failed' = [failed EXCEPT ![t[1]] = TRUE] /\ phase'[t] = "failed"
      BY <2>6 DEF CleanUp, TrackFails
    <3>2. UNCHANGED <<out, version, files>>
      BY <2>6 DEF CleanUp, TrackFails
    <3> QED BY <3>1, <3>2
  <2>7. CASE FailsBeforePut(t)
    BY <2>7 DEF FailsBeforePut
  <2>8. CASE FailsAfterPut(t)
    BY <2>8 DEF FailsAfterPut
  <2> QED BY <2>1, <2>2, <2>3, <2>4, <2>5, <2>6, <2>7, <2>8 DEF Progress, Error
<1>5. \A u \in files' : u \in files \/ (u = t /\ ~WithTx(t[1]))
  BY DEF Progress, Error, StartTask, TrackPending, BeginTx, UpsertPartition, Put,
     InsertMvRow, TaskDone, Commit, CleanUp, TrackFails, FailsBeforePut, FailsAfterPut,
     CommitUnknown, catalog, Visible
<1>6. ASSUME NEW u \in Tasks
      PROVE  /\ out'[u] = IF phase'[u] = "done" THEN version'[u] ELSE 0
             /\ phase'[u] \in {"put", "mv", "done"} => version'[u] >= 1
             /\ phase'[u] = "failed" => failed'[u[1]]
             /\ (phase'[u] = "done" /\ ~WithTx(u[1])') => u \in files'
  <2>1. CASE u = t
    BY <1>1, <1>4, <2>1 DEF WithTx
  <2>2. CASE u # t
    BY <1>0, <1>1, <1>3, <1>4, <2>2 DEF SlotInv, WithTx
  <2> QED BY <2>1, <2>2
<1>7. ASSUME NEW u \in files', WithTx(u[1])', NEW v \in TasksOf(u[1]), phase'[v] # "none"
      PROVE  v \in files'
  <2>1. u \in files /\ WithTx(u[1])
    BY <1>1, <1>5, <1>7 DEF WithTx
  <2>2. u[1] # t[1]
    BY <1>2, <2>1 DEF RowInv, CommittedEnded, TasksOfWrites
  <2>3. v \in Tasks /\ v # t
    BY <2>2 DEF TasksOf
  <2> QED BY <1>3, <1>4, <1>7, <2>1, <2>3 DEF SlotInv
<1> QED BY <1>6, <1>7 DEF SlotInv, TasksOf

-----------------------------------------------------------------------------
(* Partition locks.                                                        *)

\* A task commits: no one who holds the lock on its partition has read it, unless
\* the task did not ask for the lock.
LEMMA NewRowIsLast ==
  ASSUME TypeOK, RowInv, LockInv, NEW ts, ts \subseteq rowLocks, Visible(ts),
         UNCHANGED <<asked, read, version>>,
         \A c \in Callers : held'[c] \subseteq held[c],
         \A t \in ts : asked[t[1]] # {} => held[t[1]] = asked[t[1]] /\ held'[t[1]] = {}
  PROVE  ReadCurrent' /\ NoLostUpdate'
<1>0. /\ rowLocks \subseteq Tasks /\ files \subseteq Tasks /\ version \in [Tasks -> Nat]
      /\ read \in [Tasks -> Nat \cup {-1}] /\ partitions \in [Partitions -> Nat]
      /\ \A t \in Tasks : t[1] \in Callers /\ t[2] \in Partitions
      /\ \A c \in Callers : held[c] \subseteq asked[c] /\ held[c] \in SUBSET Partitions
  BY TaskParts DEF TypeOK, Versions
<1>1. files' = files \cup ts
  BY DEF Visible
<1>2. \A u \in files : version[u] <= partitions[u[2]]
  <2> SUFFICES ASSUME NEW u \in files PROVE version[u] <= partitions[u[2]]
    OBVIOUS
  <2>1. version[u] \in {version[t] : t \in FilesOf(u[2])}
    BY DEF FilesOf
  <2>2. version[u] \in 1 .. partitions[u[2]]
    BY <1>0, <2>1 DEF RowInv, Counted
  <2> QED BY <1>0, <2>2
<1>3. ASSUME NEW t \in ts, NEW u \in files, t[2] = u[2]
      PROVE  version[u] < version[t]
  BY <1>0, <1>2, <1>3 DEF RowInv, LockedRows
<1>4. \A t, u \in ts : t[2] = u[2] => t = u
  BY DEF RowInv, Exclusive
<1>5. ASSUME NEW t \in Tasks, NEW u \in ts, u # t, t[2] = u[2], t[2] \in held'[t[1]],
             u[2] \in asked[u[1]]
      PROVE  FALSE
  <2>1. held[u[1]] = asked[u[1]] /\ held'[u[1]] = {} /\ u \in Tasks
    BY <1>0, <1>5
  <2>2. t[1] # u[1] /\ t[2] \in held[t[1]] /\ u[2] \in held[u[1]]
    BY <1>0, <1>5, <2>1
  <2> QED BY <1>0, <1>5, <2>1, <2>2 DEF LockInv, OneHolder
<1>6. ReadCurrent'
  BY <1>0, <1>1, <1>5 DEF LockInv, ReadCurrent
<1>7. ASSUME NEW t \in files', NEW u \in files', t[2] = u[2], read[t] # -1,
             read[t] < version[u], version[u] < version[t], u[2] \in asked[u[1]]
      PROVE  FALSE
  <2>0. u # t /\ t \in Tasks /\ u \in Tasks
    BY <1>0, <1>1, <1>7
  <2>1. CASE t \in files /\ u \in files
    BY <1>7, <2>1 DEF LockInv, NoLostUpdate
  <2>2. CASE t \in files /\ u \in ts
    BY <1>0, <1>3, <1>7, <2>0, <2>2
  <2>3. CASE t \in ts /\ u \in files
    <3>1. t[2] \in asked[t[1]]
      BY <1>7, <2>0 DEF LockInv, ReadCurrent
    <3>2. t[2] \in held[t[1]]
      BY <2>3, <3>1
    <3>3. version[u] <= read[t]
      BY <1>7, <2>0, <2>3, <3>2 DEF LockInv, ReadCurrent
    <3> QED BY <1>0, <1>7, <2>0, <3>3
  <2>4. CASE t \in ts /\ u \in ts
    BY <1>4, <1>7, <2>0, <2>4
  <2> QED BY <1>1, <1>7, <2>1, <2>2, <2>3, <2>4
<1>8. NoLostUpdate'
  BY <1>7 DEF NoLostUpdate
<1> QED BY <1>6, <1>8

\* A caller's steps: it waits for every lock that it asks for, reads when it has
\* it, and has it until its transaction ends.
LEMMA CallerLocks ==
  ASSUME TypeOK, RowInv, LockInv, NEW c \in Callers, CallerStep(c)
  PROVE  LockInv'
<1>0. /\ cpc \in [Callers -> {"idle", "open", "returned", "ended"} \cup InCall]
      /\ mode \in [Callers -> {"pool", "tx"}]
      /\ aborted \in [Callers -> BOOLEAN] /\ failed \in [Callers -> BOOLEAN]
      /\ asked \in [Callers -> SUBSET Partitions] /\ held \in [Callers -> SUBSET Partitions]
      /\ rowLocks \subseteq Tasks /\ files \subseteq Tasks /\ version \in [Tasks -> Nat]
      /\ read \in [Tasks -> Nat \cup {-1}] /\ partitions \in [Partitions -> Nat]
      /\ \A t \in Tasks : t[1] \in Callers /\ t[2] \in Partitions
      /\ \A d \in Callers : held[d] \subseteq asked[d]
  BY TaskParts DEF TypeOK, Versions
<1>1. CASE WriteInPool(c) \/ WriteInTx(c) \/ WriteReturns(c)
  <2>1. /\ UNCHANGED <<mode, asked, held, read, aborted, version, files>>
        /\ \/ cpc[c] \in {"idle", "open"} /\ cpc' = [cpc EXCEPT ![c] = "writing"]
           \/ cpc[c] = "writing" /\ cpc' = [cpc EXCEPT ![c] = "returned"]
    BY <1>1 DEF WriteInPool, WriteInTx, WriteReturns, Call, txVars, catalog
  <2>2. HoldsAsked'
    BY <1>0, <2>1 DEF LockInv, HoldsAsked, WithTx, Open, InCall
  <2>3. OneHolder' /\ ReadCurrent' /\ NoLostUpdate'
    BY <2>1 DEF LockInv, OneHolder, ReadCurrent, NoLostUpdate
  <2> QED BY <2>2, <2>3 DEF LockInv
<1>2. CASE BeginCallerTx(c)
  <2>1. /\ UNCHANGED <<asked, held, read, aborted, version, files>>
        /\ cpc[c] = "idle" /\ cpc' = [cpc EXCEPT ![c] = "open"]
        /\ mode' = [mode EXCEPT ![c] = "tx"]
    BY <1>2 DEF BeginCallerTx, Call, txVars, catalog
  <2>2. asked[c] = {} /\ held[c] = {}
    BY <1>0, <2>1 DEF LockInv, HoldsAsked
  <2>3. HoldsAsked'
    BY <1>0, <2>1, <2>2 DEF LockInv, HoldsAsked, WithTx, Open, InCall
  <2>4. OneHolder' /\ ReadCurrent' /\ NoLostUpdate'
    BY <2>1 DEF LockInv, OneHolder, ReadCurrent, NoLostUpdate
  <2> QED BY <2>3, <2>4 DEF LockInv
<1>3. CASE AskLock(c)
  <2>1. PICK p \in Partitions : asked' = [asked EXCEPT ![c] = @ \cup {p}]
    BY <1>3 DEF AskLock
  <2>2. /\ UNCHANGED <<mode, held, read, aborted, version, files>>
        /\ cpc[c] = "open" /\ cpc' = [cpc EXCEPT ![c] = "lock"]
    BY <1>3 DEF AskLock, Call, txVars, catalog
  <2>3. HoldsAsked'
    BY <1>0, <2>1, <2>2 DEF LockInv, HoldsAsked, WithTx, Open, InCall
  <2>4. OneHolder'
    BY <2>2 DEF LockInv, OneHolder
  <2>5. \A u \in files : u[1] # c
    BY <1>0, <2>2 DEF LockInv, HoldsAsked, RowInv, CommittedEnded
  <2>6. ReadCurrent'
    BY <1>0, <2>1, <2>2, <2>5 DEF LockInv, ReadCurrent
  <2>7. NoLostUpdate'
    BY <1>0, <2>1, <2>2, <2>5 DEF LockInv, NoLostUpdate
  <2> QED BY <2>3, <2>4, <2>6, <2>7 DEF LockInv
<1>4. CASE LockGranted(c)
  <2>1. /\ cpc[c] = "lock" /\ cpc' = [cpc EXCEPT ![c] = "open"]
        /\ \A p \in asked[c] \ held[c] : LockHolders(c, p) = {}
        /\ held' = [held EXCEPT ![c] = asked[c]]
        /\ UNCHANGED <<mode, asked, aborted, version, files>>
    BY <1>4 DEF LockGranted, Call, AwaitsLock, txVars, catalog
  <2>2. \A t \in Tasks :
          read'[t] = IF t[1] = c /\ t[2] \in asked[c] \ held[c]
                     THEN partitions[t[2]] ELSE read[t]
    BY <1>4, <2>1 DEF LockGranted, AwaitsLock
  <2>3. HoldsAsked'
    BY <1>0, <2>1 DEF LockInv, HoldsAsked, WithTx, Open, InCall
  <2>4. OneHolder'
    <3>1. ASSUME NEW d \in Callers \ {c}, NEW p \in asked[c], NEW q \in held[d]
          PROVE  LockKey[p] # LockKey[q]
      <4>1. CASE p \in held[c]
        BY <3>1, <4>1 DEF LockInv, OneHolder
      <4>2. CASE p \notin held[c]
        BY <2>1, <3>1, <4>2 DEF LockHolders
      <4> QED BY <4>1, <4>2
    <3>2. \A d \in Callers : held'[d] = IF d = c THEN asked[c] ELSE held[d]
      BY <1>0, <2>1
    <3>3. ASSUME NEW d \in Callers, NEW e \in Callers, d # e,
                 NEW p \in held'[d], NEW q \in held'[e]
          PROVE  LockKey[p] # LockKey[q]
      <4>1. CASE d = c
        BY <3>1, <3>2, <3>3, <4>1
      <4>2. CASE e = c
        BY <3>1, <3>2, <3>3, <4>2
      <4>3. CASE d # c /\ e # c
        BY <3>2, <3>3, <4>3 DEF LockInv, OneHolder
      <4> QED BY <4>1, <4>2, <4>3
    <3> QED BY <3>3 DEF OneHolder
  <2>5. \A u \in files : version[u] <= partitions[u[2]] /\ u[1] # c
    <3> SUFFICES ASSUME NEW u \in files
                 PROVE  version[u] <= partitions[u[2]] /\ u[1] # c
      OBVIOUS
    <3>1. version[u] \in {version[t] : t \in FilesOf(u[2])}
      BY DEF FilesOf
    <3>2. version[u] \in 1 .. partitions[u[2]]
      BY <1>0, <3>1 DEF RowInv, Counted
    <3>3. u[1] # c
      BY <1>0, <2>1 DEF LockInv, HoldsAsked, RowInv, CommittedEnded
    <3> QED BY <1>0, <3>2, <3>3
  <2>6. ReadCurrent'
    <3>1. ASSUME NEW t \in Tasks, read'[t] # -1 PROVE t[2] \in asked'[t[1]]
      BY <2>1, <2>2, <3>1 DEF LockInv, ReadCurrent
    <3>2. ASSUME NEW t \in Tasks, NEW u \in files, u # t, t[2] = u[2],
                 t[2] \in held'[t[1]], u[2] \in asked[u[1]]
          PROVE  version[u] <= read'[t]
      <4>1. CASE t[1] = c /\ t[2] \notin held[c]
        BY <1>0, <2>1, <2>2, <2>5, <3>2, <4>1
      <4>2. CASE t[1] # c \/ t[2] \in held[c]
        <5>1. read'[t] = read[t] /\ t[2] \in held[t[1]]
          BY <1>0, <2>1, <2>2, <3>2, <4>2
        <5> QED BY <3>2, <5>1 DEF LockInv, ReadCurrent
      <4> QED BY <4>1, <4>2
    <3> QED BY <2>1, <3>1, <3>2 DEF ReadCurrent
  <2>7. NoLostUpdate'
    <3>1. \A t \in files : read'[t] = read[t]
      BY <1>0, <2>2, <2>5
    <3> QED BY <2>1, <3>1 DEF LockInv, NoLostUpdate
  <2> QED BY <2>3, <2>4, <2>6, <2>7 DEF LockInv
<1>5. CASE LockFails(c) \/ CommitCallerTx(c) \/ RollbackCallerTx(c)
  <2>1. /\ held' = [held EXCEPT ![c] = {}]
        /\ UNCHANGED <<mode, asked, read, version>>
        /\ \/ LockFails(c) /\ cpc' = [cpc EXCEPT ![c] = "returned"]
              /\ aborted' = [aborted EXCEPT ![c] = TRUE]
           \/ aborted' = aborted /\ cpc' = [cpc EXCEPT ![c] = "ended"]
    BY <1>5 DEF LockFails, CommitCallerTx, RollbackCallerTx, AbortCallerTx, ReleaseCaller,
       Call
  <2>2. HoldsAsked'
    BY <1>0, <2>1 DEF LockInv, HoldsAsked, WithTx, Open, InCall
  <2>3. OneHolder'
    BY <1>0, <2>1 DEF LockInv, OneHolder
  <2>4. ReadCurrent' /\ NoLostUpdate'
    <3>1. CASE CommitCallerTx(c)
      <4> DEFINE ts == {t \in TasksOf(c) : phase[t] = "done"}
      <4>1. Visible(ts) /\ ~failed[c] /\ WithTx(c) /\ cpc[c] = "returned"
        BY <3>1 DEF CommitCallerTx, Call
      <4>2. ~aborted[c]
        BY <4>1 DEF RowInv, AbortSeen, TasksOfWrites, TasksOf, Ended
      <4>3. ts \subseteq rowLocks
        BY <4>1, <4>2 DEF RowInv, TasksHoldRows, Open, TasksOf
      <4>4. held[c] = asked[c]
        BY <4>1, <4>2 DEF LockInv, HoldsAsked, Open
      <4>5. /\ \A d \in Callers : held'[d] \subseteq held[d]
            /\ \A t \in ts : held[t[1]] = asked[t[1]] /\ held'[t[1]] = {}
        BY <1>0, <2>1, <4>4 DEF TasksOf
      <4> HIDE DEF ts
      <4> QED BY <2>1, <4>1, <4>3, <4>5, NewRowIsLast
    <3>2. CASE LockFails(c) \/ RollbackCallerTx(c)
      <4>1. files' = files
        BY <3>2 DEF LockFails, RollbackCallerTx, catalog
      <4> QED BY <1>0, <2>1, <4>1 DEF LockInv, ReadCurrent, NoLostUpdate
    <3> QED BY <1>5, <3>1, <3>2
  <2> QED BY <2>2, <2>3, <2>4 DEF LockInv
<1> QED BY <1>1, <1>2, <1>3, <1>4, <1>5 DEF CallerStep

\* A task's steps take no partition lock, and release its caller's only when they
\* abort its transaction.
LEMMA TaskLocks ==
  ASSUME TypeOK, RowInv, LockInv, NEW t \in Tasks, Progress(t) \/ Error(t)
  PROVE  LockInv'
<1>0. /\ t[1] \in Callers
      /\ aborted \in [Callers -> BOOLEAN] /\ held \in [Callers -> SUBSET Partitions]
      /\ asked \in [Callers -> SUBSET Partitions]
      /\ files \subseteq Tasks
      /\ \A u \in Tasks : u[1] \in Callers
  BY TaskParts DEF TypeOK
<1>1. /\ UNCHANGED <<mode, cpc, asked, read>>
      /\ \/ UNCHANGED <<aborted, held>>
         \/ /\ aborted' = [aborted EXCEPT ![t[1]] = TRUE]
            /\ held' = [held EXCEPT ![t[1]] = {}]
  BY DEF Progress, Error, StartTask, TrackPending, BeginTx, UpsertPartition, Put,
     InsertMvRow, TaskDone, Commit, CleanUp, TrackFails, FailsBeforePut, FailsAfterPut,
     CommitUnknown, callerVars, StatementFails, OtherwiseFails, AbortCallerTx, ReleaseCaller
<1>2. HoldsAsked'
  BY <1>0, <1>1 DEF LockInv, HoldsAsked, WithTx, Open
<1>3. OneHolder'
  BY <1>0, <1>1 DEF LockInv, OneHolder
<1>4. ReadCurrent' /\ NoLostUpdate'
  <2>1. CASE Commit(t) \/ CommitUnknown(t)
    <3>1. /\ Visible({t}) /\ ~WithTx(t[1]) /\ phase[t] = "mv"
          /\ UNCHANGED <<held, version>>
      BY <2>1 DEF Commit, CommitUnknown, Fails, Step
    <3>2. {t} \subseteq rowLocks
      BY <3>1 DEF RowInv, TasksHoldRows, Healthy
    <3>3. asked[t[1]] = {}
      BY <1>0, <3>1 DEF LockInv, HoldsAsked
    <3> QED BY <1>1, <3>1, <3>2, <3>3, NewRowIsLast
  <2>2. CASE ~(Commit(t) \/ CommitUnknown(t))
    <3>1. /\ files' = files
          /\ version' = version \/ (UpsertPartition(t) /\ t \notin files)
      <4>1. UpsertPartition(t) => t \notin files
        BY DEF UpsertPartition, Step, RowInv, CommittedEnded
      <4> QED
        BY <2>2, <4>1 DEF Progress, Error, StartTask, TrackPending, BeginTx,
           UpsertPartition, Put, InsertMvRow, TaskDone, CleanUp, TrackFails,
           FailsBeforePut, FailsAfterPut, txVars, catalog
    <3>2. \A u \in files : version'[u] = version[u]
      BY <1>0, <3>1 DEF UpsertPartition, TypeOK
    <3>3. \A c \in Callers : held'[c] \subseteq held[c]
      BY <1>0, <1>1
    <3> QED BY <1>0, <1>1, <3>1, <3>2, <3>3 DEF LockInv, ReadCurrent, NoLostUpdate
  <2> QED BY <2>1, <2>2
<1> QED BY <1>2, <1>3, <1>4 DEF LockInv

-----------------------------------------------------------------------------
(* Theorems.                                                               *)

\* Every step keeps it.
LEMMA StepInv == IInv /\ [Next]_vars => IInv'
<1> SUFFICES ASSUME IInv, [Next]_vars PROVE IInv'
  OBVIOUS
<1>1. CASE UNCHANGED vars
  <2>1. TypeOK'
    BY <1>1 DEF IInv, TypeOK, vars, callerVars, txVars, catalog
  <2>2. ObjectInv'
    BY <1>1 DEF IInv, ObjectInv, vars, callerVars, txVars, catalog
  <2>3. UNCHANGED <<mode, cpc, failed, aborted, phase, version, rowLocks, files, partitions>>
    BY <1>1 DEF vars, callerVars, txVars, catalog
  <2>4. TasksOfWrites' /\ LockedRows' /\ Exclusive' /\ TasksHoldRows'
    BY <2>3 DEF IInv, RowInv, TasksOfWrites, LockedRows, Exclusive, TasksHoldRows, WithTx,
       Open, Healthy
  <2>5. AbortSeen' /\ CommittedEnded' /\ Counted'
    BY <2>3 DEF IInv, RowInv, AbortSeen, CommittedEnded, Counted, FilesOf, WithTx
  <2>6. ViewInv'
    BY <1>1 DEF IInv, ViewInv, TuplesLeft, Open, WithTx, vars, callerVars, txVars, catalog
  <2>7. SlotInv'
    BY <1>1 DEF IInv, SlotInv, WithTx, vars, callerVars, txVars, catalog
  <2>8. LockInv'
    BY <1>1 DEF IInv, LockInv, HoldsAsked, OneHolder, ReadCurrent, NoLostUpdate, Open,
       WithTx, vars, callerVars, txVars, catalog
  <2> QED BY <2>1, <2>2, <2>4, <2>5, <2>6, <2>7, <2>8 DEF IInv, RowInv
<1>2. ASSUME NEW c \in Callers, CallerStep(c) PROVE IInv'
  BY <1>2, CallerType, CallerRows, CallerObjects, CallerViews, CallerSlots, CallerLocks
  DEF IInv
<1>3. ASSUME NEW t \in Tasks, Progress(t) \/ Error(t) PROVE IInv'
  BY <1>3, TaskType, TaskRows, TaskObjects, TaskViews, TaskSlots, TaskLocks DEF IInv
<1> QED BY <1>1, <1>2, <1>3 DEF Next

\* It holds always.
LEMMA Invariant == Spec => []IInv
<1> QED BY InitInv, StepInv, PTL DEF Spec

\* Every variable of callers, tasks, transactions and catalog has its type.
THEOREM TypeCorrect == Spec => []TypeOK
<1>1. IInv => TypeOK
  BY DEF IInv
<1> QED BY <1>1, Invariant, PTL

\* partitions.version counts the committed files of a partition and numbers them
\* without a gap or a duplicate, when Writes of several partitions in transactions
\* of their own and callers' transactions commit, roll back and are aborted in
\* any order (write.go:upsertPartition's row lock, executor.go:WithTx).
THEOREM VersionsAreDense == Spec => []VersionsDense
<1>1. IInv => VersionsDense
  BY DEF IInv, RowInv, Counted, VersionsDense
<1> QED BY <1>1, Invariant, PTL

\* A committed file has its object and no pending row, and an object is a
\* committed file's or has a pending row, also when the file row is committed in
\* a caller's transaction long after its object was put (write.go: the detached
\* pending row, and its deletion inside the wrapping transaction).
THEOREM RowsAndObjectsAreTracked == Spec => []RowsObjectsTracked
<1>1. IInv => RowsObjectsTracked
  <2> SUFFICES ASSUME IInv PROVE RowsObjectsTracked
    OBVIOUS
  <2>1. files \subseteq Tasks /\ objects \subseteq Tasks
    BY DEF IInv, TypeOK
  <2> QED BY <2>1 DEF IInv, ObjectInv, RowsObjectsTracked
<1> QED BY <1>1, Invariant, PTL

\* The view has exactly the tuples that the records of committed files emit,
\* whichever transaction inserted a tuple first, and whichever of those that met
\* on it were rolled back (materialized_view.go:insertMVRows, ON CONFLICT DO
\* NOTHING in the wrapping transaction).
THEOREM ViewsFollow == Spec => []ViewsFollowFiles
<1>1. IInv => ViewsFollowFiles
  BY DEF IInv, ViewInv, ViewsFollowFiles
<1> QED BY <1>1, Invariant, PTL

\* The results of a Write that has returned: a slot that is filled is its task's
\* version, in pool mode of a committed row; without an error every slot is
\* filled; the rows of a caller's transaction are committed together or not at
\* all (write.go:Write's results, errgroup's first error, executor.go:WithTx).
THEOREM SlotsTell == Spec => []SlotsTellCommits
<1>1. IInv => SlotsTellCommits
  <2> SUFFICES ASSUME IInv, NEW c \in Callers, cpc[c] \in {"returned", "ended"},
                      NEW t \in TasksOf(c), phase[t] # "none"
               PROVE  /\ out[t] # 0 => out[t] = version[t] /\ phase[t] = "done"
                      /\ ~failed[c] => out[t] # 0
                      /\ (~WithTx(c) /\ out[t] # 0) => t \in files
                      /\ (WithTx(c) /\ t \in files) =>
                           \A u \in TasksOf(c) : phase[u] # "none" => u \in files
    BY DEF SlotsTellCommits
  <2>1. t \in Tasks /\ t[1] = c /\ phase[t] \in {"done", "failed"}
    BY DEF IInv, RowInv, TasksOfWrites, TasksOf, Ended
  <2>2. version[t] \in Nat
    BY <2>1 DEF IInv, TypeOK, Versions
  <2> QED BY <2>1, <2>2 DEF IInv, SlotInv
<1> QED BY <1>1, Invariant, PTL

\* Between the read of a transaction that holds a partition's lock and its write
\* of that partition no transaction that asks for the lock commits a write of it,
\* whatever keys collide in the hash, and however transactions end
\* (lock.go:LockPartition, the advisory lock of the transaction).
THEOREM NoUpdateIsLost == Spec => []NoLostUpdate
<1>1. IInv => NoLostUpdate
  BY DEF IInv, LockInv
<1> QED BY <1>1, Invariant, PTL

=============================================================================
