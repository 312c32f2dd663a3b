------------------------------ MODULE CallerTx ------------------------------
(***************************************************************************)
(* Store.Write with all its partitions, and a caller's own transaction     *)
(* around it.  A caller either calls Write in pool mode, where each        *)
(* partition is written by a task with a transaction of its own, or begins *)
(* a transaction, takes partition locks in it (lock.go), reads, calls      *)
(* Write under WithTx (executor.go), and commits or rolls back.            *)
(*                                                                         *)
(* WritePath has the steps of one partition's write, its tokens, expected  *)
(* versions and lost answers.  Here a write takes fewer steps, and what    *)
(* counts is what transactions share: the connections of the pool, the     *)
(* worker pool's slots, the row locks, the advisory locks, the             *)
(* materialized view's unique tuples.                                      *)
(* Each caller writes once (bound), so a task is a caller and a partition, *)
(* and stands for the S3 key it generates.                                 *)
(***************************************************************************)
EXTENDS Integers, Sequences, FiniteSets

CONSTANTS
  Callers,
  Partitions,   \* partition keys, as numbers in the order of the strings
  Batch,        \* the partitions of the records that each caller writes
  PoolSize,     \* connections in the pgx pool
  Slots,        \* MaxConcurrent of the worker pool
  Struck,       \* bound: callers whose Write errors from outside may strike
  LockKey,      \* lockKey: the 64-bit hash of each partition key
  MvOf          \* for each partition, the tuples its records emit, in order

ASSUME CallerAssumption ==
  /\ Partitions \subseteq Int
  /\ PoolSize \in Nat \ {0}
  /\ Slots \in Nat \ {0}
  /\ Struck \subseteq Callers
  /\ Batch \in [Callers -> (SUBSET Partitions) \ {{}}]
  /\ Partitions \subseteq DOMAIN LockKey
  /\ Partitions \subseteq DOMAIN MvOf

VARIABLES
  mode,         \* pool, or tx: WithTx
  cpc,          \* what each caller does
  asked,        \* the partitions whose lock its transaction has asked for
  held,         \* those it was given
  read,         \* the version of a partition when it was given its lock
  failed,       \* a task of its Write has failed: the group's ctx is cancelled
  aborted,      \* a statement of its transaction has failed
  out,          \* the result slots of its Write: a version, 0 for the zero FileRef
  phase,        \* what each task does next
  version,      \* the version each task's upsert returned
  rowLocks,     \* tasks whose row lock an open transaction holds
  tuples,       \* <<task, tuple>>: tuples inserted and not committed
  files,        \* tasks whose file row is committed, that is visible
  partitions,   \* committed version of each partition
  mv,           \* committed tuples of the materialized view
  pending,      \* s3pgstore_pending_writes
  objects       \* the bucket

callerVars == <<mode, cpc, asked, held, read, failed, aborted, out>>
txVars     == <<version, rowLocks, tuples>>
catalog    == <<files, partitions, mv>>
vars       == <<callerVars, phase, txVars, catalog, pending, objects>>

Tasks       == Callers \X Partitions
Versions    == Nat
TuplesOf(t) == {MvOf[t[2]][i] : i \in 1 .. Len(MvOf[t[2]])}
Tuples      == UNION {TuplesOf(t) : t \in Tasks}

InPoolTx == {"upsert", "put", "mv"}
Ended    == {"none", "done", "failed"}
Phases   == Ended \cup InPoolTx \cup {"queued", "track", "begin", "cleanup"}
InCall   == {"lock", "writing"}

TypeOK ==
  /\ mode \in [Callers -> {"pool", "tx"}]
  /\ cpc \in [Callers -> {"idle", "open", "returned", "ended"} \cup InCall]
  /\ asked \in [Callers -> SUBSET Partitions]
  /\ held \in [Callers -> SUBSET Partitions]
  /\ read \in [Tasks -> Versions \cup {-1}]
  /\ failed \in [Callers -> BOOLEAN]
  /\ aborted \in [Callers -> BOOLEAN]
  /\ out \in [Tasks -> Versions]
  /\ phase \in [Tasks -> Phases]
  /\ version \in [Tasks -> Versions]
  /\ rowLocks \subseteq Tasks
  /\ tuples \subseteq Tasks \X Tuples
  /\ files \subseteq Tasks
  /\ partitions \in [Partitions -> Versions]
  /\ mv \subseteq Tuples
  /\ pending \subseteq Tasks
  /\ objects \subseteq Tasks
  /\ \A c \in Callers : held[c] \subseteq asked[c]

Init ==
  /\ mode = [c \in Callers |-> "pool"]
  /\ cpc = [c \in Callers |-> "idle"]
  /\ asked = [c \in Callers |-> {}]
  /\ held = [c \in Callers |-> {}]
  /\ read = [t \in Tasks |-> -1]
  /\ failed = [c \in Callers |-> FALSE]
  /\ aborted = [c \in Callers |-> FALSE]
  /\ out = [t \in Tasks |-> 0]
  /\ phase = [t \in Tasks |-> "none"]
  /\ version = [t \in Tasks |-> 0]
  /\ rowLocks = {}
  /\ tuples = {}
  /\ files = {}
  /\ partitions = [p \in Partitions |-> 0]
  /\ mv = {}
  /\ pending = {}
  /\ objects = {}

-----------------------------------------------------------------------------
(* Transactions, connections and locks.  A transaction is named by its     *)
(* caller or by its task.                                                  *)

WithTx(c) == mode[c] = "tx"
TxOf(t)   == IF WithTx(t[1]) THEN <<t[1]>> ELSE t
Txs       == {<<c>> : c \in Callers} \cup Tasks

TasksOf(c) == {t \in Tasks : t[1] = c}
Open(c)    == WithTx(c) /\ cpc[c] \in {"open", "returned"} \cup InCall

HoldsConn(t) == ~WithTx(t[1]) /\ phase[t] \in InPoolTx

ConnFree ==
  Cardinality({c \in Callers : Open(c)}) + Cardinality({t \in Tasks : HoldsConn(t)})
    < PoolSize

\* A task has its slot from its submission to its end.
HoldsSlot(t) == phase[t] \notin Ended \cup {"queued"}

SlotFree == Cardinality({t \in Tasks : HoldsSlot(t)}) < Slots

RowFree(t) == \A u \in rowLocks : u[2] = t[2] => TxOf(u) = TxOf(t)

\* The tuples of t, counted in its own order, that the view does not have.
TuplesLeft(t) ==
  {i \in 1 .. Len(MvOf[t[2]]) :
     MvOf[t[2]][i] \notin mv \cup {x[2] : x \in {y \in tuples : y[1] = t}}}

\* The first of them; 0 when there is none left.
NextTuple(t) ==
  IF TuplesLeft(t) = {} THEN 0
  ELSE CHOOSE i \in TuplesLeft(t) : \A j \in TuplesLeft(t) : i <= j

\* Open transactions of others that have inserted a tuple.
TupleHolders(t, m) == {x[1] : x \in {y \in tuples : y[2] = m /\ TxOf(y[1]) # TxOf(t)}}

\* pg_advisory_xact_lock: on the hash of the key.
LockHolders(c, p) ==
  {d \in Callers \ {c} : \E q \in held[d] : LockKey[q] = LockKey[p]}

AwaitsLock(c) == IF cpc[c] = "lock" THEN asked[c] \ held[c] ELSE {}

\* Transaction x waits for transaction y in PostgreSQL.
WaitsFor(x, y) ==
  \/ \E c \in Callers, d \in Callers : x = <<c>> /\ y = <<d>> /\
       \E p \in AwaitsLock(c) : d \in LockHolders(c, p)
  \/ \E t \in Tasks : TxOf(t) = x /\ x # y /\
       \/ phase[t] = "upsert" /\ \E u \in rowLocks : u[2] = t[2] /\ TxOf(u) = y
       \/ /\ phase[t] = "mv" /\ NextTuple(t) # 0
          /\ \E u \in TupleHolders(t, MvOf[t[2]][NextTuple(t)]) : TxOf(u) = y

\* Transactions each of which waits for one of them, and one for it.
InCycle(x) ==
  \E y \in Txs : WaitsFor(x, y) /\
    \E others \in SUBSET (Txs \ {x}) :
      LET S == others \cup {x} IN
        /\ y \in S
        /\ \A u \in S : (\E v \in S : WaitsFor(u, v)) /\ (\E v \in S : WaitsFor(v, u))

\* The transaction of a task, or of a caller, ends: what it holds is released.
Release(t) ==
  /\ rowLocks' = rowLocks \ {t}
  /\ tuples' = {x \in tuples : x[1] # t}

ReleaseCaller(c) ==
  /\ rowLocks' = rowLocks \ TasksOf(c)
  /\ tuples' = {x \in tuples : x[1] \notin TasksOf(c)}
  /\ held' = [held EXCEPT ![c] = {}]

\* An error of a statement: PostgreSQL aborts the transaction at once.
AbortCallerTx(c) ==
  /\ aborted' = [aborted EXCEPT ![c] = TRUE]
  /\ ReleaseCaller(c)

-----------------------------------------------------------------------------
(* The caller.                                                             *)

Call(c, from, to) ==
  /\ cpc[c] = from
  /\ cpc' = [cpc EXCEPT ![c] = to]

\* Write: one task for each partition of its records, through the worker pool.
FanOut(c) ==
  phase' = [t \in Tasks |->
              IF t[1] = c /\ t[2] \in Batch[c] THEN "queued" ELSE phase[t]]

WriteInPool(c) ==
  /\ Call(c, "idle", "writing")
  /\ FanOut(c)
  /\ UNCHANGED <<mode, asked, held, read, failed, aborted, out, txVars, catalog,
                 pending, objects>>

BeginCallerTx(c) ==
  /\ Call(c, "idle", "open")
  /\ ConnFree
  /\ mode' = [mode EXCEPT ![c] = "tx"]
  /\ UNCHANGED <<asked, held, read, failed, aborted, out,
                 phase, txVars, catalog, pending, objects>>

\* LockPartition up to its wait.
AskLock(c) ==
  \E p \in Partitions \ asked[c] :
    /\ ~aborted[c]
    /\ Call(c, "open", "lock")
    /\ asked' = [asked EXCEPT ![c] = @ \cup {p}]
    /\ UNCHANGED <<mode, held, read, failed, aborted, out,
                   phase, txVars, catalog, pending, objects>>

\* Faulty: the statement is autocommitted, and its lock gone when it returns.
LockGrantedToAll(c) ==
  /\ Call(c, "lock", "open")
  /\ held' = [held EXCEPT ![c] = asked[c]]
  /\ read' = [t \in Tasks |-> IF t[1] = c /\ t[2] \in AwaitsLock(c)
                              THEN partitions[t[2]] ELSE read[t]]
  /\ UNCHANGED <<mode, asked, failed, aborted, out, phase, txVars, catalog,
                 pending, objects>>

\* The caller reads as soon as it has the lock: a later read is less to protect.
LockGranted(c) ==
  /\ Call(c, "lock", "open")
  /\ \A p \in AwaitsLock(c) : LockHolders(c, p) = {}
  /\ held' = [held EXCEPT ![c] = asked[c]]
  /\ read' = [t \in Tasks |-> IF t[1] = c /\ t[2] \in AwaitsLock(c)
                              THEN partitions[t[2]] ELSE read[t]]
  /\ UNCHANGED <<mode, asked, failed, aborted, out, phase, txVars, catalog,
                 pending, objects>>

\* ErrLockTimeout, when this call or an earlier one of the transaction has set
\* lock_timeout, or the deadlock error: the transaction is aborted.
LockFails(c) ==
  /\ Call(c, "lock", "returned")
  /\ \E p \in AwaitsLock(c) : LockHolders(c, p) # {}
  /\ failed' = [failed EXCEPT ![c] = TRUE]
  /\ AbortCallerTx(c)
  /\ UNCHANGED <<mode, asked, read, out, phase, version, catalog,
                 pending, objects>>

WriteInTx(c) ==
  /\ Call(c, "open", "writing")
  /\ FanOut(c)
  /\ UNCHANGED <<mode, asked, held, read, failed, aborted, out, txVars, catalog,
                 pending, objects>>

\* g.Wait: Write returns when every task has.
WriteReturns(c) ==
  /\ Call(c, "writing", "returned")
  /\ \A t \in TasksOf(c) : phase[t] \in Ended
  /\ UNCHANGED <<mode, asked, held, read, failed, aborted, out,
                 phase, txVars, catalog, pending, objects>>

Visible(ts) ==
  /\ files' = files \cup ts
  /\ partitions' = [p \in Partitions |->
                      LET mine == {t \in ts : t[2] = p} IN
                        IF mine = {} THEN partitions[p]
                        ELSE version[CHOOSE t \in mine : TRUE]]
  /\ mv' = mv \cup {x[2] : x \in {y \in tuples : y[1] \in ts}}
  /\ pending' = pending \ ts

\* A caller commits only when Write has returned no error.
CommitCallerTx(c) ==
  /\ Call(c, "returned", "ended")
  /\ WithTx(c) /\ ~failed[c]
  /\ Visible({t \in TasksOf(c) : phase[t] = "done"})
  /\ ReleaseCaller(c)
  /\ UNCHANGED <<mode, asked, read, failed, aborted, out,
                 phase, version, objects>>

\* Faulty: the advisory locks are those of the session, and outlive it.
RollbackKeepsLocks(c) ==
  /\ Call(c, "open", "ended") \/ Call(c, "returned", "ended")
  /\ WithTx(c)
  /\ rowLocks' = rowLocks \ TasksOf(c)
  /\ tuples' = {x \in tuples : x[1] \notin TasksOf(c)}
  /\ UNCHANGED <<mode, asked, held, read, failed, aborted, out,
                 phase, version, catalog, pending, objects>>

\* After an error, or for a reason of the caller's own.
RollbackCallerTx(c) ==
  /\ Call(c, "open", "ended") \/ Call(c, "returned", "ended")
  /\ WithTx(c)
  /\ ReleaseCaller(c)
  /\ UNCHANGED <<mode, asked, read, failed, aborted, out,
                 phase, version, catalog, pending, objects>>

-----------------------------------------------------------------------------
(* A task: writePartition.                                                 *)

Step(t, from, to) ==
  /\ phase[t] = from
  /\ phase' = [phase EXCEPT ![t] = to]

\* The connection a task's statements run on is not lost to an error.
Healthy(t) == WithTx(t[1]) => ~aborted[t[1]]

\* Group.Submit, for one partition after the other: it waits for a slot, and the
\* task is skipped when the group is cancelled before it has one.
StartTask(t) ==
  /\ \A u \in TasksOf(t[1]) : phase[u] = "queued" => t[2] <= u[2]
  /\ \/ SlotFree /\ Step(t, "queued", "track")
     \/ failed[t[1]] /\ Step(t, "queued", "failed")
  /\ UNCHANGED <<callerVars, txVars, catalog, pending, objects>>

\* insertPendingWriteDetachedTx: on a connection of its own, also under WithTx.
TrackPending(t) ==
  /\ IF WithTx(t[1]) THEN Step(t, "track", "upsert") ELSE Step(t, "track", "begin")
  /\ ConnFree
  /\ pending' = pending \cup {t}
  /\ UNCHANGED <<callerVars, txVars, catalog, objects>>

\* RunInTx in pool mode.
BeginTx(t) ==
  /\ Step(t, "begin", "upsert")
  /\ ConnFree
  /\ UNCHANGED <<callerVars, txVars, catalog, pending, objects>>

\* Faulty: the upsert does not wait for the row.
UpsertAtOnce(t) ==
  /\ Step(t, "upsert", "put")
  /\ version' = [version EXCEPT ![t] = partitions[t[2]] + 1]
  /\ rowLocks' = rowLocks \cup {t}
  /\ UNCHANGED <<callerVars, tuples, catalog, pending, objects>>

\* upsertPartition and insertFile.
UpsertPartition(t) ==
  /\ Step(t, "upsert", "put")
  /\ Healthy(t) /\ RowFree(t)
  /\ version' = [version EXCEPT ![t] = partitions[t[2]] + 1]
  /\ rowLocks' = rowLocks \cup {t}
  /\ UNCHANGED <<callerVars, tuples, catalog, pending, objects>>

Put(t) ==
  /\ Step(t, "put", "mv")
  /\ objects' = objects \cup {t}
  /\ UNCHANGED <<callerVars, txVars, catalog, pending>>

\* Faulty: the views are written outside of the wrapping transaction.
InsertMvRowDetached(t) ==
  /\ NextTuple(t) # 0
  /\ phase[t] = "mv"
  /\ mv' = mv \cup {MvOf[t[2]][NextTuple(t)]}
  /\ UNCHANGED <<callerVars, phase, txVars, files, partitions, pending, objects>>

\* insertMVRows, ON CONFLICT DO NOTHING: a tuple that another transaction has
\* inserted and not committed is waited for.
InsertMvRow(t) ==
  \E i \in 1 .. Len(MvOf[t[2]]) :
    /\ phase[t] = "mv"
    /\ Healthy(t) /\ i = NextTuple(t)
    /\ TupleHolders(t, MvOf[t[2]][i]) = {}
    /\ tuples' = tuples \cup {<<t, MvOf[t[2]][i]>>}
    /\ UNCHANGED <<callerVars, phase, version, rowLocks, catalog, pending, objects>>

\* Faulty: the slot of the task that ends, not of its partition.
FillSlotInOrder(t) ==
  LET used == {u \in TasksOf(t[1]) : out[u] # 0}
      slot == CHOOSE u \in TasksOf(t[1]) \ used : phase[u] # "none"
  IN  out' = [out EXCEPT ![slot] = version[t]]

FillSlot(t) == out' = [out EXCEPT ![t] = version[t]]

\* pending_writes and the NOTIFY besides.  Under WithTx the task ends before its
\* statements are committed.
TaskDone(t) ==
  /\ Step(t, "mv", "done")
  /\ WithTx(t[1]) /\ Healthy(t) /\ TuplesLeft(t) = {}
  /\ FillSlot(t)
  /\ UNCHANGED <<mode, cpc, asked, held, read, failed, aborted, txVars, catalog,
                 pending, objects>>

Commit(t) ==
  /\ Step(t, "mv", "done")
  /\ ~WithTx(t[1]) /\ TuplesLeft(t) = {}
  /\ Visible({t})
  /\ Release(t)
  /\ FillSlot(t)
  /\ UNCHANGED <<mode, cpc, asked, held, read, failed, aborted, version, objects>>

-----------------------------------------------------------------------------
(* Its errors.  The first one cancels the group.                           *)

Fails(t, from, to) ==
  /\ Step(t, from, to)
  /\ failed' = [failed EXCEPT ![t[1]] = @ \/ to = "failed"]

StatementFails(t) ==
  IF WithTx(t[1]) THEN AbortCallerTx(t[1]) ELSE Release(t) /\ UNCHANGED <<aborted, held>>

\* Errors that are none of the transaction's leave a caller's transaction as it
\* is, the rows of the task in it.
OtherwiseFails(t) ==
  IF WithTx(t[1]) THEN UNCHANGED <<aborted, held, rowLocks, tuples>>
  ELSE Release(t) /\ UNCHANGED <<aborted, held>>

\* Faulty: the pending row is removed whether or not the PUT was sent.
FailsAndUntracks(t) ==
  /\ Fails(t, phase[t], "cleanup")
  /\ phase[t] \in InPoolTx
  /\ StatementFails(t)
  /\ UNCHANGED <<mode, cpc, asked, read, out, version, catalog,
                 pending, objects>>

\* The pending row may be there; the transaction was not begun.
TrackFails(t) ==
  /\ Fails(t, "track", "failed")
  /\ pending' \in {pending, pending \cup {t}}
  /\ UNCHANGED <<mode, cpc, asked, held, read, aborted, out,
                 txVars, catalog, objects>>

\* Before the PUT: a statement, "conn busy" while a sibling's statement runs on
\* the caller's connection, BuildS3Metadata, a cancelled ctx.
FailsBeforePut(t) ==
  /\ phase[t] \in {"begin", "upsert", "put"}
  /\ Fails(t, phase[t], "cleanup")
  /\ StatementFails(t) \/ OtherwiseFails(t)
  /\ UNCHANGED <<mode, cpc, asked, read, out, version, catalog,
                 pending, objects>>

\* From the PUT on: it may have taken effect, COMMIT too.
FailsAfterPut(t) ==
  /\ phase[t] \in {"put", "mv"}
  /\ Fails(t, phase[t], "failed")
  /\ StatementFails(t) \/ OtherwiseFails(t)
  /\ phase[t] = "put" \/ UNCHANGED objects
  /\ objects' \in {objects, objects \cup {t}}
  /\ UNCHANGED <<mode, cpc, asked, read, out, version, catalog, pending>>

CommitUnknown(t) ==
  /\ Fails(t, "mv", "failed")
  /\ ~WithTx(t[1]) /\ TuplesLeft(t) = {}
  /\ Visible({t})
  /\ Release(t)
  /\ UNCHANGED <<mode, cpc, asked, held, read, aborted, out, version, objects>>

\* deletePendingWriteDetachedTx, best effort.
CleanUp(t) ==
  /\ Fails(t, "cleanup", "failed")
  /\ \/ ConnFree /\ pending' = pending \ {t}
     \/ pending' = pending
  /\ UNCHANGED <<mode, cpc, asked, held, read, aborted, out,
                 txVars, catalog, objects>>

\* PostgreSQL aborts a statement that waits, when it finds a cycle of waits.
DeadlockVictim(t) == phase[t] \in {"upsert", "mv"} /\ InCycle(TxOf(t))

\* Tasks that are cancelled or part of a deadlock fail besides.
MayFail(t) == t[1] \in Struck \/ failed[t[1]] \/ DeadlockVictim(t)

Error(t) ==
  /\ MayFail(t)
  /\ \/ TrackFails(t)
     \/ FailsBeforePut(t)
     \/ FailsAfterPut(t)
     \/ CommitUnknown(t)

-----------------------------------------------------------------------------
Progress(t) ==
  \/ StartTask(t)
  \/ TrackPending(t)
  \/ BeginTx(t)
  \/ UpsertPartition(t)
  \/ Put(t)
  \/ InsertMvRow(t)
  \/ TaskDone(t)
  \/ Commit(t)
  \/ CleanUp(t)

CallerStep(c) ==
  \/ WriteInPool(c)
  \/ BeginCallerTx(c)
  \/ AskLock(c)
  \/ LockGranted(c)
  \/ LockFails(c)
  \/ WriteInTx(c)
  \/ WriteReturns(c)
  \/ CommitCallerTx(c)
  \/ RollbackCallerTx(c)

Next ==
  \/ \E c \in Callers : CallerStep(c)
  \/ \E t \in Tasks : Progress(t) \/ Error(t)

Spec == Init /\ [][Next]_vars

-----------------------------------------------------------------------------
(* Safety.                                                                 *)

FilesOf(p) == {t \in files : t[2] = p}

\* A partition's version counts its committed rows and no two rows share one,
\* whichever of them come from callers' transactions, and however these end.
VersionsDense ==
  \A p \in Partitions :
    /\ {version[t] : t \in FilesOf(p)} = 1 .. partitions[p]
    /\ Cardinality(FilesOf(p)) = partitions[p]

\* proposal-v2.0, LockPartition: no holder of the lock on a partition writes
\* between another's read and write; a write that does come between is one that
\* has not asked for the lock.
NoLostUpdate ==
  \A t, u \in files :
    (t[2] = u[2] /\ read[t] # -1 /\ read[t] < version[u] /\ version[u] < version[t])
      => u[2] \notin asked[u[1]]

\* The slots that Write returns.  In pool mode a slot that is filled is a
\* committed row of its partition, one that is not can be of a row whose
\* commit was not answered, and no error means that every slot is filled.
\* Under WithTx the rows are the caller's to commit: all of them, or none.
SlotsTellCommits ==
  \A c \in Callers : cpc[c] \in {"returned", "ended"} =>
    LET written == {t \in TasksOf(c) : phase[t] # "none"} IN
      /\ \A t \in written : out[t] # 0 => out[t] = version[t] /\ phase[t] = "done"
      /\ ~failed[c] => \A t \in written : out[t] # 0
      /\ ~WithTx(c) => \A t \in written : out[t] # 0 => t \in files
      /\ WithTx(c) => written \cap files \in {{}, written}

\* A lookup finds the tuples of the partitions that have committed files, no
\* more and no less, whatever was rolled back and whoever inserted them first.
ViewsFollowFiles ==
  mv = UNION {TuplesOf(t) : t \in files}

\* What readers and the collector rely on, for rows of callers' transactions
\* too, provided callers do not commit after an error.
RowsObjectsTracked ==
  /\ files \subseteq objects
  /\ files \cap pending = {}
  /\ objects \subseteq files \cup pending

-----------------------------------------------------------------------------
(* Liveness.  What waits in PostgreSQL is granted when it is free, or is   *)
(* aborted as a deadlock's victim; a cancelled ctx ends every wait of its  *)
(* tasks; a caller with an open transaction goes on with it.  Calls have   *)
(* no deadline.  A caller and its tasks take finitely many steps, so it is *)
(* enough that one of them is taken while any can be.                      *)

DeadlockAborts(t) ==
  /\ DeadlockVictim(t)
  /\ FailsBeforePut(t) \/ FailsAfterPut(t)

\* The group's ctx is cancelled, or the caller's transaction is aborted.
GivesUp(t) ==
  /\ failed[t[1]] \/ ~Healthy(t)
  /\ phase[t] # "queued"
  /\ Error(t) \/ CleanUp(t)

TaskGoesOn(t) ==
  \/ StartTask(t) \/ TrackPending(t) \/ BeginTx(t) \/ UpsertPartition(t)
  \/ Put(t) \/ InsertMvRow(t) \/ TaskDone(t) \/ Commit(t)
  \/ ConnFree /\ CleanUp(t)
  \/ DeadlockAborts(t)
  \/ GivesUp(t)

CallerGoesOn(c) ==
  \/ LockGranted(c)
  \/ LockFails(c) /\ InCycle(<<c>>)
  \/ WriteInTx(c) \/ WriteReturns(c)
  \/ CommitCallerTx(c) \/ RollbackCallerTx(c)
  \/ \E t \in TasksOf(c) : TaskGoesOn(t)

Fairness == WF_vars(\E c \in Callers : CallerGoesOn(c))

FairSpec == Spec /\ Fairness

\* Every connection is taken, and a task under WithTx waits for a second one
\* while its caller's transaction holds the first.
PoolStuck ==
  ~ConnFree /\ \E t \in Tasks : WithTx(t[1]) /\ phase[t] \in {"track", "cleanup"}

\* Every slot is held by a task, and a Write under WithTx waits for one while its
\* caller's transaction holds a connection, and the rows of its first partitions.
SlotsStuck ==
  ~SlotFree /\ \E t \in Tasks : WithTx(t[1]) /\ phase[t] = "queued"

\* write.go, on the pending row's place before the transaction: no call hangs,
\* in whatever order locks are taken and however few connections and slots there
\* are, unless a caller's transaction wants one more while others wait for it.
EveryCallReturns ==
  \/ []<>PoolStuck
  \/ []<>SlotsStuck
  \/ []<>(\A c \in Callers : cpc[c] \notin InCall)

=============================================================================
