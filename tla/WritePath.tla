----------------------------- MODULE WritePath -----------------------------
(***************************************************************************)
(* Store.Write's inner path, writePartition (write.go), in pool mode: each *)
(* call opens its own READ COMMITTED transaction through Executor.RunInTx. *)
(* A writer w is one goroutine inside writePartition, in any process; it   *)
(* makes calls one after another, so a caller's retry is a later call with *)
(* the same arguments, by the same writer or by another.                   *)
(*                                                                         *)
(* pc[w] names the statement w is about to run.  Transaction-local rows    *)
(* live in tx[w] until Commit; the row lock that the partition upsert      *)
(* takes is held by exactly the writers between that statement and the end *)
(* of their transaction.  Any step can fail or be the last one before a    *)
(* crash, and an error from COMMIT leaves its outcome unknown to w.        *)
(***************************************************************************)
EXTENDS Catalog

CONSTANTS
  Writers,      \* goroutines that call writePartition
  Expected,     \* passed to WithExpectedVersion; one below 0 acts as 0
  NoExpect      \* the option was not passed

ASSUME WriteAssumption ==
  /\ Partitions # {}
  /\ Expected \subseteq Nat
  /\ NoExpect \notin Nat

VARIABLES
  pc,           \* what each writer does next
  op,           \* the arguments of its call
  tx,           \* the locals of its call: key, tx start, version, file id
  acked         \* history: the FileRefs returned without an error, with op

writeVars == <<pc, op, tx, acked>>
vars == <<catalogVars, writeVars>>

Ops == [part : Partitions, token : Tokens \cup {NoToken},
        expect : Expected \cup {NoExpect}]

\* InTx: the wrapping transaction is open.  HoldsRow: it has upserted its
\* partition's row, and its lock on the row lasts until the end of it.
PrePut    == {"insert", "put"}
PutDone   == {"putting", "untrack", "commit"}
HoldsRow  == PrePut \cup PutDone
InTx      == {"upsert"} \cup HoldsRow
Aborted   == {"failed", "conflict", "raceLost"}
Phases    == {"idle", "lookup", "track", "begin", "relookup"} \cup InTx \cup Aborted

\* What op and tx hold between calls.
NoOp == [part |-> CHOOSE p \in Partitions : TRUE,
         token |-> NoToken, expect |-> NoExpect]

NoTx == [key |-> 0, start |-> 0, version |-> 0, fileId |-> 0]

TxLocals == [key : Keys \cup {0}, start : Times, version : Nat,
             fileId : FileIds \cup {0}]

WriteTypeOK ==
  /\ pc \in [Writers -> Phases]
  /\ op \in [Writers -> Ops]
  /\ tx \in [Writers -> TxLocals]
  /\ acked \subseteq [op : Ops, ref : FileRow, fresh : BOOLEAN]

TypeOK == CatalogTypeOK /\ WriteTypeOK

Init ==
  /\ CatalogInit
  /\ pc = [w \in Writers |-> "idle"]
  /\ op = [w \in Writers |-> NoOp]
  /\ tx = [w \in Writers |-> NoTx]
  /\ acked = {}

-----------------------------------------------------------------------------
Goto(w, from, to) ==
  /\ pc[w] \in from
  /\ pc' = [pc EXCEPT ![w] = to]

\* The call returns: its locals are gone, and its transaction with them.
Leave(w) ==
  /\ pc' = [pc EXCEPT ![w] = "idle"]
  /\ op' = [op EXCEPT ![w] = NoOp]
  /\ tx' = [tx EXCEPT ![w] = NoTx]

ReturnRef(w, row, fresh) ==
  /\ Leave(w)
  /\ acked' = acked \cup {[op |-> op[w], ref |-> row, fresh |-> fresh]}

ReturnErr(w) == Leave(w) /\ acked' = acked

\* Faulty: written_at is the clock at COMMIT.
RowStampedAtCommit(w) ==
  [id |-> tx[w].fileId, part |-> op[w].part, key |-> tx[w].key,
   token |-> op[w].token, version |-> tx[w].version, writtenAt |-> now]

RowOf(w) ==
  [id |-> tx[w].fileId, part |-> op[w].part, key |-> tx[w].key,
   token |-> op[w].token, version |-> tx[w].version, writtenAt |-> tx[w].start]

\* Faulty: the upsert takes no lock.
RowFreeAlways(p) == p \in Partitions

\* No other transaction holds the lock on partition p's row.
RowFree(p) == \A v \in Writers : pc[v] \in HoldsRow => op[v].part # p

-----------------------------------------------------------------------------
(* Before the wrapping transaction.                                        *)

StartCall(w) ==
  \E o \in Ops :
    /\ nextKey <= MaxKeys
    /\ Goto(w, {"idle"}, IF o.token = NoToken THEN "track" ELSE "lookup")
    /\ op' = [op EXCEPT ![w] = o]
    /\ UNCHANGED <<catalogVars, tx, acked>>

\* A lookup's rows decide what the call returns or where it goes on.
LookupHit(w) ==
  \E f \in TokenRows(op[w].part, op[w].token) :
    /\ ReturnRef(w, f, FALSE)
    /\ UNCHANGED catalogVars

LookupToken(w) ==
  /\ pc[w] = "lookup"
  /\ \/ LookupHit(w)
     \/ /\ TokenRows(op[w].part, op[w].token) = {}
        /\ Goto(w, {"lookup"}, "track")
        /\ UNCHANGED <<catalogVars, op, tx, acked>>

\* newS3Key, and the autocommitted insert on a connection of its own.  When
\* the connection breaks the row may be there and the call fails all the same.
TrackPending(w) ==
  /\ pc[w] = "track"
  /\ nextKey <= MaxKeys
  /\ nextKey' = nextKey + 1
  /\ \/ /\ Goto(w, {"track"}, "begin")
        /\ tx' = [tx EXCEPT ![w].key = nextKey]
        /\ PendingInsert(nextKey)
        /\ UNCHANGED <<op, acked>>
     \/ /\ ReturnErr(w)
        /\ PendingInsert(nextKey) \/ UNCHANGED pending
  /\ UNCHANGED <<now, files, partitions, objects, puts, nextFileId>>

-----------------------------------------------------------------------------
(* The wrapping transaction.                                               *)

BeginTx(w) ==
  /\ Goto(w, {"begin"}, "upsert")
  /\ tx' = [tx EXCEPT ![w].start = now]
  /\ UNCHANGED <<catalogVars, op, acked>>

\* Faulty: the version is not compared.
UpsertAnyVersion(w) ==
  /\ RowFree(op[w].part)
  /\ Goto(w, {"upsert"}, "insert")
  /\ tx' = [tx EXCEPT ![w].version = Bumped(partitions[op[w].part]).version]
  /\ UNCHANGED <<catalogVars, op, acked>>

\* Faulty: it waits for the expected version.
UpsertWaitsForVersion(w) == op[w].expect \in {NoExpect, partitions[op[w].part].version}
                            /\ UpsertAnyVersion(w)

\* WithExpectedVersion(N > 0) is a plain UPDATE: a row that is not at N is not
\* found, and not waited for.  The other forms are an upsert, which waits for
\* the row; WithExpectedVersion(0) updates it only at version 0.
UpsertPartition(w) ==
  LET p   == op[w].part
      exp == op[w].expect
      version == partitions[p].version
  IN
    /\ pc[w] = "upsert"
    /\ \/ /\ RowFree(p)
          /\ exp \in {NoExpect, version}
          /\ Goto(w, {"upsert"}, "insert")
          /\ tx' = [tx EXCEPT ![w].version = Bumped(partitions[p]).version]
       \/ /\ exp \notin {NoExpect, version}
          /\ exp = 0 => RowFree(p)
          /\ Goto(w, {"upsert"}, "conflict")
          /\ tx' = tx
    /\ UNCHANGED <<catalogVars, op, acked>>

\* Faulty: (partition_key, idempotency_token) is not UNIQUE.
InsertDuplicate(w) ==
  /\ nextFileId <= MaxKeys
  /\ nextFileId' = nextFileId + 1
  /\ Goto(w, {"insert"}, "put")
  /\ tx' = [tx EXCEPT ![w].fileId = nextFileId]
  /\ UNCHANGED <<now, files, partitions, pending, objects, puts, nextKey, op, acked>>

\* Faulty: RETURNING file_id is not read.
InsertWithoutId(w) ==
  /\ nextFileId <= MaxKeys
  /\ nextFileId' = nextFileId + 1
  /\ Goto(w, {"insert"}, "put")
  /\ UNCHANGED <<now, files, partitions, pending, objects, puts, nextKey, op, tx, acked>>

\* The sequence behind file_id moves even when the partial UNIQUE on
\* (partition_key, idempotency_token) refuses the row.
InsertFile(w) ==
  /\ nextFileId <= MaxKeys
  /\ nextFileId' = nextFileId + 1
  /\ \/ /\ TokenRows(op[w].part, op[w].token) = {}
        /\ Goto(w, {"insert"}, "put")
        /\ tx' = [tx EXCEPT ![w].fileId = nextFileId]
     \/ /\ TokenRows(op[w].part, op[w].token) # {}
        /\ Goto(w, {"insert"}, "raceLost")
        /\ tx' = tx
  /\ UNCHANGED <<now, files, partitions, pending, objects, puts, nextKey, op, acked>>

SendPut(w) ==
  /\ Goto(w, {"put"}, "putting")
  /\ puts' = puts \cup {[key |-> tx[w].key, sentAt |-> now]}
  /\ UNCHANGED <<now, files, partitions, pending, objects, nextKey, nextFileId,
                 op, tx, acked>>

\* Faulty: the call goes on before the PUT is answered.
PutNotAwaited(w) ==
  /\ Goto(w, {"putting"}, "untrack")
  /\ UNCHANGED <<catalogVars, op, tx, acked>>

PutAcked(w) ==
  /\ tx[w].key \in objects
  /\ Goto(w, {"putting"}, "untrack")
  /\ UNCHANGED <<catalogVars, op, tx, acked>>

\* DELETE pending_writes, then the MV inserts and pg_notify, all local to the
\* transaction until it commits.
UntrackPending(w) ==
  /\ Goto(w, {"untrack"}, "commit")
  /\ UNCHANGED <<catalogVars, op, tx, acked>>

\* Faulty: the pending_writes row is not deleted in the transaction.
CommitStillPending(w) ==
  /\ files' = files \cup {RowOf(w)}
  /\ partitions' = [partitions EXCEPT ![op[w].part] = Bumped(@)]
  /\ UNCHANGED <<now, pending, objects, puts, nextKey, nextFileId>>

\* What COMMIT makes visible, all of it at once.
CommitEffect(w) ==
  /\ files' = files \cup {RowOf(w)}
  /\ partitions' = [partitions EXCEPT ![op[w].part] = Bumped(@)]
  /\ PendingDelete(tx[w].key)
  /\ UNCHANGED <<now, objects, puts, nextKey, nextFileId>>

Commit(w) ==
  /\ pc[w] = "commit"
  /\ CommitEffect(w)
  /\ ReturnRef(w, RowOf(w), TRUE)

\* The commit took effect, the answer did not arrive.
CommitUnknown(w) ==
  /\ pc[w] = "commit"
  /\ CommitEffect(w)
  /\ ReturnErr(w)

-----------------------------------------------------------------------------
(* Errors.  RunInTx rolls back; nothing of the transaction remains.        *)

\* An error before the PUT: a statement, or BuildS3Metadata refusing a value.
FailBeforePut(w) ==
  /\ Goto(w, {"begin", "upsert"} \cup PrePut, "failed")
  /\ UNCHANGED <<catalogVars, op, tx, acked>>

\* An error once the PUT was sent, or one that keeps the cleanup from running
\* (a cancelled ctx, a crash): the pending_writes row is left to the GC.
FailAndLeave(w) ==
  /\ pc[w] \in Phases \ {"idle"}
  /\ ReturnErr(w)
  /\ UNCHANGED catalogVars

\* Faulty: every error of a call with a token is taken for a lost race.
CleanUpAsRace(w) ==
  /\ PendingDelete(tx[w].key)
  /\ Goto(w, Aborted, "relookup")
  /\ UNCHANGED <<now, files, partitions, objects, puts, nextKey, nextFileId,
                 op, tx, acked>>

\* deletePendingWriteDetachedTx, best effort, then translateWriteTxErr.
CleanUp(w) ==
  /\ \/ PendingDelete(tx[w].key)
     \/ UNCHANGED pending
  /\ \/ /\ Goto(w, {"raceLost"}, "relookup")
        /\ UNCHANGED <<op, tx, acked>>
     \/ /\ pc[w] \in {"failed", "conflict"}
        /\ ReturnErr(w)
  /\ UNCHANGED <<now, files, partitions, objects, puts, nextKey, nextFileId>>

\* The canonical row of a lost token race.  Finding none is an error
\* ("concurrent rollback").
Relookup(w) ==
  /\ pc[w] = "relookup"
  /\ \/ LookupHit(w)
     \/ /\ TokenRows(op[w].part, op[w].token) = {}
        /\ ReturnErr(w)
        /\ UNCHANGED catalogVars

-----------------------------------------------------------------------------
\* The steps a live writer takes when nothing fails.
Progress(w) ==
  \/ LookupToken(w)
  \/ TrackPending(w)
  \/ BeginTx(w)
  \/ UpsertPartition(w)
  \/ InsertFile(w)
  \/ SendPut(w)
  \/ PutAcked(w)
  \/ UntrackPending(w)
  \/ Commit(w)
  \/ CleanUp(w)
  \/ Relookup(w)

Failure(w) ==
  \/ CommitUnknown(w)
  \/ FailBeforePut(w)
  \/ FailAndLeave(w)

WriterStep(w) == StartCall(w) \/ Progress(w) \/ Failure(w)

BucketStep == (S3ApplyPut \/ S3LosePut) /\ UNCHANGED writeVars

Next == (\E w \in Writers : WriterStep(w)) \/ BucketStep

Spec == Init /\ [][Next]_vars

-----------------------------------------------------------------------------
(* Safety.                                                                 *)

FilesOf(p) == {f \in files : f.part = p}

\* A partition's row and its file rows agree at every moment a reader can look:
\* the versions of its files are 1 .. version without gap or duplicate, and
\* file_count counts them.  It rests on the row lock from upsert to COMMIT.
VersionsDense ==
  \A p \in Partitions :
    /\ {f.version : f \in FilesOf(p)} = 1 .. partitions[p].version
    /\ \A f, g \in FilesOf(p) : f.version = g.version => f = g
    /\ partitions[p].fileCount = partitions[p].version

\* A FileRef returned without an error names a committed row of the partition
\* asked for, and all answers to one (partition, token) name the same row,
\* however calls, retries, lost races and unknown commits interleave.
AnswersDurable ==
  \A a \in acked :
    /\ a.ref \in files
    /\ a.ref.part = a.op.part /\ a.ref.token = a.op.token
    /\ \A b \in acked :
         (a.op.token # NoToken /\ b.op.part = a.op.part /\ b.op.token = a.op.token)
           => b.ref = a.ref

\* The "concurrent rollback" error of translateWriteTxErr cannot happen in pool
\* mode: the row that refused the insert was committed, and stays.
RelookupHits ==
  \A w \in Writers :
    pc[w] \in {"raceLost", "relookup"} => TokenRows(op[w].part, op[w].token) # {}

\* WithExpectedVersion(N): the call that succeeds wrote version N + 1, so no
\* write came between the caller's reading N and its own, and of all the calls
\* that expected N of a partition only one wrote.
ExpectedVersionWins ==
  \A a \in acked :
    (a.fresh /\ a.op.expect # NoExpect) =>
      /\ a.ref.version = a.op.expect + 1
      /\ \A b \in acked :
           (b.fresh /\ b.op.part = a.op.part /\ b.op.expect = a.op.expect) => b = a

\* The collector deletes the object of any old pending row without looking at
\* s3pgstore_files: a committed row's key is never pending.
CommittedNotTracked == ReferencedKeys \cap TrackedKeys = {}

\* The object of a committed row is in the bucket.
CommittedHasObject == ReferencedKeys \subseteq objects

\* An object without a row is never lost sight of: whatever is in the bucket,
\* or may still arrive, is referenced by a row or tracked for the collector.
OrphansTracked == objects \cup InFlightKeys \subseteq ReferencedKeys \cup TrackedKeys

-----------------------------------------------------------------------------
(* What it implements.                                                     *)

\* The committed rows of a partition, read by version, are the log of
\* VersionedLog, and Commit is the atomic step of a write.
LogOf(p) ==
  [v \in 1 .. Cardinality(FilesOf(p)) |-> (CHOOSE f \in FilesOf(p) : f.version = v).token]

Atomic == INSTANCE VersionedLog WITH
  log     <- [p \in Partitions |-> LogOf(p)],
  answers <- {[op |-> a.op, version |-> a.ref.version] : a \in acked}

\* writePartition, with its lookups, locks, rollbacks and unknown outcomes, does
\* no more than append to a versioned log in one step and answer.
WritesAreAtomic == Atomic!Spec

\* proposal-v2.0: "Token dedup runs first (UNIQUE check on INSERT); OCC runs only
\* on genuinely new writes" - so no retry of a committed write is told
\* ErrVersionConflict.
RetryNeverConflicts ==
  \A w \in Writers : pc[w] = "conflict" => TokenRows(op[w].part, op[w].token) = {}

-----------------------------------------------------------------------------
(* Liveness.  A live goroutine keeps running; PostgreSQL grants a row lock *)
(* in the order it was asked for, hence strong fairness of the upsert; the *)
(* PUT ends with an answer or with an error.                               *)

PutEnds(w) == PutAcked(w) \/ (pc[w] = "putting" /\ FailAndLeave(w))

Fairness ==
  \A w \in Writers :
    /\ WF_vars(LookupToken(w) \/ BeginTx(w) \/ InsertFile(w) \/ SendPut(w)
               \/ UntrackPending(w) \/ Commit(w) \/ CleanUp(w) \/ Relookup(w))
    /\ SF_vars(UpsertPartition(w))
    /\ WF_vars(PutEnds(w))

FairSpec == Spec /\ Fairness

\* No call hangs: one lock per transaction is never part of a cycle, so every
\* call that has tracked its key returns.
CallsReturn ==
  \A w \in Writers :
    (pc[w] \in Phases \ {"idle", "lookup", "track"}) ~> (pc[w] = "idle")

=============================================================================
