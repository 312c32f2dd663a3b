------------------------------ MODULE Catalog ------------------------------
(***************************************************************************)
(* The state s3pgstore shares between its processes: the PostgreSQL        *)
(* catalog tables and the S3 bucket, with the SQL statements of            *)
(* internal/catalog/sql.go as predicates on them.                          *)
(*                                                                         *)
(* A table is a set of rows (records).  Only what properties tell apart is *)
(* kept of a row: sizes, record counts, part_<n> and ext_<n> columns are   *)
(* left out.  The state is the COMMITTED state: what a transaction has     *)
(* written and not committed lives in the process that runs it.            *)
(***************************************************************************)
EXTENDS Integers, FiniteSets

CONSTANTS
  Partitions,   \* partition keys
  Tokens,       \* idempotency tokens
  NoToken,      \* the SQL NULL of idempotency_token
  MaxKeys,      \* bound: S3 keys generated, one per write attempt
  MaxTime       \* bound: readings of the PostgreSQL clock

ASSUME CatalogAssumption ==
  /\ NoToken \notin Tokens
  /\ MaxKeys \in Nat
  /\ MaxTime \in Nat

VARIABLES
  now,          \* PostgreSQL's clock; now() in a statement is its tx start
  files,        \* s3pgstore_files
  partitions,   \* s3pgstore_partitions; an absent row is version 0
  pending,      \* s3pgstore_pending_writes
  objects,      \* keys that hold an object in the bucket
  puts,         \* PUT requests S3 may still apply: key and time of sending
  nextKey,      \* next S3 key (the order UUIDv7 keys are generated in)
  nextFileId    \* file_id's sequence, which no rollback gives back

catalogVars ==
  <<now, files, partitions, pending, objects, puts, nextKey, nextFileId>>

Keys    == 1 .. MaxKeys
FileIds == 1 .. MaxKeys
Times   == 0 .. MaxTime

FileRow ==
  [id : FileIds, part : Partitions, key : Keys, token : Tokens \cup {NoToken},
   version : Nat, writtenAt : Times]

PartitionRow == [version : Nat, fileCount : Nat]

PendingRow == [key : Keys, intendedAt : Times]

PutRequest == [key : Keys, sentAt : Times]

CatalogTypeOK ==
  /\ now \in Times
  /\ files \subseteq FileRow
  /\ partitions \in [Partitions -> PartitionRow]
  /\ pending \subseteq PendingRow
  /\ objects \subseteq Keys
  /\ puts \subseteq PutRequest
  /\ nextKey \in 1 .. MaxKeys + 1
  /\ nextFileId \in 1 .. MaxKeys + 1

CatalogInit ==
  /\ now = 0
  /\ files = {}
  /\ partitions = [p \in Partitions |-> [version |-> 0, fileCount |-> 0]]
  /\ pending = {}
  /\ objects = {}
  /\ puts = {}
  /\ nextKey = 1
  /\ nextFileId = 1

-----------------------------------------------------------------------------
(* Statements.                                                             *)

\* Faulty: tokens looked up without their partition.
TokenRowsAnywhere(p, t) ==
  {f \in files : p \in Partitions /\ f.token = t /\ t # NoToken}

\* IdempotencyLookupSQL: the rows of (partition_key, idempotency_token).
TokenRows(p, t) == {f \in files : f.part = p /\ f.token = t /\ t # NoToken}

\* What PartitionUpsertSQL and PartitionUpdateOCCSQL make of a row.
Bumped(row) == [version |-> row.version + 1, fileCount |-> row.fileCount + 1]

\* PendingWriteInsertSQL; intended_at defaults to now().
PendingInsert(k) == pending' = pending \cup {[key |-> k, intendedAt |-> now]}

\* PendingWriteDeleteSQL; deleting an absent row is no error.
PendingDelete(k) == pending' = {r \in pending : r.key # k}

TrackedKeys    == {r.key : r \in pending}
ReferencedKeys == {f.key : f \in files}
InFlightKeys   == {r.key : r \in puts}

-----------------------------------------------------------------------------
(* The bucket.  A PUT takes effect when S3 applies it, which may be after  *)
(* the client gave up on it; a retried PUT leaves a duplicate in flight.   *)

S3ApplyPut ==
  \E r \in puts :
    /\ objects' = objects \cup {r.key}
    /\ puts' \in {puts, puts \ {r}}
    /\ UNCHANGED <<now, files, partitions, pending, nextKey, nextFileId>>

S3LosePut ==
  \E r \in puts :
    /\ puts' = puts \ {r}
    /\ UNCHANGED <<now, files, partitions, pending, objects, nextKey, nextFileId>>

=============================================================================
