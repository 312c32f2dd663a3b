------------------------------ MODULE Rebuild ------------------------------
(***************************************************************************)
(* Disaster recovery (cmd/s3pgstore-rebuild): the catalog is lost, and is  *)
(* built again from what the bucket's objects and their user-metadata      *)
(* (metadata_s3.go) say.  A life of the store here is: writes, the loss,   *)
(* any number of runs of Rebuild that stop anywhere and may overlap, and   *)
(* writes again once a run has ended well.                                 *)
(*                                                                         *)
(* A write is one step (module WritePath shows that it may be): a row with *)
(* its object, or an object without a row when it failed after its PUT,    *)
(* until a collector deletes that (module OrphanGC).  Rows have neither    *)
(* extension columns, which the tool is never told of and leaves NULL, nor *)
(* written_at, for which it takes the object's LastModified.               *)
(***************************************************************************)
EXTENDS LexOrder, FiniteSets

CONSTANTS
  Partitions,     \* values of the one partition key part
  Tokens, NoToken,
  Rebuilders,     \* runs of Rebuild that may overlap
  MaxKeys,        \* bound: S3 keys generated
  OrphansAtLoss   \* the loss may find objects that no row refers to

ASSUME RebuildAssumption ==
  /\ NoToken \notin Tokens
  /\ MaxKeys \in Nat
  /\ OrphansAtLoss \in BOOLEAN

VARIABLES
  phase,        \* live, lost or rebuilt
  files,        \* s3pgstore_files: rows with id, key, part, token, version
  partitions,   \* s3pgstore_partitions; an absent row is version 0
  objects,      \* the bucket: key, part and meta (token, version) of each
  before,       \* history: files and partitions when they were lost
  rpc,          \* what each run of Rebuild does next
  listed,       \* the keys it listed and has not inserted yet
  toUpsert      \* partitions of its list that it has not upserted yet

catalog == <<files, partitions>>
runVars == <<rpc, listed, toUpsert>>
vars == <<phase, catalog, objects, before, runVars>>

Keys  == 1 .. MaxKeys
NoRow == [version |-> 0, fileCount |-> 0]

Init ==
  /\ phase = "live"
  /\ files = {}
  /\ partitions = [p \in Partitions |-> NoRow]
  /\ objects = {}
  /\ before = [files |-> {}, partitions |-> [p \in Partitions |-> NoRow]]
  /\ rpc = [r \in Rebuilders |-> "idle"]
  /\ listed = [r \in Rebuilders |-> {}]
  /\ toUpsert = [r \in Rebuilders |-> {}]

ObjectAt(k) == CHOOSE o \in objects : o.key = k
UsedKeys    == {o.key : o \in objects}
Orphans     == {o \in objects : \A f \in files : f.key # o.key}
NextId      == Cardinality(files) + 1
TokenTaken(p, t) == \E f \in files : f.part = p /\ f.token = t /\ t # NoToken

\* S3 user-metadata.
BuildS3Metadata(t, v) == [token |-> t, version |-> v]

-----------------------------------------------------------------------------
(* The store before the loss and after the rebuild.                        *)

PutObject(k, p, t, v) ==
  objects' = objects \cup {[key |-> k, part |-> p, meta |-> BuildS3Metadata(t, v)]}

WriteCommits(k, p, t) ==
  LET v == partitions[p].version + 1 IN
    /\ phase # "lost"
    /\ \A r \in Rebuilders : rpc[r] = "idle"
    /\ k \notin UsedKeys
    /\ ~TokenTaken(p, t)
    /\ files' = files \cup {[id |-> NextId, key |-> k, part |-> p, token |-> t,
                             version |-> v]}
    /\ partitions' = [partitions EXCEPT ![p] =
                        [version |-> v, fileCount |-> @.fileCount + 1]]
    /\ PutObject(k, p, t, v)
    /\ UNCHANGED <<phase, before, runVars>>

\* Its transaction was rolled back after the PUT.
WriteFails(k, p, t) ==
  /\ phase = "live"
  /\ k \notin UsedKeys
  /\ ~TokenTaken(p, t)
  /\ PutObject(k, p, t, partitions[p].version + 1)
  /\ UNCHANGED <<phase, catalog, before, runVars>>

Collect ==
  /\ phase = "live"
  /\ \E o \in Orphans : objects' = objects \ {o}
  /\ UNCHANGED <<phase, catalog, before, runVars>>

\* The tables are gone, those of the pending writes too; the operator has
\* stopped the writers and applied the schema.
Lose ==
  /\ phase = "live"
  /\ OrphansAtLoss \/ Orphans = {}
  /\ phase' = "lost"
  /\ before' = [files |-> files, partitions |-> partitions]
  /\ files' = {}
  /\ partitions' = [p \in Partitions |-> NoRow]
  /\ UNCHANGED <<objects, runVars>>

-----------------------------------------------------------------------------
(* Rebuild.                                                                *)

Run(r, from, to) ==
  /\ rpc[r] = from
  /\ rpc' = [rpc EXCEPT ![r] = to]

\* listAllKeys and groupByPartition.
List(r) ==
  /\ phase # "live"
  /\ Run(r, "idle", "insert")
  /\ listed' = [listed EXCEPT ![r] = UsedKeys]
  /\ toUpsert' = [toUpsert EXCEPT ![r] = {o.part : o \in objects}]
  /\ UNCHANGED <<phase, catalog, objects, before>>

\* The partition a run is at: groups are taken in order.
IsCurrent(r, p) ==
  p \in toUpsert[r] /\ \A q \in toUpsert[r] : q = p \/ LexLess(p, q)

Waiting(r, p) == {k \in listed[r] : ObjectAt(k).part = p}

\* Faulty: ON CONFLICT is not handled, so no run can go over rows that are there.
RowExistsNever(k) == k = 0

RowExists(k) == \E f \in files : f.key = k

\* Faulty: versions are numbered anew, by key.
RecoveredRowNumbered(k) ==
  LET o == ObjectAt(k) IN
    [id |-> NextId, key |-> k, part |-> o.part, token |-> o.meta.token,
     version |-> Cardinality({q \in objects : q.part = o.part /\ q.key <= k})]

RecoveredRow(k) ==
  LET o == ObjectAt(k) IN
    [id |-> NextId, key |-> k, part |-> o.part, token |-> o.meta.token,
     version |-> o.meta.version]

\* insertFileRow: HEAD, then INSERT ... ON CONFLICT (s3_key) DO NOTHING.  The
\* token's UNIQUE index is not among the conflicts that it handles.
InsertFileRow(r) ==
  \E p \in toUpsert[r] : \E k \in Waiting(r, p) :
    /\ rpc[r] = "insert"
    /\ IsCurrent(r, p) /\ \A j \in Waiting(r, p) : k <= j
    /\ \/ RowExists(k) /\ UNCHANGED files
       \/ /\ ~RowExists(k)
          /\ ~TokenTaken(p, ObjectAt(k).meta.token)
          /\ files' = files \cup {RecoveredRow(k)}
    /\ listed' = [listed EXCEPT ![r] = @ \ {k}]
    /\ UNCHANGED <<phase, partitions, objects, before, rpc, toUpsert>>

\* Faulty: every object of the bucket.
GroupOfAll(p) == {o \in objects : p \in Partitions}

\* The whole group, whatever earlier runs have inserted of it.
GroupOf(p) == {o \in objects : o.part = p}

\* upsertPartitionRow: ON CONFLICT DO UPDATE.
UpsertPartitionRow(r) ==
  \E p \in toUpsert[r] : \E last \in GroupOf(p) :
    /\ rpc[r] = "insert"
    /\ IsCurrent(r, p) /\ Waiting(r, p) = {}
    /\ \A o \in GroupOf(p) : o.meta.version <= last.meta.version
    /\ partitions' = [partitions EXCEPT ![p] = [version   |-> last.meta.version,
                                               fileCount |-> Cardinality(GroupOf(p))]]
    /\ toUpsert' = [toUpsert EXCEPT ![r] = @ \ {p}]
    /\ UNCHANGED <<phase, files, objects, before, rpc, listed>>

EndsWell(r) ==
  /\ rpc[r] = "insert" /\ toUpsert[r] = {}
  /\ Run(r, "insert", "idle")
  /\ phase' = "rebuilt"
  /\ UNCHANGED <<catalog, objects, before, listed, toUpsert>>

\* An error, or the process is killed.
Stops(r) ==
  /\ Run(r, "insert", "idle")
  /\ listed' = [listed EXCEPT ![r] = {}]
  /\ toUpsert' = [toUpsert EXCEPT ![r] = {}]
  /\ UNCHANGED <<phase, catalog, objects, before>>

RebuildStep(r) ==
  List(r) \/ InsertFileRow(r) \/ UpsertPartitionRow(r) \/ EndsWell(r) \/ Stops(r)

Next ==
  \/ \E k \in Keys, p \in Partitions, t \in Tokens \cup {NoToken} :
       WriteCommits(k, p, t) \/ WriteFails(k, p, t)
  \/ Collect
  \/ Lose
  \/ \E r \in Rebuilders : RebuildStep(r)

Spec == Init /\ [][Next]_vars

-----------------------------------------------------------------------------
(* Safety.                                                                 *)

\* What a row says besides its file_id.
Facts(f) == [key |-> f.key, part |-> f.part, token |-> f.token, version |-> f.version]

\* After the rebuild the catalog has the rows it had, with their versions and
\* tokens, whatever runs stopped half-way or overlapped; rows written since then
\* have later versions.
CatalogRecovered ==
  phase = "rebuilt" =>
    {Facts(f) : f \in before.files} =
      {Facts(f) : f \in {g \in files : g.version <= before.partitions[g.part].version}}

\* Before the loss and after the rebuild, a partition's version counts its rows
\* and is the highest among them, no two rows share a version, so the next
\* write that expects a version neither fails nor overwrites.
OccContinues ==
  phase # "lost" =>
    \A p \in Partitions :
      LET rows == {f \in files : f.part = p} IN
        /\ partitions[p].fileCount = Cardinality(rows)
        /\ {f.version : f \in rows} = 1 .. partitions[p].version
        /\ Cardinality(rows) = partitions[p].version

-----------------------------------------------------------------------------
(* Liveness.  The operator runs Rebuild again until a run ends well, and   *)
(* something from outside stops a run only finitely often: a run begins at *)
(* its first key, so one that is always stopped early gets nowhere.        *)

Fairness ==
  /\ <>[][\A r \in Rebuilders : ~Stops(r)]_vars
  /\ \A r \in Rebuilders :
       WF_vars(List(r) \/ InsertFileRow(r) \/ UpsertPartitionRow(r) \/ EndsWell(r))

FairSpec == Spec /\ Fairness

\* A lost catalog is rebuilt in the end: a run can always be repeated, and each
\* repetition goes over what the ones before it have inserted.
RebuildEnds == (phase = "lost") ~> (phase = "rebuilt")

=============================================================================
