-------------------------- MODULE WritePathProofs --------------------------
(***************************************************************************)
(* What holds of the write path for any number of writers, partitions,     *)
(* tokens and calls.                                                       *)
(*                                                                         *)
(* The inductive invariant has three parts.  KeyInv follows an S3 key: it  *)
(* is generated once, belongs to one call, has a pending row before its    *)
(* PUT is sent, and loses that row only when its PUT was not sent or with  *)
(* the COMMIT that adds its file row; so a committed key is never tracked  *)
(* and has its object, and an object without a row is tracked.  RowInv     *)
(* follows a file row: between the upsert and the end of its transaction a *)
(* call is alone on its partition (RowLocked), so the version it was given *)
(* is still the next one (VersionNext) and its token still free            *)
(* (TokenFree) when it commits; hence versions are dense, tokens unique,   *)
(* answers durable.  TypeInv adds to the types what rows need to be ones.  *)
(*                                                                         *)
(* Then writePartition implements VersionedLog: seen through the committed *)
(* rows and the answers, COMMIT appends one entry to the log of its        *)
(* partition, and every other step answers a call with an entry that is    *)
(* there already, or changes nothing.                                      *)
(***************************************************************************)
EXTENDS WritePath, FiniteSetTheorems, Sequences, TLAPS

-----------------------------------------------------------------------------
(* Types.                                                                  *)

\* The rows that COMMIT adds have the id that the insert returned, and a key.
RowHasId == \A w \in Writers : pc[w] \in HoldsRow \ {"insert"} => tx[w].fileId \in FileIds
RowHasKey == \A w \in Writers : pc[w] \in {"begin"} \cup InTx => tx[w].key \in Keys

TypeInv == TypeOK /\ RowHasId /\ RowHasKey

\* A writer without a call has a call of the right type.
LEMMA NoOpType == NoOp \in Ops
BY WriteAssumption, CatalogAssumption DEF NoOp, Ops

\* So have its transaction's locals.
LEMMA NoTxType == NoTx \in TxLocals
BY CatalogAssumption DEF NoTx, TxLocals, Times

\* Types hold initially.
LEMMA TypeInit == Init => TypeInv
BY NoOpType, NoTxType, CatalogAssumption, WriteAssumption
   DEF Init, CatalogInit, TypeInv, TypeOK, CatalogTypeOK, WriteTypeOK, RowHasId, RowHasKey,
       Phases, PartitionRow, Times, Keys, FileIds, HoldsRow, PrePut, PutDone, InTx

\* The row to commit is one.
LEMMA RowTyped ==
  ASSUME TypeInv, NEW w \in Writers, pc[w] = "commit"
  PROVE  RowOf(w) \in FileRow
BY DEF TypeInv, TypeOK, CatalogTypeOK, WriteTypeOK, RowHasId, RowHasKey, InTx, HoldsRow,
   PutDone,
   RowOf, FileRow, TxLocals, Ops

\* An answer is one.
LEMMA AnswerTyped ==
  ASSUME TypeInv, NEW w \in Writers, NEW row \in FileRow, NEW fresh \in BOOLEAN,
         ReturnRef(w, row, fresh)
  PROVE  acked' \subseteq [op : Ops, ref : FileRow, fresh : BOOLEAN]
<1>1. op[w] \in Ops
  BY DEF TypeInv, TypeOK, WriteTypeOK
<1>2. [op |-> op[w], ref |-> row, fresh |-> fresh] \in [op : Ops, ref : FileRow, fresh : BOOLEAN]
  BY <1>1
<1> QED BY <1>2 DEF ReturnRef, TypeInv, TypeOK, WriteTypeOK

\* A call that returns resets what it held.
LEMMA LeaveTyped ==
  ASSUME TypeInv, NEW w \in Writers, Leave(w)
  PROVE  /\ pc' \in [Writers -> Phases]
         /\ op' \in [Writers -> Ops]
         /\ tx' \in [Writers -> TxLocals]
         /\ RowHasId' /\ RowHasKey'
BY NoOpType, NoTxType
   DEF TypeInv, TypeOK, WriteTypeOK, Leave, Phases, RowHasId, RowHasKey, HoldsRow, PrePut,
       PutDone, InTx

\* A lookup that hits answers with a committed row.
LEMMA LookupTyped ==
  ASSUME TypeInv, NEW w \in Writers, LookupHit(w)
  PROVE  TypeInv'
<1>1. PICK f \in TokenRows(op[w].part, op[w].token) : ReturnRef(w, f, FALSE)
  BY DEF LookupHit
<1>2. f \in FileRow
  BY DEF TokenRows, TypeInv, TypeOK, CatalogTypeOK
<1> QED
  BY <1>1, <1>2, AnswerTyped, LeaveTyped
  DEF LookupHit, ReturnRef, catalogVars, TypeInv, TypeOK, CatalogTypeOK, WriteTypeOK

\* COMMIT keeps the tables typed.
LEMMA CommitTyped ==
  ASSUME TypeInv, NEW w \in Writers, pc[w] = "commit", CommitEffect(w)
  PROVE  CatalogTypeOK'
<1>1. RowOf(w) \in FileRow
  BY RowTyped
<1>2. partitions' \in [Partitions -> PartitionRow]
  <2>1. \A p \in Partitions : Bumped(partitions[p]) \in PartitionRow
    BY DEF TypeInv, TypeOK, CatalogTypeOK, Bumped, PartitionRow
  <2> QED BY <2>1 DEF CommitEffect, TypeInv, TypeOK, CatalogTypeOK
<1> QED
  BY <1>1, <1>2 DEF CommitEffect, PendingDelete, TypeInv, TypeOK, CatalogTypeOK

\* Every step keeps the types.
LEMMA TypeStep ==
  ASSUME TypeInv, [Next]_vars
  PROVE  TypeInv'
<1> USE NoOpType, NoTxType, CatalogAssumption, WriteAssumption
<1> USE DEF TypeInv, TypeOK, CatalogTypeOK, WriteTypeOK, RowHasId, RowHasKey, Goto,
      Leave, ReturnErr, ReturnRef,
    Phases, HoldsRow, PrePut, PutDone, InTx, Aborted
<1>1. ASSUME NEW w \in Writers, StartCall(w) PROVE TypeInv'
  BY <1>1 DEF StartCall, catalogVars
<1>2. ASSUME NEW w \in Writers, LookupToken(w) PROVE TypeInv'
  BY <1>2, LookupTyped DEF LookupToken, catalogVars
<1>3. ASSUME NEW w \in Writers, TrackPending(w) PROVE TypeInv'
  <2>1. nextKey \in Keys /\ nextKey' \in Nat /\ pending' \subseteq PendingRow
    BY <1>3 DEF TrackPending, PendingInsert, PendingRow, Keys
  <2>2. UNCHANGED <<now, files, partitions, objects, puts, nextFileId>>
    BY <1>3 DEF TrackPending
  <2>3. CatalogTypeOK'
    BY <1>3, <2>1, <2>2 DEF TrackPending
  <2>4. CASE Goto(w, {"track"}, "begin") /\ tx' = [tx EXCEPT ![w].key = nextKey]
             /\ UNCHANGED <<op, acked>>
    <3>1. pc' \in [Writers -> Phases] /\ tx' \in [Writers -> TxLocals]
      BY <2>1, <2>4 DEF TxLocals
    <3>2. RowHasId' /\ RowHasKey'
      BY <2>1, <2>4 DEF TxLocals
    <3> QED BY <2>3, <2>4, <3>1, <3>2
  <2>5. CASE ReturnErr(w)
    BY <2>3, <2>5, LeaveTyped
  <2> QED BY <1>3, <2>4, <2>5 DEF TrackPending
<1>4. ASSUME NEW w \in Writers, BeginTx(w) PROVE TypeInv'
  BY <1>4 DEF BeginTx, catalogVars, TxLocals
<1>5. ASSUME NEW w \in Writers, UpsertPartition(w) PROVE TypeInv'
  <2>1. Bumped(partitions[op[w].part]).version \in Nat
    BY DEF Bumped, PartitionRow, Ops
  <2> QED BY <1>5, <2>1 DEF UpsertPartition, catalogVars, TxLocals
<1>6. ASSUME NEW w \in Writers, InsertFile(w) PROVE TypeInv'
  BY <1>6 DEF InsertFile, TxLocals, FileIds
<1>7. ASSUME NEW w \in Writers, SendPut(w) PROVE TypeInv'
  BY <1>7 DEF SendPut, PutRequest
<1>8. ASSUME NEW w \in Writers, PutAcked(w) \/ UntrackPending(w) \/ FailBeforePut(w) PROVE TypeInv'
  BY <1>8 DEF PutAcked, UntrackPending, FailBeforePut, catalogVars
<1>9. ASSUME NEW w \in Writers, Commit(w) PROVE TypeInv'
  BY <1>9, RowTyped, CommitTyped, AnswerTyped, LeaveTyped DEF Commit
<1>10. ASSUME NEW w \in Writers, CommitUnknown(w) PROVE TypeInv'
  BY <1>10, CommitTyped, LeaveTyped DEF CommitUnknown
<1>11. ASSUME NEW w \in Writers, CleanUp(w) PROVE TypeInv'
  BY <1>11 DEF CleanUp, PendingDelete
<1>12. ASSUME NEW w \in Writers, Relookup(w) PROVE TypeInv'
  BY <1>12, LookupTyped DEF Relookup, catalogVars
<1>13. ASSUME NEW w \in Writers, FailAndLeave(w) PROVE TypeInv'
  BY <1>13 DEF FailAndLeave, catalogVars
<1>14. ASSUME BucketStep PROVE TypeInv'
  BY <1>14 DEF BucketStep, S3ApplyPut, S3LosePut, writeVars, PutRequest
<1>15. CASE UNCHANGED vars
  BY <1>15 DEF vars, catalogVars, writeVars
<1> QED
  BY <1>1, <1>2, <1>3, <1>4, <1>5, <1>6, <1>7, <1>8, <1>9, <1>10, <1>11, <1>12, <1>13,
     <1>14, <1>15 DEF Next, WriterStep, Progress, Failure

-----------------------------------------------------------------------------
(* Keys.                                                                   *)

\* Phases, by what has become of the call's key: its PUT is answered, or is not
\* yet sent; the call has one at all; its transaction is to commit it.
Sent    == {"untrack", "commit"}
Unsent  == {"begin", "upsert", "relookup"} \cup PrePut \cup Aborted
WithKey == Unsent \cup {"putting"} \cup Sent
WithRow == {"begin"} \cup InTx

\* Keys in use were generated earlier.
KeysGenerated ==
  /\ \A w \in Writers : tx[w].key < nextKey
  /\ \A f \in files : f.key < nextKey
  /\ \A r \in pending : r.key < nextKey
  /\ \A k \in objects : k < nextKey
  /\ \A r \in puts : r.key < nextKey

\* No two calls, and no call and a committed file, share a key.
KeysOwned ==
  /\ \A w \in Writers : pc[w] \in WithKey <=> tx[w].key # 0
  /\ \A v, w \in Writers : tx[v].key = tx[w].key /\ tx[v].key # 0 => v = w
  /\ \A w \in Writers, f \in files : f.key # tx[w].key

\* A call that may commit its key, or has it in the bucket, has it tracked.
KeysTracked ==
  /\ \A w \in Writers : pc[w] \in WithRow => tx[w].key \in TrackedKeys
  /\ \A w \in Writers : pc[w] \in Unsent => tx[w].key \notin objects \cup InFlightKeys
  /\ \A w \in Writers : pc[w] \in Sent => tx[w].key \in objects

\* The keys' part of the invariant.
KeyInv ==
  /\ KeysGenerated /\ KeysOwned /\ KeysTracked
  /\ CommittedNotTracked /\ CommittedHasObject /\ OrphansTracked

\* Keys: initially.
LEMMA KeyInit == Init => KeyInv
BY DEF Init, CatalogInit, KeyInv, KeysGenerated, KeysOwned, KeysTracked,
   CommittedNotTracked,
  CommittedHasObject, OrphansTracked, TrackedKeys, ReferencedKeys, InFlightKeys, NoTx,
  WithKey,
  Unsent, Sent, WithRow, PrePut, PutDone, InTx, HoldsRow, Aborted

\* A statement that touches none of the tables that hold keys.
LEMMA QuietKeys ==
  ASSUME TypeInv, KeyInv, NEW w \in Writers, NEW to,
         UNCHANGED <<files, pending, objects, puts, nextKey>>,
         pc' = [pc EXCEPT ![w] = to],
         \A v \in Writers : tx'[v].key = tx[v].key,
         pc[w] \in WithKey <=> to \in WithKey,
         to \in WithRow => pc[w] \in WithRow,
         to \in Unsent => pc[w] \in Unsent,
         to \in Sent => tx[w].key \in objects
  PROVE  KeyInv'
<1>1. KeysGenerated'
  BY DEF KeyInv, KeysGenerated
<1>2. KeysOwned'
  BY DEF KeyInv, KeysOwned, TypeInv, TypeOK, WriteTypeOK
<1>3. KeysTracked'
  BY DEF KeyInv, KeysTracked, TypeInv, TypeOK, WriteTypeOK, TrackedKeys, InFlightKeys
<1> QED
  BY <1>1, <1>2, <1>3 DEF KeyInv, CommittedNotTracked, CommittedHasObject, OrphansTracked,
     TrackedKeys, ReferencedKeys, InFlightKeys

\* Rows for one new key may come, those of the writer's own unsent key may go.
PendingMoves(w) ==
  /\ nextKey' \in {nextKey, nextKey + 1}
  /\ \A r \in pending' : r \in pending \/ (r.key = nextKey /\ nextKey' = nextKey + 1)
  /\ \A r \in pending : r \in pending' \/ (r.key = tx[w].key /\ pc[w] \in Unsent)

\* A call that returns an error, or somebody else's row.
LEMMA LeaveKeys ==
  ASSUME TypeInv, KeyInv, NEW w \in Writers, Leave(w), PendingMoves(w),
         UNCHANGED <<files, objects, puts>>
  PROVE  KeyInv'
<1>0. /\ pc' = [pc EXCEPT ![w] = "idle"]
      /\ \A v \in Writers : tx'[v].key = IF v = w THEN 0 ELSE tx[v].key
  BY DEF Leave, NoTx, TypeInv, TypeOK, WriteTypeOK
<1>a. nextKey \in Nat /\ nextKey # 0
  BY DEF TypeInv, TypeOK, CatalogTypeOK
<1>1. KeysGenerated'
  BY <1>0, <1>a DEF KeyInv, KeysGenerated, PendingMoves, TypeInv, TypeOK, CatalogTypeOK,
     WriteTypeOK, TxLocals, Keys, FileRow, PendingRow, PutRequest
<1>2. KeysOwned'
  BY <1>0 DEF KeyInv, KeysOwned, TypeInv, TypeOK, CatalogTypeOK, FileRow, Keys,
     WriteTypeOK, WithKey,
     Unsent, Sent, PrePut, Aborted
<1>3. KeysTracked'
  BY <1>0 DEF KeyInv, KeysOwned, KeysTracked, TypeInv, TypeOK, WriteTypeOK, TrackedKeys,
     InFlightKeys,
     WithRow, InTx, HoldsRow, PrePut, PutDone, Unsent, Sent, Aborted, WithKey, PendingMoves
<1>4. CommittedNotTracked'
  BY <1>a DEF KeyInv, KeysGenerated, CommittedNotTracked, TrackedKeys, ReferencedKeys,
     PendingMoves,
     TypeInv, TypeOK, CatalogTypeOK, FileRow, Keys
<1>5. OrphansTracked'
  BY DEF KeyInv, KeysTracked, OrphansTracked, TrackedKeys, ReferencedKeys, InFlightKeys,
     PendingMoves
<1> QED
  BY <1>1, <1>2, <1>3, <1>4, <1>5 DEF KeyInv, CommittedHasObject, ReferencedKeys

\* A fresh key is tracked before it can be committed.
LEMMA TrackKeys ==
  ASSUME TypeInv, KeyInv, NEW w \in Writers, TrackPending(w)
  PROVE  KeyInv'
<1>0. /\ pc[w] = "track"
      /\ UNCHANGED <<files, objects, puts>>
      /\ nextKey' = nextKey + 1
      /\ PendingInsert(nextKey) \/ UNCHANGED pending
  BY DEF TrackPending
<1>a. nextKey \in Nat /\ nextKey # 0
  BY DEF TypeInv, TypeOK, CatalogTypeOK
<1>1. CASE ReturnErr(w)
  <2>1. PendingMoves(w)
    BY <1>0 DEF PendingMoves, PendingInsert
  <2> QED BY <1>0, <1>1, <2>1, LeaveKeys DEF ReturnErr
<1>2. CASE /\ pc' = [pc EXCEPT ![w] = "begin"]
           /\ tx' = [tx EXCEPT ![w].key = nextKey]
           /\ PendingInsert(nextKey)
  <2>1. \A v \in Writers : tx'[v].key = IF v = w THEN nextKey ELSE tx[v].key
    BY <1>2 DEF TypeInv, TypeOK, WriteTypeOK, TxLocals
  <2>2. \A r \in pending' : r \in pending \/ r.key = nextKey
    BY <1>2 DEF PendingInsert
  <2>3. \A r \in pending : r \in pending'
    BY <1>2 DEF PendingInsert
  <2>4. nextKey \in TrackedKeys'
    <3>1. [key |-> nextKey, intendedAt |-> now] \in pending'
      BY <1>2 DEF PendingInsert
    <3> QED BY <3>1 DEF TrackedKeys
  <2>5. KeysGenerated'
    BY <1>0, <1>a, <2>1, <2>2 DEF KeyInv, KeysGenerated, TypeInv, TypeOK, CatalogTypeOK,
     WriteTypeOK, TxLocals, Keys, FileRow, PendingRow, PutRequest
  <2>6. KeysOwned'
    BY <1>0, <1>a, <1>2, <2>1 DEF KeyInv, KeysGenerated, KeysOwned, TypeInv, TypeOK,
       CatalogTypeOK,
     FileRow, Keys, WriteTypeOK, TxLocals, WithKey, Unsent, Sent, PrePut, Aborted
  <2>7. KeysTracked'
    BY <1>0, <1>a, <1>2, <2>1, <2>3, <2>4 DEF KeyInv, KeysGenerated, KeysTracked,
       TypeInv, TypeOK, WriteTypeOK,
      CatalogTypeOK, Keys, PutRequest, TrackedKeys, InFlightKeys,
     WithRow, InTx, HoldsRow, PrePut, PutDone, Unsent, Sent, Aborted
  <2>8. CommittedNotTracked'
    BY <1>0, <1>a, <2>2 DEF KeyInv, KeysGenerated, CommittedNotTracked, TrackedKeys,
       ReferencedKeys,
     TypeInv, TypeOK, CatalogTypeOK, FileRow, Keys
  <2>9. OrphansTracked'
    BY <1>0, <2>3 DEF KeyInv, OrphansTracked, TrackedKeys, ReferencedKeys, InFlightKeys
  <2> QED
    BY <1>0, <2>5, <2>6, <2>7, <2>8, <2>9 DEF KeyInv, CommittedHasObject, ReferencedKeys
<1> QED BY <1>1, <1>2 DEF TrackPending, Goto

\* The PUT is sent for a tracked key.
LEMMA SendKeys ==
  ASSUME TypeInv, KeyInv, NEW w \in Writers, SendPut(w)
  PROVE  KeyInv'
<1>1. /\ pc[w] = "put" /\ pc' = [pc EXCEPT ![w] = "putting"]
      /\ UNCHANGED <<files, pending, objects, nextKey, tx>>
      /\ puts' = puts \cup {[key |-> tx[w].key, sentAt |-> now]}
  BY DEF SendPut, Goto
<1>2. InFlightKeys' = InFlightKeys \cup {tx[w].key}
  <2> DEFINE r == [key |-> tx[w].key, sentAt |-> now]
  <2>1. r \in puts' /\ r.key = tx[w].key /\ puts' = puts \cup {r}
    BY <1>1
  <2> HIDE DEF r
  <2> QED BY <2>1 DEF InFlightKeys
<1>3. tx[w].key \in TrackedKeys
  BY <1>1 DEF KeyInv, KeysTracked, WithRow, InTx, HoldsRow, PrePut
<1>4. KeysGenerated'
  BY <1>1 DEF KeyInv, KeysGenerated
<1>5. KeysOwned'
  BY <1>1 DEF KeyInv, KeysOwned, TypeInv, TypeOK, WriteTypeOK, WithKey, Unsent, Sent, PrePut
<1>6. ASSUME NEW v \in Writers, pc'[v] \in Unsent
      PROVE  tx'[v].key \notin objects' \cup InFlightKeys'
  <2>1. v # w
    BY <1>1, <1>6 DEF TypeInv, TypeOK, WriteTypeOK, Unsent, PrePut, Aborted
  <2>2. pc[v] \in Unsent /\ pc[w] \in Unsent
    BY <1>1, <1>6, <2>1 DEF TypeInv, TypeOK, WriteTypeOK, Unsent, PrePut
  <2>3. tx[v].key # tx[w].key
    BY <2>1, <2>2 DEF KeyInv, KeysOwned, WithKey
  <2> QED BY <1>1, <1>2, <2>2, <2>3 DEF KeyInv, KeysTracked
<1>7. KeysTracked'
  BY <1>1, <1>6 DEF KeyInv, KeysTracked, TypeInv, TypeOK, WriteTypeOK, TrackedKeys,
     WithRow, InTx,
     HoldsRow, PrePut, PutDone, Sent
<1> QED
  BY <1>1, <1>2, <1>3, <1>4, <1>5, <1>7 DEF KeyInv, CommittedNotTracked, CommittedHasObject,
     OrphansTracked, TrackedKeys, ReferencedKeys

\* COMMIT moves a key from pending_writes to files.
LEMMA CommitKeys ==
  ASSUME TypeInv, KeyInv, NEW w \in Writers, pc[w] = "commit", CommitEffect(w), Leave(w)
  PROVE  KeyInv'
<1> DEFINE k == tx[w].key
<1>1. /\ pc' = [pc EXCEPT ![w] = "idle"]
      /\ \A v \in Writers : tx'[v].key = IF v = w THEN 0 ELSE tx[v].key
  BY DEF Leave, NoTx, TypeInv, TypeOK, WriteTypeOK
<1>2. /\ UNCHANGED <<objects, puts, nextKey>>
      /\ files' = files \cup {RowOf(w)}
      /\ pending' = {r \in pending : r.key # k}
  BY DEF CommitEffect, PendingDelete
<1>3. RowOf(w).key = k
  BY DEF RowOf
<1>4. /\ ReferencedKeys' = ReferencedKeys \cup {k}
      /\ TrackedKeys' = TrackedKeys \ {k}
      /\ InFlightKeys' = InFlightKeys
  BY <1>2, <1>3 DEF ReferencedKeys, TrackedKeys, InFlightKeys
<1>5. k # 0 /\ k \in objects
  BY DEF KeyInv, KeysOwned, KeysTracked, WithKey, Sent
<1>6. k \in Nat /\ k < nextKey /\ nextKey \in Nat /\ nextKey > 0
  BY DEF KeyInv, KeysGenerated, TypeInv, TypeOK, CatalogTypeOK, WriteTypeOK, TxLocals, Keys
<1>7. KeysGenerated'
  BY <1>1, <1>2, <1>3, <1>6 DEF KeyInv, KeysGenerated
<1>8. KeysOwned'
  <2>1. \A v \in Writers : pc'[v] \in WithKey <=> tx'[v].key # 0
    BY <1>1 DEF KeyInv, KeysOwned, TypeInv, TypeOK, WriteTypeOK, WithKey, Unsent, Sent,
       PrePut, Aborted
  <2>2. \A u, v \in Writers : tx'[u].key = tx'[v].key /\ tx'[u].key # 0 => u = v
    BY <1>1 DEF KeyInv, KeysOwned
  <2>3. \A v \in Writers, f \in files' : f.key # tx'[v].key
    BY <1>1, <1>2, <1>3, <1>5 DEF KeyInv, KeysOwned, TypeInv, TypeOK, CatalogTypeOK,
       FileRow, Keys
  <2> QED BY <2>1, <2>2, <2>3 DEF KeysOwned
<1>9. KeysTracked'
  <2>1. \A v \in Writers : pc'[v] \in WithRow => tx'[v].key \in TrackedKeys'
    BY <1>1, <1>4, <1>5 DEF KeyInv, KeysTracked, KeysOwned, TypeInv, TypeOK, WriteTypeOK,
       WithRow,
       InTx, HoldsRow, PrePut, PutDone
  <2>2. \A v \in Writers : pc'[v] \in Unsent \cup Sent => v # w
    BY <1>1 DEF TypeInv, TypeOK, WriteTypeOK, Unsent, Sent, PrePut, Aborted
  <2> QED BY <1>1, <1>2, <1>4, <2>1, <2>2 DEF KeyInv, KeysTracked, TypeInv, TypeOK,
        WriteTypeOK
<1>10. OrphansTracked'
  BY <1>2, <1>4 DEF KeyInv, OrphansTracked
<1>11. CommittedNotTracked' /\ CommittedHasObject'
  BY <1>2, <1>4, <1>5 DEF KeyInv, CommittedNotTracked, CommittedHasObject
<1> QED BY <1>7, <1>8, <1>9, <1>10, <1>11 DEF KeyInv

\* Only keys whose PUT was not sent are untracked by the cleanup.
LEMMA CleanUpKeys ==
  ASSUME TypeInv, KeyInv, NEW w \in Writers, CleanUp(w)
  PROVE  KeyInv'
<1>1. /\ UNCHANGED <<files, objects, puts, nextKey>>
      /\ PendingDelete(tx[w].key) \/ UNCHANGED pending
      /\ pc[w] \in Aborted
  BY DEF CleanUp, Goto, Aborted
<1>2. PendingMoves(w)
  BY <1>1 DEF PendingMoves, PendingDelete, Unsent
<1>3. CASE ReturnErr(w)
  BY <1>1, <1>2, <1>3, LeaveKeys DEF ReturnErr
<1>4. CASE /\ pc' = [pc EXCEPT ![w] = "relookup"]
           /\ tx' = tx
  <2>1. KeysGenerated'
    BY <1>1, <1>2, <1>4 DEF KeyInv, KeysGenerated, PendingMoves, TypeInv, TypeOK,
       CatalogTypeOK
  <2>2. KeysOwned'
    BY <1>1, <1>4 DEF KeyInv, KeysOwned, TypeInv, TypeOK, WriteTypeOK, WithKey, Unsent
  <2>3. \A v \in Writers : pc'[v] \in WithRow => v # w /\ pc[v] \in WithRow
    BY <1>4 DEF TypeInv, TypeOK, WriteTypeOK, WithRow, InTx, HoldsRow, PrePut, PutDone
  <2>4. \A v \in Writers : v # w /\ pc[v] \in WithRow => tx[v].key # tx[w].key
    BY <1>1 DEF KeyInv, KeysOwned, WithKey, Unsent, Sent, Aborted, WithRow, InTx,
       HoldsRow, PrePut, PutDone
  <2>5. \A v \in Writers : pc'[v] \in WithRow => tx'[v].key \in TrackedKeys'
    BY <1>2, <1>4, <2>3, <2>4 DEF PendingMoves, KeyInv, KeysTracked, TrackedKeys
  <2>6. KeysTracked'
    BY <1>1, <1>4, <2>5 DEF KeyInv, KeysTracked, TypeInv, TypeOK, WriteTypeOK,
       InFlightKeys, Unsent, Sent,
       PrePut, Aborted
  <2>7. OrphansTracked' /\ CommittedNotTracked'
    <3>1. /\ TrackedKeys' \subseteq TrackedKeys
          /\ TrackedKeys \subseteq TrackedKeys' \cup {tx[w].key}
      BY <1>1 DEF PendingDelete, TrackedKeys
    <3>2. tx[w].key \notin objects \cup InFlightKeys
      BY <1>1 DEF KeyInv, KeysTracked, Unsent
    <3>3. ReferencedKeys' = ReferencedKeys /\ InFlightKeys' = InFlightKeys
      BY <1>1 DEF ReferencedKeys, InFlightKeys
    <3> QED BY <1>1, <3>1, <3>2, <3>3 DEF KeyInv, OrphansTracked, CommittedNotTracked
  <2> QED BY <1>1, <2>1, <2>2, <2>6, <2>7 DEF KeyInv, CommittedHasObject, ReferencedKeys
<1> QED BY <1>3, <1>4 DEF CleanUp, Goto

\* The bucket may apply a PUT or lose it.
LEMMA BucketKeys ==
  ASSUME TypeInv, KeyInv, BucketStep
  PROVE  KeyInv'
<1>1. UNCHANGED <<files, pending, nextKey, pc, tx>>
  BY DEF BucketStep, S3ApplyPut, S3LosePut, writeVars
<1>2. /\ objects \subseteq objects' /\ puts' \subseteq puts
      /\ objects' \subseteq objects \cup InFlightKeys
  BY DEF BucketStep, S3ApplyPut, S3LosePut, InFlightKeys
<1>3. KeysGenerated'
  BY <1>1, <1>2 DEF KeyInv, KeysGenerated, InFlightKeys
<1>4. KeysOwned'
  BY <1>1 DEF KeyInv, KeysOwned
<1>5. KeysTracked'
  BY <1>1, <1>2 DEF KeyInv, KeysTracked, TrackedKeys, InFlightKeys
<1>6. CommittedNotTracked' /\ CommittedHasObject' /\ OrphansTracked'
  BY <1>1, <1>2 DEF KeyInv, CommittedNotTracked, CommittedHasObject, OrphansTracked,
     TrackedKeys,
     ReferencedKeys, InFlightKeys
<1> QED BY <1>3, <1>4, <1>5, <1>6 DEF KeyInv

\* The phases a statement may lead to, in terms of its writer's key.
SamePart(w, to) ==
  /\ pc[w] \in WithKey <=> to \in WithKey
  /\ to \in WithRow => pc[w] \in WithRow
  /\ to \in Unsent => pc[w] \in Unsent
  /\ to \in Sent => tx[w].key \in objects

\* The same of a step that also leaves the tables alone.
LEMMA QuietStep ==
  ASSUME TypeInv, KeyInv, NEW w \in Writers, NEW from, NEW to, Goto(w, from, to),
         SamePart(w, to), UNCHANGED catalogVars,
         \A v \in Writers : tx'[v].key = tx[v].key
  PROVE  KeyInv'
BY QuietKeys DEF SamePart, Goto, catalogVars

\* A call that returns without touching a table.
LEMMA HitKeys ==
  ASSUME TypeInv, KeyInv, NEW w \in Writers, UNCHANGED catalogVars, Leave(w)
  PROVE  KeyInv'
<1>1. PendingMoves(w)
  BY DEF PendingMoves, catalogVars
<1> QED BY <1>1, LeaveKeys DEF catalogVars

\* Every step keeps the keys' part.
LEMMA KeyStep ==
  ASSUME TypeInv, KeyInv, [Next]_vars
  PROVE  KeyInv'
<1> DEFINE SameKeys == \A v \in Writers : tx'[v].key = tx[v].key
<1> USE DEF WithKey, WithRow, Unsent, Sent, InTx, HoldsRow, PrePut, PutDone, Aborted
<1>1. ASSUME NEW w \in Writers, StartCall(w) PROVE KeyInv'
  <2>1. PICK to \in {"track", "lookup"} : Goto(w, {"idle"}, to)
    BY <1>1 DEF StartCall
  <2>2. SamePart(w, to)
    BY <2>1 DEF SamePart, Goto
  <2> QED BY <1>1, <2>1, <2>2, QuietStep DEF StartCall
<1>2. ASSUME NEW w \in Writers, LookupToken(w) PROVE KeyInv'
  <2>1. CASE LookupHit(w)
    BY <2>1, HitKeys DEF LookupHit, ReturnRef
  <2>2. CASE Goto(w, {"lookup"}, "track") /\ UNCHANGED <<catalogVars, tx>>
    <3>1. SamePart(w, "track")
      BY <2>2 DEF SamePart, Goto
    <3> QED BY <2>2, <3>1, QuietStep
  <2> QED BY <1>2, <2>1, <2>2 DEF LookupToken
<1>3. ASSUME NEW w \in Writers, TrackPending(w) PROVE KeyInv'
  BY <1>3, TrackKeys
<1>4. ASSUME NEW w \in Writers, BeginTx(w) PROVE KeyInv'
  <2>1. SamePart(w, "upsert") /\ SameKeys
    BY <1>4 DEF SamePart, BeginTx, Goto, TypeInv, TypeOK, WriteTypeOK, TxLocals
  <2> QED BY <1>4, <2>1, QuietStep DEF BeginTx
<1>5. ASSUME NEW w \in Writers, UpsertPartition(w) PROVE KeyInv'
  <2>1. PICK to \in {"insert", "conflict"} : Goto(w, {"upsert"}, to)
    BY <1>5 DEF UpsertPartition
  <2>2. SameKeys
    BY <1>5 DEF UpsertPartition, TypeInv, TypeOK, WriteTypeOK, TxLocals
  <2>3. SamePart(w, to)
    BY <2>1 DEF SamePart, Goto
  <2> QED BY <1>5, <2>1, <2>2, <2>3, QuietStep DEF UpsertPartition
<1>6. ASSUME NEW w \in Writers, InsertFile(w) PROVE KeyInv'
  <2>1. PICK to \in {"put", "raceLost"} : Goto(w, {"insert"}, to)
    BY <1>6 DEF InsertFile
  <2>2. SameKeys
    BY <1>6 DEF InsertFile, TypeInv, TypeOK, WriteTypeOK, TxLocals
  <2>3. SamePart(w, to)
    BY <2>1 DEF SamePart, Goto
  <2>4. UNCHANGED <<files, pending, objects, puts, nextKey>>
    BY <1>6 DEF InsertFile
  <2> QED BY <2>1, <2>2, <2>3, <2>4, QuietKeys DEF SamePart, Goto
<1>7. ASSUME NEW w \in Writers, SendPut(w) PROVE KeyInv'
  BY <1>7, SendKeys
<1>8. ASSUME NEW w \in Writers, PutAcked(w) PROVE KeyInv'
  <2>1. SamePart(w, "untrack")
    BY <1>8 DEF SamePart, PutAcked, Goto
  <2> QED BY <1>8, <2>1, QuietStep DEF PutAcked
<1>9. ASSUME NEW w \in Writers, UntrackPending(w) PROVE KeyInv'
  <2>1. SamePart(w, "commit")
    BY <1>9 DEF SamePart, UntrackPending, Goto, KeyInv, KeysTracked
  <2> QED BY <1>9, <2>1, QuietStep DEF UntrackPending
<1>10. ASSUME NEW w \in Writers, Commit(w) \/ CommitUnknown(w) PROVE KeyInv'
  BY <1>10, CommitKeys DEF Commit, CommitUnknown, ReturnRef, ReturnErr
<1>11. ASSUME NEW w \in Writers, CleanUp(w) PROVE KeyInv'
  BY <1>11, CleanUpKeys
<1>12. ASSUME NEW w \in Writers, Relookup(w) PROVE KeyInv'
  BY <1>12, HitKeys DEF Relookup, LookupHit, ReturnRef, ReturnErr
<1>13. ASSUME NEW w \in Writers, FailBeforePut(w) PROVE KeyInv'
  <2>1. SamePart(w, "failed")
    BY <1>13 DEF SamePart, FailBeforePut, Goto
  <2> QED BY <1>13, <2>1, QuietStep DEF FailBeforePut
<1>14. ASSUME NEW w \in Writers, FailAndLeave(w) PROVE KeyInv'
  BY <1>14, HitKeys DEF FailAndLeave, ReturnErr
<1>15. CASE UNCHANGED vars
  <2>1. UNCHANGED <<files, pending, objects, puts, nextKey, pc, tx>>
    BY <1>15 DEF vars, catalogVars, writeVars
  <2> QED
    BY <2>1 DEF KeyInv, KeysGenerated, KeysOwned, KeysTracked, CommittedNotTracked,
       CommittedHasObject, OrphansTracked, TrackedKeys, ReferencedKeys, InFlightKeys
<1> QED
  BY <1>1, <1>2, <1>3, <1>4, <1>5, <1>6, <1>7, <1>8, <1>9, <1>10, <1>11, <1>12, <1>13,
     <1>14, <1>15, BucketKeys DEF Next, WriterStep, Progress, Failure

-----------------------------------------------------------------------------
(* Rows.                                                                   *)

\* The file row is inserted, and not committed.
WithFile == HoldsRow \ {"insert"}

\* One call at a time holds the row lock of a partition.
RowLocked ==
  \A v, w \in Writers :
    (pc[v] \in HoldsRow /\ pc[w] \in HoldsRow /\ op[v].part = op[w].part) => v = w

\* The version given under the row lock is still the next one, and is the one
\* that the caller expected.
VersionNext ==
  \A w \in Writers : pc[w] \in HoldsRow =>
    /\ tx[w].version = partitions[op[w].part].version + 1
    /\ op[w].expect \in {NoExpect, partitions[op[w].part].version}

\* Nobody has committed the token of an inserted row.
TokenFree ==
  \A w \in Writers : pc[w] \in WithFile => TokenRows(op[w].part, op[w].token) = {}

\* The unique index on (partition, token).
TokensUnique ==
  \A f, g \in files : (f.part = g.part /\ f.token = g.token /\ f.token # NoToken) => f = g

\* A row is the fresh answer of one call.
FreshOnce ==
  \A a, b \in acked : (a.fresh /\ b.fresh /\ a.ref = b.ref) => a = b

\* A fresh answer to an expected version is the version after it.
FreshVersion ==
  \A a \in acked : (a.fresh /\ a.op.expect # NoExpect) => a.ref.version = a.op.expect + 1

\* Tables, answers and running calls.
TableInv == VersionsDense /\ TokensUnique
AnswerInv == AnswersDurable /\ FreshOnce /\ FreshVersion
CallInv == RowLocked /\ VersionNext /\ TokenFree /\ RelookupHits

RowInv == TableInv /\ AnswerInv /\ CallInv

\* Rows: initially.
LEMMA RowInit == Init => RowInv
<1> SUFFICES ASSUME Init PROVE RowInv
  OBVIOUS
<1>1. CallInv
  BY DEF Init, CallInv, RowLocked, VersionNext, TokenFree, RelookupHits, HoldsRow,
     PrePut, PutDone, WithFile
<1>2. AnswerInv
  BY DEF Init, AnswerInv, AnswersDurable, FreshOnce, FreshVersion
<1>3. TableInv
  BY DEF Init, CatalogInit, TableInv, VersionsDense, TokensUnique, FilesOf
<1> QED BY <1>1, <1>2, <1>3 DEF RowInv

\* What the step of one writer does to the calls when no table changes.
LEMMA QuietRows ==
  ASSUME TypeInv, CallInv, NEW w \in Writers, NEW to,
         UNCHANGED <<files, partitions>>,
         pc' = [pc EXCEPT ![w] = to],
         \A v \in Writers \ {w} : op'[v] = op[v] /\ tx'[v].version = tx[v].version,
         to # "idle" => op'[w] = op[w],
         to \in HoldsRow => pc[w] \in HoldsRow /\ tx'[w].version = tx[w].version,
         to \in WithFile => TokenRows(op[w].part, op[w].token) = {},
         to \in {"raceLost", "relookup"} => TokenRows(op[w].part, op[w].token) # {}
  PROVE  CallInv'
<1> USE DEF TypeInv, TypeOK, WriteTypeOK
<1>0. /\ "idle" \notin HoldsRow /\ "idle" \notin WithFile
      /\ \A v \in Writers : pc'[v] = IF v = w THEN to ELSE pc[v]
  BY DEF HoldsRow, PrePut, PutDone, WithFile
<1>1. RowLocked'
  BY <1>0 DEF CallInv, RowLocked
<1>2. VersionNext'
  BY <1>0 DEF CallInv, VersionNext
<1>3. TokenFree'
  BY <1>0 DEF CallInv, TokenFree, TokenRows
<1>4. RelookupHits'
  BY <1>0 DEF CallInv, RelookupHits, TokenRows
<1> QED BY <1>1, <1>2, <1>3, <1>4 DEF CallInv

\* Answers and tables that nobody changes.
LEMMA SameAnswers ==
  ASSUME TableInv, AnswerInv, UNCHANGED <<files, partitions, acked>>
  PROVE  TableInv' /\ AnswerInv'
BY DEF TableInv, AnswerInv, VersionsDense, TokensUnique, AnswersDurable, FreshOnce,
   FreshVersion, FilesOf

\* A call that returns gives up its lock.
LEMMA LeaveRows ==
  ASSUME TypeInv, CallInv, NEW w \in Writers, Leave(w), UNCHANGED <<files, partitions>>
  PROVE  CallInv'
<1>1. /\ "idle" \notin HoldsRow /\ "idle" \notin WithFile
  BY DEF HoldsRow, PrePut, PutDone, WithFile
<1> QED BY <1>1, QuietRows DEF Leave, TypeInv, TypeOK, WriteTypeOK

\* A lookup that hits answers with a committed row of the token.
LEMMA HitRows ==
  ASSUME TypeInv, RowInv, NEW w \in Writers, LookupHit(w)
  PROVE  RowInv'
<1>1. PICK f \in TokenRows(op[w].part, op[w].token) : ReturnRef(w, f, FALSE)
  BY DEF LookupHit
<1>2. UNCHANGED <<files, partitions>> /\ Leave(w)
  BY <1>1 DEF LookupHit, ReturnRef, catalogVars
<1>3. CallInv'
  BY <1>2, LeaveRows DEF RowInv
<1>4. TableInv'
  BY <1>2 DEF RowInv, TableInv, VersionsDense, TokensUnique, FilesOf
<1> DEFINE n == [op |-> op[w], ref |-> f, fresh |-> FALSE]
<1>5. /\ n.op = op[w] /\ n.ref = f /\ n.fresh = FALSE
      /\ acked' = acked \cup {n}
  BY <1>1 DEF ReturnRef
<1>6. f \in files /\ f.part = op[w].part /\ f.token = op[w].token
  BY DEF TokenRows
<1> HIDE DEF n
<1>7. AnswersDurable'
  BY <1>2, <1>5, <1>6 DEF RowInv, TableInv, TokensUnique, AnswerInv, AnswersDurable
<1>8. FreshOnce' /\ FreshVersion'
  BY <1>5 DEF RowInv, AnswerInv, FreshOnce, FreshVersion
<1> QED BY <1>3, <1>4, <1>7, <1>8 DEF RowInv, AnswerInv

\* The upsert takes a free row and the next version.
LEMMA UpsertRows ==
  ASSUME TypeInv, RowInv, NEW w \in Writers, UpsertPartition(w)
  PROVE  CallInv'
<1> DEFINE p == op[w].part
<1>1. pc[w] = "upsert" /\ UNCHANGED <<files, partitions, op, acked>>
  BY DEF UpsertPartition, catalogVars
<1>2. CASE /\ RowFree(p)
           /\ op[w].expect \in {NoExpect, partitions[p].version}
           /\ pc' = [pc EXCEPT ![w] = "insert"]
           /\ tx' = [tx EXCEPT ![w].version = Bumped(partitions[p]).version]
  <2>1. \A v \in Writers : /\ pc'[v] = IF v = w THEN "insert" ELSE pc[v]
                           /\ tx'[v].version = IF v = w THEN partitions[p].version + 1
                                               ELSE tx[v].version
    BY <1>2 DEF TypeInv, TypeOK, WriteTypeOK, TxLocals, Bumped
  <2>2. RowLocked'
    BY <1>1, <1>2, <2>1 DEF RowInv, CallInv, RowLocked, RowFree
  <2>3. VersionNext'
    BY <1>1, <1>2, <2>1 DEF RowInv, CallInv, VersionNext
  <2>4. TokenFree' /\ RelookupHits'
    BY <1>1, <2>1 DEF RowInv, CallInv, TokenFree, RelookupHits, TokenRows, WithFile
  <2> QED BY <2>2, <2>3, <2>4 DEF CallInv
<1>3. CASE tx' = tx /\ pc' = [pc EXCEPT ![w] = "conflict"]
  BY <1>1, <1>3, QuietRows DEF RowInv, HoldsRow, PrePut, PutDone, WithFile
<1> QED BY <1>2, <1>3 DEF UpsertPartition, Goto

\* The insert finds its token free, or loses the race to a committed row.
LEMMA InsertRows ==
  ASSUME TypeInv, RowInv, NEW w \in Writers, InsertFile(w)
  PROVE  CallInv'
<1>1. pc[w] = "insert" /\ UNCHANGED <<files, partitions, op, acked>>
  BY DEF InsertFile, Goto
<1>2. \A v \in Writers : tx'[v].version = tx[v].version
  BY DEF InsertFile, TypeInv, TypeOK, WriteTypeOK, TxLocals
<1>3. CASE TokenRows(op[w].part, op[w].token) = {} /\ pc' = [pc EXCEPT ![w] = "put"]
  BY <1>1, <1>2, <1>3, QuietRows DEF RowInv, HoldsRow, PrePut, PutDone, WithFile
<1>4. CASE TokenRows(op[w].part, op[w].token) # {} /\ pc' = [pc EXCEPT ![w] = "raceLost"]
  BY <1>1, <1>2, <1>4, QuietRows DEF RowInv, HoldsRow, PrePut, PutDone, WithFile
<1> QED BY <1>3, <1>4 DEF InsertFile, Goto

\* A statement inside the transaction that keeps what the transaction has, or
\* an error that ends it.
LEMMA MoveRows ==
  ASSUME TypeInv, RowInv, NEW w \in Writers, NEW to,
         UNCHANGED <<files, partitions, op, acked>>,
         pc' = [pc EXCEPT ![w] = to],
         \A v \in Writers : tx'[v].version = tx[v].version,
         to \in HoldsRow => pc[w] \in HoldsRow,
         to \in WithFile => pc[w] \in WithFile,
         to \in {"raceLost", "relookup"} => pc[w] \in {"raceLost", "relookup"}
  PROVE  RowInv'
<1>1. CallInv'
  BY QuietRows DEF RowInv, CallInv, TokenFree, RelookupHits
<1> QED BY <1>1, SameAnswers DEF RowInv

\* COMMIT adds the row that was next, under the lock.
LEMMA CommitRows ==
  ASSUME TypeInv, KeyInv, RowInv, NEW w \in Writers, pc[w] = "commit", CommitEffect(w), Leave(w),
         \/ acked' = acked
         \/ acked' = acked \cup {[op |-> op[w], ref |-> RowOf(w), fresh |-> TRUE]}
  PROVE  RowInv'
<1> DEFINE p == op[w].part
           row == RowOf(w)
           n == [op |-> op[w], ref |-> row, fresh |-> TRUE]
<1>1. pc[w] \in HoldsRow /\ pc[w] \in WithFile
  BY DEF HoldsRow, PutDone, WithFile
<1>2. p \in Partitions /\ partitions[p].version \in Nat /\ partitions[p].fileCount \in Nat
  BY DEF TypeInv, TypeOK, WriteTypeOK, CatalogTypeOK, Ops, PartitionRow
<1>3. /\ row.part = p /\ row.token = op[w].token /\ row.key = tx[w].key
      /\ row.version = partitions[p].version + 1
  BY <1>1 DEF RowOf, RowInv, CallInv, VersionNext
<1>4. /\ files' = files \cup {row}
      /\ \A q \in Partitions :
           /\ partitions'[q].version = partitions[q].version + IF q = p THEN 1 ELSE 0
           /\ partitions'[q].fileCount = partitions[q].fileCount + IF q = p THEN 1 ELSE 0
  BY <1>2 DEF CommitEffect, Bumped, TypeInv, TypeOK, CatalogTypeOK, PartitionRow
<1>5. /\ \A v \in Writers : pc'[v] = IF v = w THEN "idle" ELSE pc[v]
      /\ \A v \in Writers \ {w} : tx'[v] = tx[v] /\ op'[v] = op[v]
  BY DEF Leave, TypeInv, TypeOK, WriteTypeOK
<1>6. "idle" \notin HoldsRow /\ "idle" \notin WithFile
  BY DEF HoldsRow, PrePut, PutDone, WithFile
<1>7. \A f \in files : f.key # row.key
  BY <1>3 DEF KeyInv, KeysOwned
<1>8. \A f \in files : ~(f.part = p /\ f.token = row.token /\ row.token # NoToken)
  BY <1>1, <1>3 DEF RowInv, CallInv, TokenFree, TokenRows
<1>9. \A v \in Writers : pc'[v] \in HoldsRow => v # w /\ op[v].part # p /\ op[v].part \in Partitions
  BY <1>1, <1>5, <1>6 DEF RowInv, CallInv, RowLocked, TypeInv, TypeOK, WriteTypeOK, Ops
<1> HIDE DEF p, row, n
<1>10. VersionsDense'
  <2> SUFFICES ASSUME NEW q \in Partitions
               PROVE  /\ {f.version : f \in FilesOf(q)'} = 1 .. partitions'[q].version
                      /\ \A f, g \in FilesOf(q)' : f.version = g.version => f = g
                      /\ partitions'[q].fileCount = partitions'[q].version
    BY DEF VersionsDense, FilesOf
  <2>1. /\ {f.version : f \in FilesOf(q)} = 1 .. partitions[q].version
        /\ \A f, g \in FilesOf(q) : f.version = g.version => f = g
        /\ partitions[q].fileCount = partitions[q].version
    BY DEF RowInv, TableInv, VersionsDense
  <2>2. CASE q # p
    <3>1. FilesOf(q)' = FilesOf(q)
      BY <1>3, <1>4, <2>2 DEF FilesOf
    <3>2. partitions'[q].version = partitions[q].version /\ partitions'[q].fileCount = partitions[q].fileCount
      BY <1>4, <2>2 DEF TypeInv, TypeOK, CatalogTypeOK, PartitionRow
    <3> QED BY <2>1, <3>1, <3>2
  <2>3. CASE q = p
    <3>1. FilesOf(q)' = FilesOf(q) \cup {row}
      BY <1>3, <1>4, <2>3 DEF FilesOf
    <3>2. /\ partitions'[q].version = partitions[q].version + 1
          /\ partitions'[q].fileCount = partitions[q].fileCount + 1
      BY <1>4, <2>3
    <3>3. \A f \in FilesOf(q) : f.version \in 1 .. partitions[q].version
      BY <2>1
    <3>4. {f.version : f \in FilesOf(q)'} = {f.version : f \in FilesOf(q)} \cup {row.version}
      BY <3>1
    <3>5. {f.version : f \in FilesOf(q)'} = 1 .. partitions'[q].version
      BY <1>2, <1>3, <2>1, <2>3, <3>2, <3>4
    <3>6. \A f, g \in FilesOf(q)' : f.version = g.version => f = g
      BY <1>2, <1>3, <2>1, <2>3, <3>1, <3>3
    <3> QED BY <2>1, <3>2, <3>5, <3>6
  <2> QED BY <2>2, <2>3
<1>11. TokensUnique'
  BY <1>3, <1>4, <1>8 DEF RowInv, TableInv, TokensUnique
<1>12. RowLocked'
  BY <1>5, <1>6, <1>9 DEF RowInv, CallInv, RowLocked
<1>13. VersionNext'
  BY <1>4, <1>5, <1>9 DEF RowInv, CallInv, VersionNext, TypeInv, TypeOK, CatalogTypeOK,
     PartitionRow
<1>14. TokenFree'
  <2>1. \A v \in Writers : pc'[v] \in WithFile => pc'[v] \in HoldsRow
    BY DEF WithFile
  <2> QED BY <1>3, <1>4, <1>5, <1>9, <2>1 DEF RowInv, CallInv, TokenFree, TokenRows
<1>15. RelookupHits'
  BY <1>4, <1>5 DEF RowInv, CallInv, RelookupHits, TokenRows
<1>16. AnswerInv'
  <2>1. CASE acked' = acked
    BY <1>4, <2>1 DEF RowInv, AnswerInv, AnswersDurable, FreshOnce, FreshVersion
  <2>2. CASE acked' = acked \cup {n}
    <3>1. n.op = op[w] /\ n.ref = row /\ n.fresh = TRUE
      BY DEF n
    <3>2. AnswersDurable'
      BY <1>3, <1>4, <1>8, <2>2, <3>1 DEF RowInv, AnswerInv, AnswersDurable, p
    <3>3. FreshOnce'
      BY <1>7, <2>2, <3>1 DEF RowInv, AnswerInv, AnswersDurable, FreshOnce
    <3>4. FreshVersion'
      BY <1>1, <1>3, <2>2, <3>1 DEF RowInv, AnswerInv, FreshVersion, CallInv, VersionNext, p
    <3> QED BY <3>2, <3>3, <3>4 DEF AnswerInv
  <2> QED BY <2>1, <2>2 DEF n, row
<1> QED
  BY <1>10, <1>11, <1>12, <1>13, <1>14, <1>15, <1>16 DEF RowInv, TableInv, CallInv

\* Every step keeps the rows' part.
LEMMA RowStep ==
  ASSUME TypeInv, KeyInv, RowInv, [Next]_vars
  PROVE  RowInv'
<1> USE DEF HoldsRow, PrePut, PutDone, WithFile
<1>1. ASSUME NEW w \in Writers, StartCall(w) PROVE RowInv'
  <2>1. PICK to \in {"track", "lookup"} : pc' = [pc EXCEPT ![w] = to]
    BY <1>1 DEF StartCall, Goto
  <2>2. /\ UNCHANGED <<files, partitions, acked, tx>>
        /\ \A v \in Writers \ {w} : op'[v] = op[v]
    BY <1>1 DEF StartCall, catalogVars, TypeInv, TypeOK, WriteTypeOK
  <2>3. CallInv'
    <3> USE DEF TypeInv, TypeOK, WriteTypeOK
    <3>1. \A v \in Writers : pc'[v] = IF v = w THEN to ELSE pc[v]
      BY <2>1
    <3> QED BY <2>2, <3>1 DEF RowInv, CallInv, RowLocked, VersionNext, TokenFree,
          RelookupHits, TokenRows
  <2> QED BY <2>2, <2>3, SameAnswers DEF RowInv
<1>2. ASSUME NEW w \in Writers, LookupToken(w) PROVE RowInv'
  <2>1. CASE Goto(w, {"lookup"}, "track") /\ UNCHANGED <<catalogVars, op, tx, acked>>
    BY <2>1, MoveRows DEF Goto, catalogVars
  <2> QED BY <1>2, <2>1, HitRows DEF LookupToken
<1>3. ASSUME NEW w \in Writers, TrackPending(w) PROVE RowInv'
  <2>1. CASE ReturnErr(w)
    BY <1>3, <2>1, LeaveRows, SameAnswers DEF TrackPending, ReturnErr, RowInv
  <2>2. CASE Goto(w, {"track"}, "begin") /\ tx' = [tx EXCEPT ![w].key = nextKey] /\ UNCHANGED <<op, acked>>
    <3>1. \A v \in Writers : tx'[v].version = tx[v].version
      BY <2>2 DEF TypeInv, TypeOK, WriteTypeOK, TxLocals
    <3> QED BY <1>3, <2>2, <3>1, MoveRows DEF TrackPending, Goto
  <2> QED BY <1>3, <2>1, <2>2 DEF TrackPending
<1>4. ASSUME NEW w \in Writers, BeginTx(w) PROVE RowInv'
  <2>1. \A v \in Writers : tx'[v].version = tx[v].version
    BY <1>4 DEF BeginTx, TypeInv, TypeOK, WriteTypeOK, TxLocals
  <2> QED BY <1>4, <2>1, MoveRows DEF BeginTx, Goto, catalogVars
<1>5. ASSUME NEW w \in Writers, UpsertPartition(w) PROVE RowInv'
  BY <1>5, UpsertRows, SameAnswers DEF UpsertPartition, catalogVars, RowInv
<1>6. ASSUME NEW w \in Writers, InsertFile(w) PROVE RowInv'
  BY <1>6, InsertRows, SameAnswers DEF InsertFile, RowInv
<1>7. ASSUME NEW w \in Writers, SendPut(w) PROVE RowInv'
  BY <1>7, MoveRows DEF SendPut, Goto
<1>8. ASSUME NEW w \in Writers, PutAcked(w) \/ UntrackPending(w) \/ FailBeforePut(w) PROVE RowInv'
  BY <1>8, MoveRows DEF PutAcked, UntrackPending, FailBeforePut, Goto, catalogVars
<1>9. ASSUME NEW w \in Writers, Commit(w) \/ CommitUnknown(w) PROVE RowInv'
  BY <1>9, CommitRows DEF Commit, CommitUnknown, ReturnRef, ReturnErr
<1>10. ASSUME NEW w \in Writers, CleanUp(w) PROVE RowInv'
  <2>1. CASE ReturnErr(w)
    BY <1>10, <2>1, LeaveRows, SameAnswers DEF CleanUp, ReturnErr, RowInv
  <2>2. CASE Goto(w, {"raceLost"}, "relookup") /\ UNCHANGED <<op, tx, acked>>
    BY <1>10, <2>2, MoveRows DEF CleanUp, Goto
  <2> QED BY <1>10, <2>1, <2>2 DEF CleanUp
<1>11. ASSUME NEW w \in Writers, Relookup(w) PROVE RowInv'
  <2>1. CASE ReturnErr(w) /\ UNCHANGED catalogVars
    BY <2>1, LeaveRows, SameAnswers DEF ReturnErr, RowInv, catalogVars
  <2> QED BY <1>11, <2>1, HitRows DEF Relookup
<1>12. ASSUME NEW w \in Writers, FailAndLeave(w) PROVE RowInv'
  BY <1>12, LeaveRows, SameAnswers DEF FailAndLeave, ReturnErr, RowInv, catalogVars
<1>13. CASE UNCHANGED <<files, partitions, pc, op, tx, acked>>
  <2>1. CallInv'
    BY <1>13 DEF RowInv, CallInv, RowLocked, VersionNext, TokenFree, RelookupHits, TokenRows
  <2> QED BY <1>13, <2>1, SameAnswers DEF RowInv
<1>14. ASSUME BucketStep PROVE RowInv'
  BY <1>13, <1>14 DEF BucketStep, S3ApplyPut, S3LosePut, writeVars
<1>15. CASE UNCHANGED vars
  BY <1>13, <1>15 DEF vars, catalogVars, writeVars
<1> QED
  BY <1>1, <1>2, <1>3, <1>4, <1>5, <1>6, <1>7, <1>8, <1>9, <1>10, <1>11, <1>12,
     <1>14, <1>15 DEF Next, WriterStep, Progress, Failure

-----------------------------------------------------------------------------
(* What follows for every behaviour of the write path.                     *)

\* The inductive invariant.
IInv == TypeInv /\ KeyInv /\ RowInv

\* It holds in every reachable state.
LEMMA Invariant == Spec => []IInv
<1>1. Init => IInv
  BY TypeInit, KeyInit, RowInit DEF IInv
<1>2. IInv /\ [Next]_vars => IInv'
  BY TypeStep, KeyStep, RowStep DEF IInv
<1> QED BY <1>1, <1>2, PTL DEF Spec

\* Every table, and what each writer holds, has the shape its statements give it.
THEOREM TypeCorrect == Spec => []TypeOK
<1>1. IInv => TypeOK
  BY DEF IInv, TypeInv
<1> QED BY <1>1, Invariant, PTL

\* UpsertPartition's row lock: the versions of a partition's files are 1 .. n,
\* n the version and the file_count of the partition's row.
THEOREM VersionsAreDense == Spec => []VersionsDense
<1>1. IInv => VersionsDense
  BY DEF IInv, RowInv, TableInv
<1> QED BY <1>1, Invariant, PTL

\* An answered write is committed, and all answers to one token name one row.
THEOREM AnswersAreDurable == Spec => []AnswersDurable
<1>1. IInv => AnswersDurable
  BY DEF IInv, RowInv, AnswerInv
<1> QED BY <1>1, Invariant, PTL

\* translateWriteTxErr never finds the row of a lost token race gone.
THEOREM LostRaceFindsItsRow == Spec => []RelookupHits
<1>1. IInv => RelookupHits
  BY DEF IInv, RowInv, CallInv
<1> QED BY <1>1, Invariant, PTL

\* WithExpectedVersion is a compare-and-swap on the partition's version.
THEOREM ExpectedVersionIsCas == Spec => []ExpectedVersionWins
<1>1. IInv => ExpectedVersionWins
  <2> SUFFICES ASSUME IInv,
                      NEW a \in acked, a.fresh, a.op.expect # NoExpect,
                      NEW b \in acked, b.fresh, b.op.part = a.op.part,
                      b.op.expect = a.op.expect
               PROVE  b = a
    BY DEF IInv, RowInv, AnswerInv, FreshVersion, ExpectedVersionWins
  <2>1. a.ref.version = b.ref.version
    BY DEF IInv, RowInv, AnswerInv, FreshVersion
  <2>2. /\ a.op.part \in Partitions
        /\ a.ref \in FilesOf(a.op.part) /\ b.ref \in FilesOf(a.op.part)
    BY DEF IInv, TypeInv, TypeOK, WriteTypeOK, Ops, RowInv, AnswerInv, AnswersDurable,
       FilesOf
  <2>3. a.ref = b.ref
    BY <2>1, <2>2 DEF IInv, RowInv, TableInv, VersionsDense
  <2> QED BY <2>3 DEF IInv, RowInv, AnswerInv, FreshOnce
<1> QED BY <1>1, Invariant, PTL

\* The key of a committed row is never in pending_writes.
THEOREM CommittedKeysUntracked == Spec => []CommittedNotTracked
<1>1. IInv => CommittedNotTracked
  BY DEF IInv, KeyInv
<1> QED BY <1>1, Invariant, PTL

-----------------------------------------------------------------------------
(* The log that a set of rows is.                                          *)

\* The rows F carry the versions 1 .. n, each once.
Dense(F, n) ==
  /\ {f.version : f \in F} = 1 .. n
  /\ \A f, g \in F : f.version = g.version => f = g

RowAt(F, v) == CHOOSE f \in F : f.version = v

LogFrom(F) == [v \in 1 .. Cardinality(F) |-> RowAt(F, v).token]

LEMMA RowAtVersion ==
  ASSUME NEW F, NEW n \in Nat, Dense(F, n)
  PROVE  /\ \A v \in 1 .. n : RowAt(F, v) \in F /\ RowAt(F, v).version = v
         /\ \A f \in F : f.version \in 1 .. n /\ RowAt(F, f.version) = f
<1>1. ASSUME NEW v \in 1 .. n
      PROVE  RowAt(F, v) \in F /\ RowAt(F, v).version = v
  <2>1. \E f \in F : f.version = v
    BY DEF Dense
  <2> QED BY <2>1 DEF RowAt
<1>2. \A f \in F : f.version \in 1 .. n
  BY DEF Dense
<1> QED BY <1>1, <1>2 DEF Dense

LEMMA DenseCardinality ==
  ASSUME NEW F, NEW n \in Nat, Dense(F, n)
  PROVE  Cardinality(F) = n
<1> DEFINE at == [v \in 1 .. n |-> RowAt(F, v)]
<1>1. at \in Bijection(1 .. n, F)
  <2>1. at \in [1 .. n -> F]
    BY RowAtVersion
  <2>2. \A u, v \in 1 .. n : at[u] = at[v] => u = v
    BY RowAtVersion
  <2>3. \A f \in F : \E v \in 1 .. n : at[v] = f
    BY RowAtVersion
  <2> HIDE DEF at
  <2> QED BY <2>1, <2>2, <2>3 DEF Bijection, Injection, Surjection, IsInjective
<1>2. ExistsBijection(1 .. n, F)
  BY <1>1 DEF ExistsBijection
<1> QED BY <1>2, FS_CountingElements

LEMMA LogEntries ==
  ASSUME NEW F, NEW n \in Nat, Dense(F, n), NEW T, \A f \in F : f.token \in T
  PROVE  /\ LogFrom(F) \in Seq(T)
         /\ Len(LogFrom(F)) = n
         /\ \A f \in F : f.version \in 1 .. n /\ LogFrom(F)[f.version] = f.token
<1>1. LogFrom(F) = [v \in 1 .. n |-> RowAt(F, v).token]
  BY DenseCardinality DEF LogFrom
<1>2. \A v \in 1 .. n : RowAt(F, v).token \in T
  BY RowAtVersion
<1> QED BY <1>1, <1>2, RowAtVersion

LEMMA LogAppend ==
  ASSUME NEW F, NEW n \in Nat, Dense(F, n), NEW row, row.version = n + 1,
         Dense(F \cup {row}, n + 1),
         NEW T, \A f \in F \cup {row} : f.token \in T
  PROVE  LogFrom(F \cup {row}) = Append(LogFrom(F), row.token)
<1> DEFINE G == F \cup {row}
           longer == Append(LogFrom(F), row.token)
<1>1. /\ LogFrom(F) \in Seq(T) /\ Len(LogFrom(F)) = n
      /\ \A f \in F : f.version \in 1 .. n /\ LogFrom(F)[f.version] = f.token
  BY LogEntries
<1>2. /\ LogFrom(G) \in Seq(T) /\ Len(LogFrom(G)) = n + 1
      /\ \A f \in G : LogFrom(G)[f.version] = f.token
  <2>1. Dense(G, n + 1) /\ n + 1 \in Nat /\ \A f \in G : f.token \in T
    OBVIOUS
  <2> HIDE DEF G
  <2> QED BY <2>1, LogEntries
<1>3. /\ longer \in Seq(T) /\ Len(longer) = n + 1
      /\ \A i \in 1 .. n : longer[i] = LogFrom(F)[i]
      /\ longer[n + 1] = row.token
  BY <1>1
<1>4. ASSUME NEW i \in 1 .. (n + 1)
      PROVE  LogFrom(G)[i] = longer[i]
  <2>1. CASE i = n + 1
    BY <1>2, <1>3, <2>1
  <2>2. CASE i # n + 1
    <3>1. i \in 1 .. n
      BY <2>2
    <3> DEFINE f == RowAt(F, i)
    <3>2. f \in F /\ f.version = i
      BY <3>1, RowAtVersion
    <3> QED BY <1>1, <1>2, <1>3, <3>1, <3>2
  <2> QED BY <2>1, <2>2
<1> HIDE DEF G, longer
<1>5. LogFrom(G) = longer
  BY <1>2, <1>3, <1>4
<1> QED BY <1>5 DEF G, longer

-----------------------------------------------------------------------------
(* The steps.                                                              *)

LEMMA LogOfPartition ==
  ASSUME IInv, NEW p \in Partitions
  PROVE  /\ partitions[p].version \in Nat
         /\ Dense(FilesOf(p), partitions[p].version)
         /\ \A f \in FilesOf(p) : f.token \in Tokens \cup {NoToken}
         /\ LogOf(p) = LogFrom(FilesOf(p))
<1>1. partitions[p].version \in Nat
  BY DEF IInv, TypeInv, TypeOK, CatalogTypeOK, PartitionRow
<1>2. Dense(FilesOf(p), partitions[p].version)
  BY DEF IInv, RowInv, TableInv, VersionsDense, Dense
<1>3. \A f \in FilesOf(p) : f.token \in Tokens \cup {NoToken}
  BY DEF IInv, TypeInv, TypeOK, CatalogTypeOK, FilesOf, FileRow
<1> QED BY <1>1, <1>2, <1>3 DEF LogOf, LogFrom, RowAt

LEMMA QuietLog ==
  ASSUME UNCHANGED <<files, acked>>
  PROVE  UNCHANGED Atomic!vars
BY DEF Atomic!vars, LogOf, FilesOf

LEMMA HitAnswersAgain ==
  ASSUME IInv, NEW w \in Writers, LookupHit(w)
  PROVE  Atomic!Next
<1>1. PICK f \in TokenRows(op[w].part, op[w].token) : ReturnRef(w, f, FALSE)
  BY DEF LookupHit
<1> DEFINE p == op[w].part
           n == [op |-> op[w], ref |-> f, fresh |-> FALSE]
<1>2. op[w] \in Atomic!Ops /\ p \in Partitions
  BY DEF IInv, TypeInv, TypeOK, WriteTypeOK, Ops, Atomic!Ops
<1>3. f \in FilesOf(p) /\ f.token = op[w].token /\ op[w].token # NoToken
  BY DEF TokenRows, FilesOf
<1>4. /\ f.version \in 1 .. Len(LogOf(p))
      /\ LogOf(p)[f.version] = op[w].token
  <2> DEFINE F == FilesOf(p)
             v == partitions[p].version
             T == Tokens \cup {NoToken}
  <2>1. /\ v \in Nat /\ Dense(F, v)
        /\ \A g \in F : g.token \in T
        /\ LogOf(p) = LogFrom(F)
    BY <1>2, LogOfPartition
  <2> HIDE DEF F, v, T
  <2>2. /\ Len(LogFrom(F)) = v
        /\ \A g \in F : g.version \in 1 .. v /\ LogFrom(F)[g.version] = g.token
    BY <2>1, LogEntries
  <2> QED BY <1>3, <2>1, <2>2 DEF F
<1>5. /\ acked' = acked \cup {n} /\ n.op = op[w] /\ n.ref.version = f.version
      /\ files' = files
  BY <1>1 DEF ReturnRef, LookupHit, catalogVars
<1> HIDE DEF n
<1>6. {[op |-> a.op, version |-> a.ref.version] : a \in acked'}
        = {[op |-> a.op, version |-> a.ref.version] : a \in acked}
            \cup {[op |-> op[w], version |-> f.version]}
  BY <1>5
<1>7. [q \in Partitions |-> LogOf(q)'] = [q \in Partitions |-> LogOf(q)]
  BY <1>5 DEF LogOf, FilesOf
<1>8. Atomic!AnswerAgain(op[w])
  BY <1>2, <1>3, <1>4, <1>6, <1>7 DEF Atomic!AnswerAgain, Atomic!HasToken, Atomic!Answer
<1> QED BY <1>2, <1>8 DEF Atomic!Next

LEMMA CommitAppends ==
  ASSUME IInv, IInv', NEW w \in Writers, pc[w] = "commit", CommitEffect(w),
         \/ acked' = acked
         \/ acked' = acked \cup {[op |-> op[w], ref |-> RowOf(w), fresh |-> TRUE]}
  PROVE  Atomic!Next
<1>a. PICK p \in Partitions : p = op[w].part
  BY DEF IInv, TypeInv, TypeOK, WriteTypeOK, Ops
<1> DEFINE F   == FilesOf(p)
           row == RowOf(w)
           v   == partitions[p].version
           T   == Tokens \cup {NoToken}
<1>1. op[w] \in Atomic!Ops /\ p \in Partitions
  BY DEF IInv, TypeInv, TypeOK, WriteTypeOK, Ops, Atomic!Ops
<1>2. /\ row.part = p /\ row.token = op[w].token /\ row.version = v + 1
      /\ op[w].expect \in {NoExpect, v}
      /\ \A f \in F : f.token # op[w].token \/ op[w].token = NoToken
  BY <1>a DEF RowOf, IInv, RowInv, CallInv, VersionNext, TokenFree, HoldsRow, PutDone,
              WithFile, TokenRows, FilesOf
<1>3. /\ files' = files \cup {row}
      /\ partitions'[p].version = v + 1
  BY <1>a DEF CommitEffect, Bumped, IInv, TypeInv, TypeOK, CatalogTypeOK
<1>4. \A q \in Partitions : FilesOf(q)' = IF q = p THEN F \cup {row} ELSE FilesOf(q)
  BY <1>2, <1>3 DEF FilesOf
<1>5. /\ v \in Nat /\ Dense(F, v)
      /\ \A f \in F : f.token \in T
      /\ LogOf(p) = LogFrom(F)
  BY LogOfPartition
<1>6. Dense(F \cup {row}, v + 1)
  <2>1. {f.version : f \in FilesOf(p)'} = 1 .. partitions'[p].version
    BY <1>1 DEF IInv, RowInv, TableInv, VersionsDense
  <2>2. \A f, g \in FilesOf(p)' : f.version = g.version => f = g
    BY <1>1 DEF IInv, RowInv, TableInv, VersionsDense
  <2> QED BY <1>1, <1>3, <1>4, <2>1, <2>2 DEF Dense
<1>7. \A f \in F \cup {row} : f.token \in T
  BY <1>1, <1>2, <1>5 DEF Atomic!Ops
<1>8. \A q \in Partitions : LogOf(q)' = LogFrom(FilesOf(q)')
  BY DEF LogOf, LogFrom, RowAt
<1> HIDE DEF F, row, v, T
<1>9. LogFrom(F \cup {row}) = Append(LogFrom(F), op[w].token)
  <2>1. /\ Dense(F, v) /\ v \in Nat /\ row.version = v + 1 /\ Dense(F \cup {row}, v + 1)
        /\ \A f \in F \cup {row} : f.token \in T
    BY <1>2, <1>5, <1>6, <1>7
  <2>2. LogFrom(F \cup {row}) = Append(LogFrom(F), row.token)
    BY <2>1, LogAppend
  <2> QED BY <1>2, <2>2
<1>10. \A q \in Partitions : q # p => LogOf(q)' = LogOf(q)
  BY <1>4, <1>8, LogOfPartition
<1>11. [q \in Partitions |-> LogOf(q)']
         = [[q \in Partitions |-> LogOf(q)] EXCEPT ![p] = Append(@, op[w].token)]
  BY <1>1, <1>4, <1>5, <1>8, <1>9, <1>10
<1>12. Len(LogOf(p)) = v
  BY <1>5, LogEntries
<1>13. \A i \in 1 .. v : op[w].token = NoToken \/ LogOf(p)[i] # op[w].token
  BY <1>2, <1>5, RowAtVersion, DenseCardinality DEF LogFrom
<1>14. \/ acked' = acked
       \/ {[op |-> a.op, version |-> a.ref.version] : a \in acked'}
            = {[op |-> a.op, version |-> a.ref.version] : a \in acked}
                \cup {[op |-> op[w], version |-> v + 1]}
  <2> DEFINE n == [op |-> op[w], ref |-> RowOf(w), fresh |-> TRUE]
  <2>1. n.op = op[w] /\ n.ref.version = v + 1
    BY <1>2 DEF row
  <2>2. acked' = acked \/ acked' = acked \cup {n}
    OBVIOUS
  <2> HIDE DEF n
  <2> QED BY <2>1, <2>2
<1>b. PICK o \in Atomic!Ops : o = op[w]
  BY <1>1
<1>15. Atomic!Append1(o)
  <2> DEFINE log == [q \in Partitions |-> LogOf(q)]
             answers == {[op |-> a.op, version |-> a.ref.version] : a \in acked}
  <2>1. o.part = p /\ log[p] = LogOf(p)
    BY <1>a, <1>b
  <2>2. o.expect \in {NoExpect, Len(log[o.part])}
    BY <1>b, <1>2, <1>12, <2>1
  <2>3. \A i \in 1 .. Len(log[o.part]) : log[o.part][i] # o.token \/ o.token = NoToken
    BY <1>b, <1>12, <1>13, <2>1
  <2>4. log' = [log EXCEPT ![o.part] = Append(log[o.part], o.token)]
    BY <1>b, <1>11, <2>1
  <2>5. \/ answers' = answers \cup {[op |-> o, version |-> Len(log[o.part]) + 1]}
        \/ UNCHANGED answers
    BY <1>b, <1>12, <1>14, <2>1
  <2> QED BY ONLY <2>2, <2>3, <2>4, <2>5
          DEF Atomic!Append1, Atomic!HasToken, Atomic!Answer
<1> QED BY <1>15 DEF Atomic!Next

LEMMA InitImplements == Init => Atomic!Init
<1> SUFFICES ASSUME Init PROVE Atomic!Init
  OBVIOUS
<1>1. IInv
  BY TypeInit, KeyInit, RowInit DEF IInv
<1>2. ASSUME NEW p \in Partitions
      PROVE  LogOf(p) = << >>
  <2>1. FilesOf(p) = {} /\ partitions[p].version = 0
    BY <1>2 DEF Init, CatalogInit, FilesOf
  <2>2. LogFrom(FilesOf(p)) \in Seq(Tokens \cup {NoToken}) /\ Len(LogFrom(FilesOf(p))) = 0
    BY <1>1, <1>2, <2>1, LogOfPartition, LogEntries
  <2> QED BY <1>1, <1>2, <2>2, LogOfPartition
<1>3. acked = {}
  BY DEF Init
<1> QED BY <1>2, <1>3 DEF Atomic!Init

LEMMA NextImplements ==
  ASSUME IInv, IInv', [Next]_vars
  PROVE  [Atomic!Next]_Atomic!vars
<1>1. ASSUME NEW w \in Writers, LookupHit(w)
      PROVE  Atomic!Next
  BY <1>1, HitAnswersAgain
<1>2. ASSUME NEW w \in Writers, Commit(w) \/ CommitUnknown(w)
      PROVE  Atomic!Next
  BY <1>2, CommitAppends DEF Commit, CommitUnknown, ReturnRef, ReturnErr
<1>3. \/ \E w \in Writers : LookupHit(w) \/ Commit(w) \/ CommitUnknown(w)
      \/ UNCHANGED <<files, acked>>
  BY DEF Next, WriterStep, Progress, Failure, StartCall, LookupToken, TrackPending, BeginTx,
         UpsertPartition, InsertFile, SendPut, PutAcked, UntrackPending, FailBeforePut,
         FailAndLeave, CleanUp, Relookup, BucketStep, S3ApplyPut, S3LosePut, ReturnErr,
         vars, catalogVars, writeVars
<1> QED BY <1>1, <1>2, <1>3, QuietLog

\* writePartition, with its lookups, locks, rollbacks and unknown outcomes, does
\* no more than append to a versioned log in one step and answer.
THEOREM WritePathImplementsLog == Spec => WritesAreAtomic
<1>1. IInv /\ IInv' /\ [Next]_vars => [Atomic!Next]_Atomic!vars
  BY NextImplements
<1> QED BY InitImplements, <1>1, Invariant, PTL DEF Spec, WritesAreAtomic, Atomic!Spec

=============================================================================
