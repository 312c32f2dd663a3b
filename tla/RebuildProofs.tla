---------------------------- MODULE RebuildProofs ----------------------------
(***************************************************************************)
(* What a rebuild of a lost catalog gives back, for any number of          *)
(* partitions, objects and runs of Rebuild, whatever runs stop half-way or *)
(* overlap.                                                                *)
(*                                                                         *)
(* An object's user-metadata says what its row said (RowOf), and between   *)
(* writes the objects of a partition are numbered as its rows were         *)
(* (ObjectsNumbered).  So each row and each partition that any run writes  *)
(* is the one every run would write, and a run that ends well has seen to  *)
(* all of them: what it has not listed any more has a row (RunsKnow).      *)
(*                                                                         *)
(* The hypothesis that the loss finds no orphan is needed: see run         *)
(* rebuild_orphan.                                                         *)
(***************************************************************************)
EXTENDS Rebuild, FiniteSetTheorems, TLAPS

-----------------------------------------------------------------------------
(* The inductive invariant.                                                *)

PartitionRows == [version : Nat, fileCount : Nat]

TypeInv ==
  /\ phase \in {"live", "lost", "rebuilt"}
  /\ partitions \in [Partitions -> PartitionRows]
  /\ before.partitions \in [Partitions -> PartitionRows]
  /\ \A f \in files : f.key \in Keys /\ f.part \in Partitions /\ f.version \in Nat
  /\ \A o \in objects : o.key \in Keys /\ o.part \in Partitions /\ o.meta.version \in Nat
  /\ \A f \in before.files : f.part \in Partitions /\ f.version \in Nat
  /\ rpc \in [Rebuilders -> {"idle", "insert"}]
  /\ listed \in [Rebuilders -> SUBSET Keys]
  /\ toUpsert \in [Rebuilders -> SUBSET Partitions]

KeysUnique ==
  /\ \A o, q \in objects : o.key = q.key => o = q
  /\ \A f, g \in files : f.key = g.key => f = g
  /\ \A f, g \in before.files : f.key = g.key => f = g

\* A row says of an object what its metadata says.
RowOf(f, o) ==
  /\ f.key = o.key /\ f.part = o.part
  /\ f.token = o.meta.token /\ f.version = o.meta.version

HasRow(o)    == \E f \in files : RowOf(f, o)
RowsOf(p)    == {f \in files : f.part = p}
Numbered(n)  == [version |-> n, fileCount |-> n]

\* The rows, and the objects, of a partition have the versions from 1 to n.
RowsNumbered(p, n) ==
  /\ \A f \in RowsOf(p) : f.version \in 1 .. n
  /\ \A i \in 1 .. n : \E f \in RowsOf(p) : f.version = i
  /\ \A f, g \in RowsOf(p) : f.version = g.version => f = g

ObjectsNumbered(p, n) ==
  /\ \A o \in GroupOf(p) : o.meta.version \in 1 .. n
  /\ \A i \in 1 .. n : \E o \in GroupOf(p) : o.meta.version = i
  /\ \A o, q \in GroupOf(p) : o.meta.version = q.meta.version => o = q

\* The highest version that a partition's objects have, after the loss.
Top(p) == IF phase = "lost" THEN before.partitions[p].version ELSE partitions[p].version

Live ==
  phase = "live" =>
    /\ \A p \in Partitions :
         RowsNumbered(p, partitions[p].version)
         /\ partitions[p].fileCount = partitions[p].version
    /\ \A r \in Rebuilders : rpc[r] = "idle"

\* Partitions have their rows or none; what was written before the loss is there.
Gone ==
  phase # "live" =>
    /\ \A p \in Partitions :
         /\ ObjectsNumbered(p, Top(p))
         /\ before.partitions[p].version <= Top(p)
         /\ partitions[p] \in {NoRow, Numbered(Top(p))}
    /\ \A f \in before.files :
         /\ f.version <= before.partitions[f.part].version
         /\ \E o \in objects : RowOf(f, o)
    /\ \A o \in objects : o.meta.version <= before.partitions[o.part].version =>
         \E f \in before.files : RowOf(f, o)

Rebuilt ==
  phase = "rebuilt" =>
    /\ \A o \in objects : HasRow(o)
    /\ \A p \in Partitions : partitions[p] = Numbered(Top(p))

\* What is not on a run's lists any more is in the catalog.
RunsKnow ==
  \A r \in Rebuilders : rpc[r] = "insert" =>
    /\ \A o \in objects : o.key \in listed[r] \/ HasRow(o)
    /\ \A k \in listed[r] : \E o \in objects : o.key = k /\ o.part \in toUpsert[r]
    /\ \A o \in objects : o.part \in toUpsert[r] \/ partitions[o.part] = Numbered(Top(o.part))

RowsHaveObjects == \A f \in files : \E o \in objects : RowOf(f, o)

IInv == TypeInv /\ KeysUnique /\ RowsHaveObjects /\ Live /\ Gone /\ Rebuilt /\ RunsKnow

-----------------------------------------------------------------------------
(* Counting and metadata.                                                  *)

\* What is numbered from 1 to n, each number once, has n elements.
LEMMA CountNumbered ==
  ASSUME NEW S, NEW n \in Nat, NEW v, \A x \in S : v[x] \in 1 .. n,
         \A i \in 1 .. n : \E x \in S : v[x] = i,
         \A x, y \in S : v[x] = v[y] => x = y
  PROVE  Cardinality(S) = n
<1> DEFINE at == [i \in 1 .. n |-> CHOOSE x \in S : v[x] = i]
<1>1. \A i \in 1 .. n : at[i] \in S /\ v[at[i]] = i
  OBVIOUS
<1>2. at \in [1 .. n -> S]
  BY <1>1
<1>3. \A i, j \in 1 .. n : at[i] = at[j] => i = j
  BY <1>1
<1>4. \A x \in S : \E i \in 1 .. n : at[i] = x
  BY <1>1
<1>5. at \in Bijection(1 .. n, S)
  <2> HIDE DEF at
  <2> QED BY <1>2, <1>3, <1>4 DEF Bijection, Injection, Surjection, IsInjective
<1>6. ExistsBijection(1 .. n, S)
  BY <1>5 DEF ExistsBijection
<1> QED BY <1>6, FS_CountingElements

LEMMA RowCount ==
  ASSUME NEW p, NEW n \in Nat, RowsNumbered(p, n)
  PROVE  Cardinality(RowsOf(p)) = n
<1> DEFINE v == [f \in RowsOf(p) |-> f.version]
<1>1. /\ \A f \in RowsOf(p) : v[f] \in 1 .. n
      /\ \A i \in 1 .. n : \E f \in RowsOf(p) : v[f] = i
      /\ \A f, g \in RowsOf(p) : v[f] = v[g] => f = g
  BY DEF RowsNumbered
<1> HIDE DEF v
<1> QED BY <1>1, CountNumbered

LEMMA ObjectCount ==
  ASSUME NEW p, NEW n \in Nat, ObjectsNumbered(p, n)
  PROVE  Cardinality(GroupOf(p)) = n
<1> DEFINE v == [o \in GroupOf(p) |-> o.meta.version]
<1>1. /\ \A o \in GroupOf(p) : v[o] \in 1 .. n
      /\ \A i \in 1 .. n : \E o \in GroupOf(p) : v[o] = i
      /\ \A o, q \in GroupOf(p) : v[o] = v[q] => o = q
  BY DEF ObjectsNumbered
<1> HIDE DEF v
<1> QED BY <1>1, CountNumbered

\* The object of a key.
LEMMA ObjectIs ==
  ASSUME KeysUnique, NEW o \in objects
  PROVE  ObjectAt(o.key) = o
<1>1. \E q \in objects : q.key = o.key
  OBVIOUS
<1>2. ObjectAt(o.key) \in objects /\ ObjectAt(o.key).key = o.key
  BY <1>1 DEF ObjectAt
<1> QED BY <1>2 DEF KeysUnique

\* A row of an object's key is its row.
LEMMA RowIs ==
  ASSUME KeysUnique, RowsHaveObjects, NEW f \in files, NEW o \in objects, f.key = o.key
  PROVE  RowOf(f, o)
BY DEF KeysUnique, RowsHaveObjects, RowOf

\* When every object has a row, rows are numbered as objects are.
LEMMA RowsAsObjects ==
  ASSUME KeysUnique, RowsHaveObjects, \A o \in objects : HasRow(o),
         NEW p, NEW n \in Nat, ObjectsNumbered(p, n)
  PROVE  RowsNumbered(p, n)
<1>1. \A f \in RowsOf(p) : \E o \in GroupOf(p) : RowOf(f, o)
  BY DEF RowsOf, GroupOf, RowsHaveObjects, RowOf
<1>2. \A o \in GroupOf(p) : \E f \in RowsOf(p) : RowOf(f, o)
  BY DEF RowsOf, GroupOf, HasRow, RowOf
<1>3. \A f \in RowsOf(p) : f.version \in 1 .. n
  BY <1>1 DEF ObjectsNumbered, RowOf
<1>4. \A i \in 1 .. n : \E f \in RowsOf(p) : f.version = i
  BY <1>2 DEF ObjectsNumbered, RowOf
<1>5. ASSUME NEW f \in RowsOf(p), NEW g \in RowsOf(p), f.version = g.version
      PROVE  f = g
  <2>1. PICK o \in GroupOf(p), q \in GroupOf(p) : RowOf(f, o) /\ RowOf(g, q)
    BY <1>1
  <2>2. o = q
    BY <1>5, <2>1 DEF ObjectsNumbered, RowOf
  <2> QED BY <2>1, <2>2 DEF KeysUnique, RowsOf, RowOf
<1> QED BY <1>3, <1>4, <1>5 DEF RowsNumbered

-----------------------------------------------------------------------------
(* Writes, before the loss and after the rebuild.                          *)

\* The invariant holds initially.
LEMMA InitInv == Init => IInv
<1> SUFFICES ASSUME Init PROVE IInv
  OBVIOUS
<1>1. TypeInv
  BY DEF Init, TypeInv, NoRow, PartitionRows
<1>2. KeysUnique /\ RowsHaveObjects /\ Gone /\ Rebuilt /\ RunsKnow
  BY DEF Init, KeysUnique, RowsHaveObjects, Gone, Rebuilt, RunsKnow
<1>3. Live
  BY DEF Init, Live, RowsNumbered, RowsOf, NoRow
<1> QED BY <1>1, <1>2, <1>3 DEF IInv

\* A row and an object with the next version.
LEMMA CommittedInv ==
  ASSUME IInv, NEW k \in Keys, NEW p \in Partitions, NEW t,
         WriteCommits(k, p, t)
  PROVE  IInv'
<1> DEFINE v   == partitions[p].version + 1
           row == [id |-> NextId, key |-> k, part |-> p, token |-> t, version |-> v]
           obj == [key |-> k, part |-> p, meta |-> BuildS3Metadata(t, v)]
<1>0. /\ partitions \in [Partitions -> PartitionRows] /\ partitions[p].version \in Nat
      /\ partitions[p].fileCount \in Nat /\ v \in Nat
      /\ \A q \in Partitions : partitions[q] \in PartitionRows
  BY DEF IInv, TypeInv, PartitionRows
<1>1. /\ phase # "lost" /\ \A r \in Rebuilders : rpc[r] = "idle"
      /\ files' = files \cup {row} /\ objects' = objects \cup {obj}
      /\ partitions' = [partitions EXCEPT ![p] = [version |-> v,
                                                  fileCount |-> partitions[p].fileCount + 1]]
      /\ UNCHANGED <<phase, before, rpc, listed, toUpsert>>
  BY DEF WriteCommits, PutObject, runVars
<1>2. /\ row.key = k /\ row.part = p /\ row.version = v
      /\ obj.key = k /\ obj.part = p /\ obj.meta.version = v
  BY DEF BuildS3Metadata
<1>3. RowOf(row, obj)
  BY <1>1 DEF RowOf, BuildS3Metadata
<1>4. \A o \in objects : o.key # k
  BY DEF WriteCommits, UsedKeys
<1>5. \A f \in files : f.key # k
  BY <1>4 DEF IInv, RowsHaveObjects, RowOf
<1>6. \A f : \A o : RowOf(f, o)' = RowOf(f, o)
  BY DEF RowOf
<1>7. /\ partitions'[p].version = v /\ partitions'[p].fileCount = partitions[p].fileCount + 1
      /\ \A q \in Partitions \ {p} : partitions'[q] = partitions[q]
      /\ partitions' \in [Partitions -> PartitionRows]
  BY <1>0, <1>1 DEF PartitionRows
<1> HIDE DEF row, obj
<1>8. TypeInv'
  <2>1. \A f \in files' : f.key \in Keys /\ f.part \in Partitions /\ f.version \in Nat
    BY <1>0, <1>1, <1>2 DEF IInv, TypeInv
  <2>2. \A o \in objects' : o.key \in Keys /\ o.part \in Partitions /\ o.meta.version \in Nat
    BY <1>0, <1>1, <1>2 DEF IInv, TypeInv
  <2> QED BY <1>1, <1>7, <2>1, <2>2 DEF IInv, TypeInv
<1>9. KeysUnique'
  BY <1>1, <1>2, <1>4, <1>5 DEF IInv, KeysUnique
<1>10. RowsHaveObjects'
  BY <1>1, <1>3, <1>6 DEF IInv, RowsHaveObjects
<1>11. \A q \in Partitions : RowsOf(q)' = IF q = p THEN RowsOf(q) \cup {row} ELSE RowsOf(q)
  BY <1>1, <1>2 DEF RowsOf
<1>12. \A q \in Partitions : GroupOf(q)' = IF q = p THEN GroupOf(q) \cup {obj} ELSE GroupOf(q)
  BY <1>1, <1>2 DEF GroupOf
<1>13. Live'
  <2> SUFFICES ASSUME phase = "live", NEW q \in Partitions
               PROVE  RowsNumbered(q, partitions[q].version)'
                      /\ partitions'[q].fileCount = partitions'[q].version
    BY <1>1 DEF Live
  <2>1. RowsNumbered(q, partitions[q].version) /\ partitions[q].fileCount = partitions[q].version
    BY DEF IInv, Live
  <2>2. CASE q # p
    BY <1>7, <1>11, <2>1, <2>2 DEF RowsNumbered
  <2>3. CASE q = p
    <3>1. RowsOf(p)' = RowsOf(p) \cup {row} /\ partitions'[p].version = v
      BY <1>7, <1>11
    <3>2. RowsNumbered(p, partitions[p].version)'
      BY <1>0, <1>2, <2>1, <2>3, <3>1 DEF RowsNumbered
    <3> QED BY <1>0, <1>7, <2>1, <2>3, <3>2
  <2> QED BY <2>2, <2>3
<1>14. CASE phase = "live"
  <2>1. Gone' /\ Rebuilt' /\ RunsKnow'
    BY <1>1, <1>14 DEF Gone, Rebuilt, RunsKnow
  <2> QED BY <1>8, <1>9, <1>10, <1>13, <2>1 DEF IInv
<1>15. CASE phase = "rebuilt"
  <2>0. \A q : Top(q) = partitions[q].version /\ Top(q)' = partitions'[q].version
    BY <1>1, <1>15 DEF Top
  <2>1. ASSUME NEW q \in Partitions
        PROVE  /\ ObjectsNumbered(q, Top(q))'
               /\ before.partitions[q].version <= Top(q)'
               /\ partitions'[q] = Numbered(Top(q)')
    <3>1. /\ ObjectsNumbered(q, partitions[q].version) /\ before.partitions[q].version <= Top(q)
          /\ partitions[q] = Numbered(partitions[q].version)
      BY <1>15, <2>0 DEF IInv, Gone, Rebuilt
    <3>2. CASE q # p
      BY <1>1, <1>7, <1>12, <2>0, <3>1, <3>2 DEF ObjectsNumbered
    <3>3. CASE q = p
      <4>1. GroupOf(p)' = GroupOf(p) \cup {obj} /\ Top(p)' = v
        BY <1>7, <1>12, <2>0
      <4>2. ObjectsNumbered(p, Top(p))'
        BY <1>0, <1>2, <3>1, <3>3, <4>1 DEF ObjectsNumbered
      <4>3. before.partitions[p].version <= v
        BY <1>0, <2>0, <3>1, <3>3 DEF IInv, TypeInv, PartitionRows
      <4>4. partitions'[p] = Numbered(v)
        <5>1. partitions[p].fileCount = partitions[p].version
          BY <3>1, <3>3 DEF Numbered
        <5> QED BY <1>0, <1>1, <5>1 DEF Numbered
      <4> QED BY <3>3, <4>1, <4>2, <4>3, <4>4
    <3> QED BY <3>2, <3>3
  <2>2. \A f \in before.files :
          /\ f.version <= before.partitions[f.part].version
          /\ \E o \in objects' : RowOf(f, o)
    BY <1>1, <1>15 DEF IInv, Gone
  <2>3. ASSUME NEW o \in objects', o.meta.version <= before.partitions[o.part].version
        PROVE  \E f \in before.files : RowOf(f, o)
    <3>1. o \in objects
      <4>1. obj.meta.version > before.partitions[obj.part].version
        <5>1. before.partitions[p].version <= partitions[p].version
          BY <1>15, <2>0 DEF IInv, Gone
        <5>2. before.partitions[p].version \in Nat
          BY DEF IInv, TypeInv, PartitionRows
        <5> QED BY <1>0, <1>2, <5>1, <5>2
      <4>2. v \in Nat /\ before.partitions[obj.part].version \in Nat
        BY <1>0, <1>2 DEF IInv, TypeInv, PartitionRows
      <4> QED BY <1>1, <1>2, <2>3, <4>1, <4>2
    <3> QED BY <1>15, <2>3, <3>1 DEF IInv, Gone
  <2>4. Gone'
    BY <1>1, <1>6, <2>1, <2>2, <2>3 DEF Gone
  <2>5. Rebuilt'
    <3>1. \A o \in objects' : \E f \in files' : RowOf(f, o)
      BY <1>1, <1>3, <1>15 DEF IInv, Rebuilt, HasRow
    <3> QED BY <1>6, <2>1, <3>1 DEF Rebuilt, HasRow
  <2>6. RunsKnow'
    BY <1>1 DEF RunsKnow
  <2> QED BY <1>8, <1>9, <1>10, <1>13, <2>4, <2>5, <2>6 DEF IInv
<1> QED BY <1>1, <1>14, <1>15 DEF IInv, TypeInv

\* Objects without a row come and go while the store is live.
LEMMA OrphanInv ==
  ASSUME IInv,
         \/ Collect
         \/ \E k \in Keys, p \in Partitions : \E t : WriteFails(k, p, t)
  PROVE  IInv'
<1>1. phase = "live" /\ UNCHANGED <<phase, files, partitions, before, rpc, listed, toUpsert>>
  BY DEF Collect, WriteFails, catalog, runVars
<1>2. TypeInv' /\ KeysUnique' /\ RowsHaveObjects'
  <2>1. CASE Collect
    <3>1. PICK o \in Orphans : objects' = objects \ {o}
      BY <2>1 DEF Collect
    <3>2. \A f \in files : \E q \in objects' : RowOf(f, q)
      BY <3>1 DEF IInv, RowsHaveObjects, Orphans, RowOf
    <3>3. TypeInv' /\ KeysUnique'
      BY <1>1, <3>1 DEF IInv, TypeInv, KeysUnique
    <3>4. RowsHaveObjects'
      BY <1>1, <3>2 DEF RowsHaveObjects, RowOf
    <3> QED BY <3>3, <3>4
  <2>2. ASSUME NEW k \in Keys, NEW p \in Partitions, NEW t, WriteFails(k, p, t)
        PROVE  TypeInv' /\ KeysUnique' /\ RowsHaveObjects'
    <3> DEFINE obj == [key |-> k, part |-> p,
                       meta |-> BuildS3Metadata(t, partitions[p].version + 1)]
    <3>1. objects' = objects \cup {obj} /\ \A o \in objects : o.key # k
      BY <2>2 DEF WriteFails, PutObject, UsedKeys
    <3>2. obj.key = k /\ obj.part = p /\ obj.meta.version \in Nat
      BY DEF BuildS3Metadata, IInv, TypeInv, PartitionRows
    <3> HIDE DEF obj
    <3>3. TypeInv' /\ KeysUnique'
      BY <1>1, <3>1, <3>2 DEF IInv, TypeInv, KeysUnique
    <3>4. RowsHaveObjects'
      BY <1>1, <3>1 DEF IInv, RowsHaveObjects, RowOf
    <3> QED BY <3>3, <3>4
  <2> QED BY <2>1, <2>2
<1>3. Live'
  BY <1>1 DEF IInv, Live, RowsNumbered, RowsOf
<1>4. Gone' /\ Rebuilt' /\ RunsKnow'
  BY <1>1 DEF IInv, Live, Gone, Rebuilt, RunsKnow
<1> QED BY <1>2, <1>3, <1>4 DEF IInv

\* The loss: every object has the metadata of a row.
LEMMA LossInv ==
  ASSUME OrphansAtLoss = FALSE, IInv, Lose
  PROVE  IInv'
<1>1. /\ phase = "live" /\ phase' = "lost" /\ Orphans = {}
      /\ before' = [files |-> files, partitions |-> partitions]
      /\ files' = {} /\ partitions' = [p \in Partitions |-> NoRow]
      /\ UNCHANGED <<objects, rpc, listed, toUpsert>>
  BY DEF Lose, runVars
<1>2. before'.files = files /\ before'.partitions = partitions
  BY <1>1
<1>3. \A o \in objects : HasRow(o)
  BY <1>1, RowIs DEF Orphans, HasRow, IInv
<1>4. TypeInv'
  BY <1>1, <1>2 DEF IInv, TypeInv, NoRow, PartitionRows
<1>5. KeysUnique' /\ RowsHaveObjects' /\ Live' /\ Rebuilt' /\ RunsKnow'
  BY <1>1 DEF IInv, KeysUnique, RowsHaveObjects, Live, Rebuilt, RunsKnow
<1>6. ASSUME NEW p \in Partitions PROVE ObjectsNumbered(p, partitions[p].version)
  <2> DEFINE n == partitions[p].version
  <2>1. RowsNumbered(p, n)
    BY <1>1 DEF IInv, Live
  <2> HIDE DEF n
  <2>2. \A o \in GroupOf(p) : \E f \in RowsOf(p) : RowOf(f, o)
    BY <1>3 DEF HasRow, GroupOf, RowsOf, RowOf
  <2>3. \A f \in RowsOf(p) : \E o \in GroupOf(p) : RowOf(f, o)
    BY DEF IInv, RowsHaveObjects, GroupOf, RowsOf, RowOf
  <2>4. \A o \in GroupOf(p) : o.meta.version \in 1 .. n
    BY <2>1, <2>2 DEF RowsNumbered, RowOf
  <2>5. \A i \in 1 .. n : \E o \in GroupOf(p) : o.meta.version = i
    BY <2>1, <2>3 DEF RowsNumbered, RowOf
  <2>6. ASSUME NEW o \in GroupOf(p), NEW q \in GroupOf(p), o.meta.version = q.meta.version
        PROVE  o = q
    <3>1. PICK f \in RowsOf(p), g \in RowsOf(p) : RowOf(f, o) /\ RowOf(g, q)
      BY <2>2
    <3>2. f = g
      BY <2>1, <2>6, <3>1 DEF RowsNumbered, RowOf
    <3> QED BY <3>1, <3>2 DEF IInv, KeysUnique, GroupOf, RowOf
  <2> QED BY <2>4, <2>5, <2>6 DEF ObjectsNumbered, n
<1>7. Gone'
  <2>1. ASSUME NEW p \in Partitions
        PROVE  /\ ObjectsNumbered(p, Top(p))'
               /\ before'.partitions[p].version <= Top(p)'
               /\ partitions'[p] = NoRow
    <3>1. Top(p)' = partitions[p].version
      BY <1>1, <1>2 DEF Top
    <3>2. partitions[p].version \in Nat
      BY DEF IInv, TypeInv, PartitionRows
    <3> QED BY <1>1, <1>2, <1>6, <3>1, <3>2 DEF ObjectsNumbered, GroupOf
  <2>2. ASSUME NEW f \in files
        PROVE  /\ f.version <= partitions[f.part].version
               /\ \E o \in objects : RowOf(f, o)
    <3>1. f.part \in Partitions /\ f \in RowsOf(f.part) /\ partitions[f.part].version \in Nat
      BY DEF IInv, TypeInv, RowsOf, PartitionRows
    <3>2. f.version \in 1 .. partitions[f.part].version
      BY <1>1, <3>1 DEF IInv, Live, RowsNumbered
    <3> QED BY <3>1, <3>2 DEF IInv, RowsHaveObjects
  <2>3. \A o \in objects : \E f \in files : RowOf(f, o)
    BY <1>3 DEF HasRow
  <2> QED BY <1>1, <1>2, <2>1, <2>2, <2>3 DEF Gone, RowOf
<1> QED BY <1>4, <1>5, <1>7 DEF IInv

-----------------------------------------------------------------------------
(* Runs of Rebuild.                                                        *)

\* While runs go on, objects stay, and rows are only added.
LEMMA RunKeeps ==
  ASSUME IInv, phase # "live", UNCHANGED <<phase, objects, before>>,
         files \subseteq files', \A p \in Partitions : Top(p)' = Top(p),
         \A p \in Partitions : partitions'[p] \in {partitions[p], Numbered(Top(p))}
  PROVE  /\ Live' /\ Gone' /\ Rebuilt'
         /\ \A o \in objects : HasRow(o) => HasRow(o)'
         /\ \A p \in Partitions :
              partitions[p] = Numbered(Top(p)) => partitions'[p] = Numbered(Top(p)')
<1>1. \A o \in objects : HasRow(o) => HasRow(o)'
  BY DEF HasRow, RowOf
<1>2. \A p \in Partitions :
        partitions[p] = Numbered(Top(p)) => partitions'[p] = Numbered(Top(p)')
  OBVIOUS
<1>3. Gone'
  <2>1. ASSUME NEW p \in Partitions
        PROVE  /\ ObjectsNumbered(p, Top(p))' /\ before'.partitions[p].version <= Top(p)'
               /\ partitions'[p] \in {NoRow, Numbered(Top(p)')}
    <3>1. ObjectsNumbered(p, Top(p)) /\ before.partitions[p].version <= Top(p)
          /\ partitions[p] \in {NoRow, Numbered(Top(p))}
      BY DEF IInv, Gone
    <3>2. ObjectsNumbered(p, Top(p))' = ObjectsNumbered(p, Top(p))
      BY DEF ObjectsNumbered, GroupOf
    <3> QED BY <3>1, <3>2
  <2>2. /\ \A f \in before.files :
             /\ f.version <= before.partitions[f.part].version
             /\ \E o \in objects : RowOf(f, o)
        /\ \A o \in objects : o.meta.version <= before.partitions[o.part].version =>
             \E f \in before.files : RowOf(f, o)
    BY DEF IInv, Gone
  <2> QED BY <2>1, <2>2 DEF Gone, RowOf
<1>4. Live'
  BY DEF Live
<1>5. Rebuilt'
  BY <1>1, <1>2 DEF IInv, Rebuilt
<1> QED BY <1>1, <1>2, <1>3, <1>4, <1>5

\* A run lists every object and its partition.
LEMMA ListInv ==
  ASSUME IInv, NEW r \in Rebuilders, List(r)
  PROVE  IInv'
<1>1. /\ phase # "live" /\ rpc' = [rpc EXCEPT ![r] = "insert"]
      /\ listed' = [listed EXCEPT ![r] = UsedKeys]
      /\ toUpsert' = [toUpsert EXCEPT ![r] = {o.part : o \in objects}]
      /\ UNCHANGED <<phase, files, partitions, objects, before>>
  BY DEF List, Run, catalog
<1>2. \A p : Top(p)' = Top(p)
  BY <1>1 DEF Top
<1>3. TypeInv'
  BY <1>1 DEF IInv, TypeInv, UsedKeys
<1>4. KeysUnique' /\ RowsHaveObjects'
  BY <1>1 DEF IInv, KeysUnique, RowsHaveObjects, RowOf
<1>5. /\ Live' /\ Gone' /\ Rebuilt'
      /\ \A o \in objects : HasRow(o) => HasRow(o)'
  BY <1>1, <1>2, RunKeeps
<1>6. RunsKnow'
  <2> SUFFICES ASSUME NEW x \in Rebuilders, rpc'[x] = "insert"
               PROVE  /\ \A o \in objects : o.key \in listed'[x] \/ HasRow(o)'
                      /\ \A k \in listed'[x] :
                           \E o \in objects : o.key = k /\ o.part \in toUpsert'[x]
                      /\ \A o \in objects : \/ o.part \in toUpsert'[x]
                                            \/ partitions[o.part] = Numbered(Top(o.part))
    BY <1>1, <1>2 DEF RunsKnow
  <2>1. CASE x = r
    <3>1. listed'[x] = UsedKeys /\ toUpsert'[x] = {o.part : o \in objects}
      BY <1>1, <2>1 DEF IInv, TypeInv
    <3> QED BY <3>1 DEF UsedKeys
  <2>2. CASE x # r
    <3>1. listed'[x] = listed[x] /\ toUpsert'[x] = toUpsert[x] /\ rpc[x] = "insert"
      BY <1>1, <2>2 DEF IInv, TypeInv
    <3> QED BY <1>5, <3>1 DEF IInv, RunsKnow
  <2> QED BY <2>1, <2>2
<1> QED BY <1>3, <1>4, <1>5, <1>6 DEF IInv

\* A run stops: nothing is asked of it any more.
LEMMA StopInv ==
  ASSUME IInv, NEW r \in Rebuilders, Stops(r)
  PROVE  IInv'
<1>1. /\ rpc[r] = "insert" /\ rpc' = [rpc EXCEPT ![r] = "idle"]
      /\ listed' = [listed EXCEPT ![r] = {}] /\ toUpsert' = [toUpsert EXCEPT ![r] = {}]
      /\ UNCHANGED <<phase, files, partitions, objects, before>>
  BY DEF Stops, Run, catalog
<1>2. \A p : Top(p)' = Top(p)
  BY <1>1 DEF Top
<1>3. TypeInv'
  BY <1>1 DEF IInv, TypeInv
<1>4. KeysUnique' /\ RowsHaveObjects'
  BY <1>1 DEF IInv, KeysUnique, RowsHaveObjects, RowOf
<1>5. phase # "live"
  BY <1>1 DEF IInv, Live
<1>6. /\ Live' /\ Gone' /\ Rebuilt'
      /\ \A o \in objects : HasRow(o) => HasRow(o)'
  BY <1>1, <1>2, <1>5, RunKeeps
<1>7. RunsKnow'
  <2> SUFFICES ASSUME NEW x \in Rebuilders, rpc'[x] = "insert"
               PROVE  /\ \A o \in objects : o.key \in listed'[x] \/ HasRow(o)'
                      /\ \A k \in listed'[x] :
                           \E o \in objects : o.key = k /\ o.part \in toUpsert'[x]
                      /\ \A o \in objects : \/ o.part \in toUpsert'[x]
                                            \/ partitions[o.part] = Numbered(Top(o.part))
    BY <1>1, <1>2 DEF RunsKnow
  <2>1. x # r
    BY <1>1 DEF IInv, TypeInv
  <2>2. listed'[x] = listed[x] /\ toUpsert'[x] = toUpsert[x] /\ rpc[x] = "insert"
    BY <1>1, <2>1 DEF IInv, TypeInv
  <2> QED BY <1>6, <2>2 DEF IInv, RunsKnow
<1> QED BY <1>3, <1>4, <1>6, <1>7 DEF IInv

\* A run inserts the row that the object's metadata says, or finds it.
LEMMA InsertInv ==
  ASSUME IInv, NEW r \in Rebuilders, InsertFileRow(r)
  PROVE  IInv'
<1>1. PICK k \in listed[r] :
        /\ rpc[r] = "insert"
        /\ \/ RowExists(k) /\ files' = files
           \/ ~RowExists(k) /\ files' = files \cup {RecoveredRow(k)}
        /\ listed' = [listed EXCEPT ![r] = @ \ {k}]
        /\ UNCHANGED <<phase, partitions, objects, before, rpc, toUpsert>>
  BY DEF InsertFileRow, Waiting
<1>2. PICK o \in objects : o.key = k
  BY <1>1 DEF IInv, RunsKnow
<1>3. ObjectAt(k) = o
  BY <1>2, ObjectIs DEF IInv
<1>4. RowOf(RecoveredRow(k), o)
  BY <1>2, <1>3 DEF RecoveredRow, RowOf
<1>5. phase # "live" /\ files \subseteq files' /\ \A p : Top(p)' = Top(p)
  BY <1>1 DEF IInv, Live, Top
<1>6. HasRow(o)'
  <2>1. CASE RowExists(k)
    <3>1. PICK f \in files : f.key = k
      BY <2>1 DEF RowExists
    <3>2. RowOf(f, o)
      BY <1>2, <3>1, RowIs DEF IInv
    <3> QED BY <1>5, <3>1, <3>2 DEF HasRow, RowOf
  <2>2. CASE ~RowExists(k)
    <3>1. RecoveredRow(k) \in files'
      BY <1>1, <2>2
    <3>2. \E f \in files' : RowOf(f, o)
      BY <1>4, <3>1
    <3> QED BY <1>1, <3>2 DEF HasRow, RowOf
  <2> QED BY <2>1, <2>2
<1>7. /\ Live' /\ Gone' /\ Rebuilt'
      /\ \A q \in objects : HasRow(q) => HasRow(q)'
  BY <1>1, <1>5, RunKeeps
<1>8. \A f \in files' : f \in files \/ RowOf(f, o)
  BY <1>1, <1>4
<1>9. TypeInv'
  <2>1. \A f \in files' : f.key \in Keys /\ f.part \in Partitions /\ f.version \in Nat
    BY <1>8 DEF IInv, TypeInv, RowOf
  <2> QED BY <1>1, <2>1 DEF IInv, TypeInv
<1>10. KeysUnique'
  <2>1. ASSUME ~RowExists(k), NEW f \in files PROVE f.key # RecoveredRow(k).key
    BY <1>2, <1>4, <2>1 DEF RowExists, RowOf
  <2>2. \A f, g \in files' : f.key = g.key => f = g
    BY <1>1, <2>1 DEF IInv, KeysUnique
  <2> QED BY <1>1, <2>2 DEF IInv, KeysUnique
<1>11. RowsHaveObjects'
  <2>1. \A f \in files' : \E q \in objects : RowOf(f, q)
    BY <1>8 DEF IInv, RowsHaveObjects
  <2> QED BY <1>1, <2>1 DEF RowsHaveObjects, RowOf
<1>12. RunsKnow'
  <2> SUFFICES ASSUME NEW x \in Rebuilders, rpc[x] = "insert"
               PROVE  /\ \A q \in objects : q.key \in listed'[x] \/ HasRow(q)'
                      /\ \A j \in listed'[x] :
                           \E q \in objects : q.key = j /\ q.part \in toUpsert[x]
                      /\ \A q \in objects : \/ q.part \in toUpsert[x]
                                            \/ partitions[q.part] = Numbered(Top(q.part))
    BY <1>1, <1>5 DEF RunsKnow
  <2>1. listed'[x] = IF x = r THEN listed[x] \ {k} ELSE listed[x]
    BY <1>1 DEF IInv, TypeInv
  <2>2. \A q \in objects : q.key = k => HasRow(q)'
    BY <1>2, <1>6 DEF IInv, KeysUnique
  <2>3. \A q \in objects : q.key \in listed[x] \/ HasRow(q)
    BY DEF IInv, RunsKnow
  <2>4. \A q \in objects : q.key \in listed'[x] \/ HasRow(q)'
    BY <1>7, <2>1, <2>2, <2>3
  <2> QED BY <2>1, <2>4 DEF IInv, RunsKnow
<1> QED BY <1>7, <1>9, <1>10, <1>11, <1>12 DEF IInv

\* A run upserts a partition whose objects all have their rows: it gets the
\* highest version of the objects, which is their number.
LEMMA UpsertInv ==
  ASSUME IInv, NEW r \in Rebuilders, UpsertPartitionRow(r)
  PROVE  IInv'
<1>0. PICK p \in toUpsert[r] : \E last \in GroupOf(p) :
        /\ rpc[r] = "insert" /\ Waiting(r, p) = {}
        /\ \A o \in GroupOf(p) : o.meta.version <= last.meta.version
        /\ partitions' = [partitions EXCEPT ![p] = [version   |-> last.meta.version,
                                                   fileCount |-> Cardinality(GroupOf(p))]]
        /\ toUpsert' = [toUpsert EXCEPT ![r] = @ \ {p}]
        /\ UNCHANGED <<phase, files, objects, before, rpc, listed>>
  BY DEF UpsertPartitionRow
<1>1. PICK last \in GroupOf(p) :
        /\ rpc[r] = "insert" /\ Waiting(r, p) = {}
        /\ \A o \in GroupOf(p) : o.meta.version <= last.meta.version
        /\ partitions' = [partitions EXCEPT ![p] = [version   |-> last.meta.version,
                                                   fileCount |-> Cardinality(GroupOf(p))]]
        /\ toUpsert' = [toUpsert EXCEPT ![r] = @ \ {p}]
        /\ UNCHANGED <<phase, files, objects, before, rpc, listed>>
  BY <1>0
<1>2. /\ phase \in {"lost", "rebuilt"} /\ p \in Partitions /\ Top(p) \in Nat
      /\ ObjectsNumbered(p, Top(p))
      /\ partitions \in [Partitions -> PartitionRows]
  BY <1>1 DEF IInv, TypeInv, Live, Gone, Top, PartitionRows
<1>3. last.meta.version = Top(p)
  <2>1. last.meta.version \in 1 .. Top(p)
    BY <1>1, <1>2 DEF ObjectsNumbered
  <2>2. PICK o \in GroupOf(p) : o.meta.version = Top(p)
    BY <1>2, <2>1 DEF ObjectsNumbered
  <2>3. o.meta.version <= last.meta.version
    BY <1>1, <2>2
  <2> QED BY <1>2, <2>1, <2>2, <2>3
<1>4. partitions' = [partitions EXCEPT ![p] = Numbered(Top(p))]
  BY <1>1, <1>2, <1>3, ObjectCount DEF Numbered
<1>5. \A q \in Partitions : Top(q)' = Top(q)
  <2>1. CASE phase = "lost"
    BY <1>1, <2>1 DEF Top
  <2>2. CASE phase = "rebuilt"
    <3>1. partitions[p] = Numbered(Top(p))
      BY <1>2, <2>2 DEF IInv, Rebuilt
    <3>2. partitions' = partitions
      BY <1>2, <1>4, <3>1
    <3> QED BY <1>1, <3>2 DEF Top
  <2> QED BY <1>2, <2>1, <2>2
<1>6. /\ Live' /\ Gone' /\ Rebuilt'
      /\ \A q \in objects : HasRow(q) => HasRow(q)'
      /\ \A q \in Partitions :
           partitions[q] = Numbered(Top(q)) => partitions'[q] = Numbered(Top(q)')
  <2>1. \A q \in Partitions : partitions'[q] \in {partitions[q], Numbered(Top(q))}
    BY <1>2, <1>4
  <2> QED BY <1>1, <1>2, <1>5, <2>1, RunKeeps
<1>7. TypeInv'
  BY <1>1, <1>2, <1>4 DEF IInv, TypeInv, Numbered, PartitionRows
<1>8. KeysUnique' /\ RowsHaveObjects'
  BY <1>1 DEF IInv, KeysUnique, RowsHaveObjects, RowOf
<1>9. RunsKnow'
  <2> SUFFICES ASSUME NEW x \in Rebuilders, rpc[x] = "insert"
               PROVE  /\ \A q \in objects : q.key \in listed[x] \/ HasRow(q)'
                      /\ \A k \in listed[x] :
                           \E q \in objects : q.key = k /\ q.part \in toUpsert'[x]
                      /\ \A q \in objects : \/ q.part \in toUpsert'[x]
                                            \/ partitions'[q.part] = Numbered(Top(q.part)')
    BY <1>1 DEF RunsKnow
  <2>1. toUpsert'[x] = IF x = r THEN toUpsert[x] \ {p} ELSE toUpsert[x]
    BY <1>1 DEF IInv, TypeInv
  <2>2. \A q \in objects : q.key \in listed[x] \/ HasRow(q)'
    BY <1>6 DEF IInv, RunsKnow
  <2>3. ASSUME NEW k \in listed[x]
        PROVE  \E q \in objects : q.key = k /\ q.part \in toUpsert'[x]
    <3>1. PICK q \in objects : q.key = k /\ q.part \in toUpsert[x]
      BY DEF IInv, RunsKnow
    <3>2. x = r => q.part # p
      BY <1>1, <3>1, ObjectIs DEF IInv, Waiting
    <3> QED BY <2>1, <3>1, <3>2
  <2>4. partitions'[p] = Numbered(Top(p)')
    BY <1>2, <1>4, <1>5
  <2>5. ASSUME NEW q \in objects
        PROVE  q.part \in toUpsert'[x] \/ partitions'[q.part] = Numbered(Top(q.part)')
    <3>1. q.part \in Partitions
      BY DEF IInv, TypeInv
    <3>2. q.part \in toUpsert[x] \/ partitions[q.part] = Numbered(Top(q.part))
      BY DEF IInv, RunsKnow
    <3> QED BY <1>6, <2>1, <2>4, <3>1, <3>2
  <2> QED BY <2>2, <2>3, <2>5
<1> QED BY <1>6, <1>7, <1>8, <1>9 DEF IInv

\* A run that has upserted its last partition has nothing left on its lists: the
\* catalog has a row of each object, and each partition's.
LEMMA EndInv ==
  ASSUME IInv, NEW r \in Rebuilders, EndsWell(r)
  PROVE  IInv'
<1>1. /\ rpc[r] = "insert" /\ toUpsert[r] = {} /\ phase' = "rebuilt"
      /\ rpc' = [rpc EXCEPT ![r] = "idle"]
      /\ UNCHANGED <<files, partitions, objects, before, listed, toUpsert>>
  BY DEF EndsWell, Run, catalog
<1>2. phase \in {"lost", "rebuilt"}
  BY <1>1 DEF IInv, TypeInv, Live
<1>3. \A o \in objects : HasRow(o)
  BY <1>1 DEF IInv, RunsKnow
<1>4. ASSUME NEW p \in Partitions PROVE partitions[p] = Numbered(Top(p))
  <2>1. ObjectsNumbered(p, Top(p)) /\ partitions[p] \in {NoRow, Numbered(Top(p))}
    BY <1>2 DEF IInv, Gone
  <2>2. Top(p) \in Nat
    BY DEF IInv, TypeInv, Top, PartitionRows
  <2>3. CASE GroupOf(p) = {}
    <3>1. Top(p) = 0
      BY <2>1, <2>2, <2>3 DEF ObjectsNumbered
    <3> QED BY <2>1, <3>1 DEF NoRow, Numbered
  <2>4. CASE GroupOf(p) # {}
    <3>1. PICK o \in objects : o.part = p
      BY <2>4 DEF GroupOf
    <3> QED BY <1>1, <3>1 DEF IInv, RunsKnow
  <2> QED BY <2>3, <2>4
<1>5. ASSUME NEW p \in Partitions PROVE Top(p)' = Top(p)
  <2>1. Top(p)' = partitions[p].version
    BY <1>1 DEF Top
  <2>2. partitions[p] = Numbered(Top(p))
    BY <1>4
  <2>3. partitions[p].version = Top(p)
    BY <2>2 DEF Numbered
  <2> QED BY <2>1, <2>3
<1>6. TypeInv' /\ KeysUnique' /\ RowsHaveObjects' /\ Live'
  BY <1>1 DEF IInv, TypeInv, KeysUnique, RowsHaveObjects, RowOf, Live
<1>7. Gone'
  <2>1. ASSUME NEW p \in Partitions
        PROVE  /\ ObjectsNumbered(p, Top(p))'
               /\ before.partitions[p].version <= Top(p)'
               /\ partitions[p] = Numbered(Top(p)')
    BY <1>1, <1>2, <1>4, <1>5 DEF IInv, Gone, ObjectsNumbered, GroupOf
  <2> QED BY <1>1, <1>2, <2>1 DEF IInv, Gone, RowOf
<1>8. Rebuilt'
  BY <1>1, <1>3, <1>4, <1>5 DEF Rebuilt, HasRow, RowOf
<1>9. RunsKnow'
  <2> SUFFICES ASSUME NEW x \in Rebuilders, rpc'[x] = "insert"
               PROVE  /\ \A o \in objects : o.key \in listed[x] \/ HasRow(o)'
                      /\ \A k \in listed[x] :
                           \E o \in objects : o.key = k /\ o.part \in toUpsert[x]
                      /\ \A o \in objects : \/ o.part \in toUpsert[x]
                                            \/ partitions[o.part] = Numbered(Top(o.part)')
    BY <1>1 DEF RunsKnow
  <2>1. rpc[x] = "insert"
    BY <1>1 DEF IInv, TypeInv
  <2>2. \A o \in objects : HasRow(o)'
    BY <1>1, <1>3 DEF HasRow, RowOf
  <2>3. \A o \in objects : partitions[o.part] = Numbered(Top(o.part)')
    BY <1>4, <1>5 DEF IInv, TypeInv
  <2> QED BY <2>1, <2>2, <2>3 DEF IInv, RunsKnow
<1> QED BY <1>6, <1>7, <1>8, <1>9 DEF IInv

-----------------------------------------------------------------------------
(* Theorems.                                                               *)

\* Every step keeps the invariant, if the loss finds no orphan.
LEMMA StepInv == ASSUME OrphansAtLoss = FALSE PROVE IInv /\ [Next]_vars => IInv'
<1> SUFFICES ASSUME IInv, [Next]_vars PROVE IInv'
  OBVIOUS
<1>1. CASE UNCHANGED vars
  <2>1. UNCHANGED <<phase, files, partitions, objects, before, rpc, listed, toUpsert>>
    BY <1>1 DEF vars, catalog, runVars
  <2>2. TypeInv' /\ KeysUnique' /\ RowsHaveObjects'
    BY <2>1 DEF IInv, TypeInv, KeysUnique, RowsHaveObjects, RowOf
  <2>3. Live'
    BY <2>1 DEF IInv, Live, RowsNumbered, RowsOf
  <2>4. Gone' /\ Rebuilt' /\ RunsKnow'
    BY <2>1 DEF IInv, Gone, Rebuilt, RunsKnow, HasRow, RowOf, ObjectsNumbered, GroupOf, Top
  <2> QED BY <2>2, <2>3, <2>4 DEF IInv
<1>2. ASSUME NEW k \in Keys, NEW p \in Partitions, NEW t \in Tokens \cup {NoToken},
             WriteCommits(k, p, t) \/ WriteFails(k, p, t)
      PROVE  IInv'
  BY <1>2, CommittedInv, OrphanInv
<1>3. CASE Collect
  BY <1>3, OrphanInv
<1>4. CASE Lose
  BY <1>4, LossInv
<1>5. ASSUME NEW r \in Rebuilders, RebuildStep(r) PROVE IInv'
  BY <1>5, ListInv, InsertInv, UpsertInv, EndInv, StopInv DEF RebuildStep
<1> QED BY <1>1, <1>2, <1>3, <1>4, <1>5 DEF Next

\* It holds always.
LEMMA Invariant == ASSUME OrphansAtLoss = FALSE PROVE Spec => []IInv
<1>1. IInv /\ [Next]_vars => IInv'
  BY StepInv
<1> QED BY <1>1, InitInv, PTL DEF Spec

\* Once a run of Rebuild has ended well, the catalog has the rows that were lost,
\* with their versions and tokens, whatever runs stopped
\* half-way or overlapped, provided that the loss found no object without a row
\* (cmd/s3pgstore-rebuild: insertFileRow, recoveredFields; metadata_s3.go).
THEOREM RebuildRecovers ==
  ASSUME OrphansAtLoss = FALSE
  PROVE  Spec => []CatalogRecovered
<1>1. IInv => CatalogRecovered
  <2> SUFFICES ASSUME IInv, phase = "rebuilt"
               PROVE  {Facts(f) : f \in before.files} =
                        {Facts(f) : f \in {g \in files :
                                             g.version <= before.partitions[g.part].version}}
    BY DEF CatalogRecovered
  <2> DEFINE kept == {g \in files : g.version <= before.partitions[g.part].version}
  <2>1. ASSUME NEW f \in before.files
        PROVE  \E g \in kept : Facts(g) = Facts(f)
    <3>1. PICK o \in objects : RowOf(f, o)
      BY DEF IInv, Gone
    <3>2. PICK g \in files : RowOf(g, o)
      BY DEF IInv, Rebuilt, HasRow
    <3>3. Facts(g) = Facts(f)
      BY <3>1, <3>2 DEF Facts, RowOf
    <3>4. f.version <= before.partitions[f.part].version
      BY DEF IInv, Gone
    <3>5. g \in kept
      BY <3>1, <3>2, <3>4 DEF RowOf
    <3> QED BY <3>3, <3>5
  <2>2. ASSUME NEW g \in kept
        PROVE  \E f \in before.files : Facts(f) = Facts(g)
    <3>1. PICK o \in objects : RowOf(g, o)
      BY DEF IInv, RowsHaveObjects
    <3>2. o.meta.version <= before.partitions[o.part].version
      BY <3>1 DEF RowOf
    <3>3. PICK f \in before.files : RowOf(f, o)
      BY <3>2 DEF IInv, Gone
    <3>4. Facts(f) = Facts(g)
      BY <3>1, <3>3 DEF Facts, RowOf
    <3> QED BY <3>4
  <2> HIDE DEF kept
  <2>3. {Facts(f) : f \in before.files} = {Facts(g) : g \in kept}
    BY <2>1, <2>2
  <2> QED BY <2>3 DEF kept
<1> QED BY <1>1, Invariant, PTL

\* The partitions' rows that a rebuild leaves let writes go on as if nothing had
\* been lost: version and file_count are those of the rows, which have the
\* versions from 1 up (rebuild.go:upsertPartitionRow, write.go:upsertPartition).
THEOREM OccGoesOn ==
  ASSUME OrphansAtLoss = FALSE
  PROVE  Spec => []OccContinues
<1>1. IInv => OccContinues
  <2> SUFFICES ASSUME IInv, phase # "lost", NEW p \in Partitions
               PROVE  /\ partitions[p].fileCount = Cardinality(RowsOf(p))
                      /\ {f.version : f \in RowsOf(p)} = 1 .. partitions[p].version
                      /\ Cardinality(RowsOf(p)) = partitions[p].version
    BY DEF OccContinues, RowsOf
  <2> DEFINE n == partitions[p].version
  <2>1. n \in Nat
    BY DEF IInv, TypeInv, PartitionRows
  <2>2. RowsNumbered(p, n) /\ partitions[p].fileCount = n
    <3>1. CASE phase = "live"
      BY <3>1 DEF IInv, Live
    <3>2. CASE phase = "rebuilt"
      <4>1. ObjectsNumbered(p, n)
        BY <3>2 DEF IInv, Gone, Top
      <4>2. \A o \in objects : HasRow(o)
        BY <3>2 DEF IInv, Rebuilt
      <4>3. RowsNumbered(p, n)
        BY <2>1, <4>1, <4>2, RowsAsObjects DEF IInv
      <4>4. partitions[p].fileCount = n
        <5>1. partitions[p] = Numbered(Top(p))
          BY <3>2 DEF IInv, Rebuilt
        <5>2. partitions[p].version = Top(p) /\ partitions[p].fileCount = Top(p)
          BY <5>1 DEF Numbered
        <5> QED BY <5>2
      <4> QED BY <4>3, <4>4
    <3> QED BY <3>1, <3>2 DEF IInv, TypeInv
  <2> HIDE DEF n
  <2>3. Cardinality(RowsOf(p)) = n
    BY <2>1, <2>2, RowCount
  <2>4. {f.version : f \in RowsOf(p)} = 1 .. n
    BY <2>2 DEF RowsNumbered
  <2> QED BY <2>2, <2>3, <2>4 DEF n
<1> QED BY <1>1, Invariant, PTL

=============================================================================
