---------------------------- MODULE RebuiltReads ----------------------------
(* What readers are answered from a catalog that was lost and rebuilt.     *)
EXTENDS Rebuild, ReadQuery

CONSTANTS
  Records,    \* the records of an object, by key: each an entity and a version
  Queries     \* the filters of reads, in lists

ASSUME ReadsAssumption ==
  /\ Partitions \subseteq Seq(Nat)
  /\ \A k \in Keys : Records[k] \in Seq([entity : Nat, version : Int])
  /\ \A q \in Queries : And(q) \in Filters

\* The records of each object, with where they are from.
Body ==
  [k \in Keys |->
     [i \in DOMAIN Records[k] |->
        [entity |-> Records[k][i].entity, version |-> Records[k][i].version, from |-> k]]]

\* Every snapshot read of the rebuilt catalog answers as it did before the loss,
\* record by record and in the same order, with history, with the latest versions
\* and without deduplication.
ReadsSurvive ==
  (phase = "rebuilt" /\ Cardinality(files) = Cardinality(before.files)) =>
    \A q \in {q \in Queries : Translates({"part"})[And(q)]}, mode \in Modes :
      ReadRecords(ResolveFileRefs(files, q), Body, mode) =
        ReadRecords(ResolveFileRefs(before.files, q), Body, mode)

Answer(p, mode) == ReadRecords({f \in files : f.part = p}, Body, mode)

Given(p) == UNION {Range(Body[f.key]) : f \in {f \in files : f.part = p}}

\* The reference for SortAndDedup over files: of each entity of a partition, in
\* order, the record of the highest version, and of the last key among equals.
LatestWins ==
  \A p \in Partitions :
    LET result      == Answer(p, "latest")
        Beats(a, b) == \/ a.version > b.version
                       \/ a.version = b.version /\ a.from > b.from
    IN  /\ {result[i] : i \in 1 .. Len(result)} =
             {a \in Given(p) : \A b \in Given(p) \ {a} : b.entity = a.entity => Beats(a, b)}
        /\ \A i, j \in 1 .. Len(result) : i < j => result[i].entity < result[j].entity

\* With history: of each entity and version of a partition, in order, the record
\* of the first key.
HistoryKept ==
  \A p \in Partitions :
    LET result        == Answer(p, "history")
        Same(a, b)    == a.entity = b.entity /\ a.version = b.version
        Precede(a, b) == \/ a.entity < b.entity
                         \/ a.entity = b.entity /\ a.version < b.version
    IN  /\ {result[i] : i \in 1 .. Len(result)} =
             {a \in Given(p) : \A b \in Given(p) \ {a} : Same(a, b) => a.from < b.from}
        /\ \A i, j \in 1 .. Len(result) : i < j => Precede(result[i], result[j])

=============================================================================
