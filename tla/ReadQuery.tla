----------------------------- MODULE ReadQuery -----------------------------
(***************************************************************************)
(* What a read asks of the catalog and what it makes of the files it is    *)
(* given: the filters (filter.go), the resolution of file rows and their   *)
(* grouping into partitions (read.go), the deduplication of the records    *)
(* (dedup.go).  The pipeline between them is module IterPipeline.          *)
(*                                                                         *)
(* A column's value is a sequence of numbers, compared as strings are.     *)
(* Partition keys have one part here: a file row's part is its value, and  *)
(* the row has its key and version besides.  A record has an entity and a  *)
(* version.  Range reads, by written_at, are left out.                     *)
(***************************************************************************)
EXTENDS LexOrder

InInterval(v, from, to) == ~LexLess(v, from) /\ LexLess(v, to)

-----------------------------------------------------------------------------
(* Filters: a kind with its operands.                                      *)

CONSTANT Filters    \* those of all reads, with those they are built from

ASSUME FiltersAssumption ==
  \A f \in Filters : f.kind \in {"and", "or"} => \A i \in 1 .. Len(f.of) : f.of[i] \in Filters

Eq(c, v)             == [kind |-> "eq", col |-> c, value |-> v]
Prefix(c, v)         == [kind |-> "prefix", col |-> c, value |-> v]
GE(c, v)             == [kind |-> "ge", col |-> c, value |-> v]
LT(c, v)             == [kind |-> "lt", col |-> c, value |-> v]
Between(c, from, to) == [kind |-> "between", col |-> c, from |-> from, to |-> to]
In(c, values)        == [kind |-> "in", col |-> c, values |-> values]
And(filters)         == [kind |-> "and", of |-> filters]
Or(filters)          == [kind |-> "or", of |-> filters]

\* translate succeeds: the resolver knows every column, no interval is empty.
Translates(cols) ==
  LET translates[f \in Filters] ==
        IF f.kind \in {"and", "or"}
        THEN \A i \in 1 .. Len(f.of) : translates[f.of[i]]
        ELSE f.col \in cols /\ (f.kind = "between" => LexLess(f.from, f.to))
  IN  translates

\* '%', '_' and '\', as characters.
Percent    == 37
Underscore == 95
Backslash  == 92

\* v LIKE pattern, from their positions i and j on.
Like(v, pattern) ==
  LET like[i \in 1 .. Len(pattern) + 1, j \in 1 .. Len(v) + 1] ==
        IF i > Len(pattern) THEN j > Len(v)
        ELSE CASE pattern[i] = Percent    -> \E k \in j .. Len(v) + 1 : like[i + 1, k]
               [] pattern[i] = Underscore -> j <= Len(v) /\ like[i + 1, j + 1]
               [] pattern[i] = Backslash  ->
                    j <= Len(v) /\ v[j] = pattern[i + 1] /\ like[i + 2, j + 1]
               [] OTHER -> j <= Len(v) /\ v[j] = pattern[i] /\ like[i + 1, j + 1]
  IN  like[1, 1]

\* The WHERE expression, on a row's values; And() is TRUE, Or() and In() FALSE.
Matches(row) ==
  LET matches[f \in Filters] ==
        CASE f.kind = "eq"      -> row[f.col] = f.value
          [] f.kind = "prefix"  -> Like(row[f.col], Append(f.value, Percent))
          [] f.kind = "ge"      -> ~LexLess(row[f.col], f.value)
          [] f.kind = "lt"      -> LexLess(row[f.col], f.value)
          [] f.kind = "between" -> InInterval(row[f.col], f.from, f.to)
          [] f.kind = "in"      -> row[f.col] \in f.values
          [] f.kind = "and"     -> \A i \in 1 .. Len(f.of) : matches[f.of[i]]
          [] f.kind = "or"      -> \E i \in 1 .. Len(f.of) : matches[f.of[i]]
  IN  matches

\* translateFilters joins with And; a read without filters reads nothing.
ResolveFileRefs(files, filters) ==
  {f \in files : filters # << >> /\ Matches([part |-> f.part])[And(filters)]}

-----------------------------------------------------------------------------
(* From file rows to records.                                              *)

\* Faulty: the order of the catalog's rows, which is that of their inserts.
InOrderById(rows) == Sorted(rows, {x \in rows \X rows : x[1].id < x[2].id})

\* By S3 key.
InOrder(rows) == Sorted(rows, {x \in rows \X rows : x[1].key < x[2].key})

\* The partitions of some rows in order, each with its files and the highest
\* version among them.
PreparePartitions(rows) ==
  LET names == {f.part : f \in rows}
      parts == Sorted(names, LexOrderOn(names))
      Of(p) == {f \in rows : f.part = p}
  IN  [i \in 1 .. Len(parts) |->
         [part    |-> parts[i],
          files   |-> InOrder(Of(parts[i])),
          version |-> Max({f.version : f \in Of(parts[i])})]]

\* Position i comes before j in a stable sort by entity and version.
Earlier(records, i, j) ==
  \/ records[i].entity < records[j].entity
  \/ /\ records[i].entity = records[j].entity
     /\ \/ records[i].version < records[j].version
        \/ records[i].version = records[j].version /\ i < j

SortRecords(records) ==
  LET all   == DOMAIN records
      order == Sorted(all, {x \in all \X all : Earlier(records, x[1], x[2])})
  IN  [i \in DOMAIN order |-> records[order[i]]]

KeepAt(records, positions) ==
  LET order == Sorted(positions, {x \in positions \X positions : x[1] < x[2]})
  IN  [i \in DOMAIN order |-> records[order[i]]]

\* Faulty: the first of the equal versions stays.
DedupFirst(sorted) ==
  KeepAt(sorted, {i \in 1 .. Len(sorted) :
                    \A j \in 1 .. Len(sorted) :
                      sorted[j].entity = sorted[i].entity =>
                        \/ sorted[j].version < sorted[i].version
                        \/ sorted[j].version = sorted[i].version /\ i <= j})

\* The last record of each entity's group.
DedupLatest(sorted) ==
  KeepAt(sorted, {i \in 1 .. Len(sorted) :
                    i = Len(sorted) \/ sorted[i + 1].entity # sorted[i].entity})

\* Faulty: versions are not compared.
DedupEntities(sorted) ==
  KeepAt(sorted, {i \in 1 .. Len(sorted) :
                    i = 1 \/ sorted[i - 1].entity # sorted[i].entity})

\* The first record of each entity and version, for WithHistory.
DedupReplicas(sorted) ==
  KeepAt(sorted, {i \in 1 .. Len(sorted) :
                    \/ i = 1
                    \/ sorted[i - 1].entity # sorted[i].entity
                    \/ sorted[i - 1].version # sorted[i].version})

\* Without EntityKeyOf and VersionOf, with them, and with them and WithHistory.
Modes == {"off", "latest", "history"}

SortAndDedup(records, mode) ==
  CASE mode = "off"     -> records
    [] mode = "latest"  -> DedupLatest(SortRecords(records))
    [] mode = "history" -> DedupReplicas(SortRecords(records))

\* decodePartition for every partition, in the order of their emission; body
\* has the records of every object.
ReadRecords(rows, body, mode) ==
  LET parts == PreparePartitions(rows)
      Decoded(part) ==
        SortAndDedup(FlattenSeq([i \in 1 .. Len(part.files) |-> body[part.files[i].key]]),
                     mode)
  IN  FlattenSeq([i \in 1 .. Len(parts) |-> Decoded(parts[i])])

=============================================================================
