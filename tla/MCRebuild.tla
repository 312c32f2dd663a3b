----------------------------- MODULE MCRebuild -----------------------------
(* Instances of Rebuild and RebuiltReads for TLC.                          *)
EXTENDS RebuiltReads

\* "a", "ab": a prefix of the other, and its predecessor in the order.
MCPartitions == {<<1>>, <<1, 2>>}

\* A tie between the first key and the third, an older version between them.
MCRecords ==
  <<<<[entity |-> 2, version |-> 1], [entity |-> 1, version |-> 2]>>,
    <<[entity |-> 1, version |-> 1], [entity |-> 2, version |-> 1]>>,
    <<[entity |-> 1, version |-> 2]>>>>

\* Filters that match all, none and some of the partitions; "_", then "b", is a
\* prefix with a wildcard.
OnPart ==
  {Eq("part", p) : p \in Partitions} \cup {Prefix("part", p) : p \in Partitions \cup {<<95, 2>>, <<92, 1>>}} \cup
    {LT("part", p) : p \in Partitions} \cup
    {Between("part", p, q) : p, q \in Partitions}

MCQueries ==
  {<<And(<< >>)>>, <<Or(<< >>)>>} \cup {<<f>> : f \in OnPart} \cup
    {<<Or(<<Prefix("part", p), LT("part", q)>>)>> : p, q \in Partitions}

MCFilters ==
  {And(q) : q \in MCQueries} \cup UNION {Range(q) : q \in MCQueries} \cup OnPart

=============================================================================
