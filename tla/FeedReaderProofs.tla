-------------------------- MODULE FeedReaderProofs --------------------------
(***************************************************************************)
(* Poll, PollIter and TailIter hand over every offset once and in order,   *)
(* and a range that ends misses nothing, for any number of files, any page *)
(* size and any first offset.                                              *)
(*                                                                         *)
(* Pos is the offset the consumer is owed next.  The page in hand is a     *)
(* stretch of the feed that begins at Pos, and the window asked for next   *)
(* begins where that page ends (Follows): so there is no gap between what  *)
(* is handed over, what is in hand and what is on its way.  A window holds *)
(* all of the feed between its bounds, up to some length the feed had when *)
(* it was answered (IsWindow), at least the one it had at the call.        *)
(***************************************************************************)
EXTENDS FeedReaders, FiniteSetTheorems, SequenceTheorems, TLAPS

-----------------------------------------------------------------------------
(* The inductive invariant.                                                *)

LogTyped == ready \subseteq FileIds /\ log \in Seq(FileIds)

\* The offset the consumer is owed next.
Pos == First + Len(consumed)

Handed ==
  /\ \A i \in 1 .. Len(consumed) :
       First + i - 1 \in 1 .. Len(log) /\ consumed[i] = log[First + i - 1]
  /\ cursor = IF Len(consumed) = 0 THEN start ELSE Pos

PageFits ==
  /\ rpc # "yield" => page = {}
  /\ \A i \in page : Pos <= i
  /\ \A i \in 1 .. Len(log) : \A j \in page : Pos <= i /\ i < j => i \in page

\* n is the offset after those in hand.
Follows(n) ==
  /\ page = {} => n = cursor
  /\ page # {} => n - 1 \in page
  /\ \A i \in page : i < n

Asked ==
  prefetch.state # "none" =>
    /\ call # "none"
    /\ call = "range" => prefetch.from < until /\ prefetch.to = Least(WindowEnd(prefetch.from), until)
    /\ call = "tail" => prefetch.to = WindowEnd(prefetch.from)
    /\ IF rpc = "yield" THEN Follows(prefetch.from) ELSE prefetch.from = cursor

\* The rows are all of the feed between the bounds, as far as m.
IsWindow(m) == prefetch.rows = {i \in 1 .. m : prefetch.from <= i /\ i < prefetch.to}

Answered ==
  prefetch.state = "rows" =>
    \E m \in 0 .. Len(log) : IsWindow(m) /\ (call = "range" => tip <= m)

\* Where nothing is asked for while a page is in hand, the range ends with it.
NoMore ==
  (rpc = "yield" /\ prefetch.state = "none") =>
     call = "range" /\ \E n \in Nat : Follows(n) /\ until <= n

BackedOff == rpc = "backoff" => call = "tail"

InRange == call = "range" => until > tip /\ tip <= Len(log)

\* What RangeComplete says, of a consumer between two calls.
Finished == complete => call = "none" /\ (tip < Pos \/ SeesOnlyZero)

ReaderInv ==
  /\ ReaderTypeOK /\ LogTyped
  /\ Handed /\ PageFits /\ Asked /\ Answered /\ NoMore /\ InRange /\ Finished
  /\ BackedOff

LEMMA FileCount == MaxFiles \in Nat
BY ReaderAssumption, FS_CardinalityType DEF MaxFiles

LEMMA FirstOffset ==
  ASSUME start \in Starts
  PROVE  /\ start \in Nat /\ First \in Nat /\ First >= 1 /\ start <= First
         /\ start # First => start = 0 /\ First = 1
BY ReaderAssumption DEF First

LEMMA ReaderInitInv == ReaderInit => ReaderInv
<1> SUFFICES ASSUME ReaderInit PROVE ReaderInv
  OBVIOUS
<1> USE DEF ReaderInit, Init, NoQuery
<1>1. start \in Starts /\ cursor = start /\ start \in Nat
  BY ReaderAssumption
<1>2. ReaderTypeOK
  <2>1. prefetch \in Queries
    BY DEF Queries
  <2>2. consumed \in Seq(FileIds)
    OBVIOUS
  <2> QED BY <1>1, <2>1, <2>2 DEF ReaderTypeOK
<1>3. LogTyped /\ Handed /\ PageFits
  BY <1>1 DEF LogTyped, Handed, PageFits
<1>4. Asked /\ Answered /\ NoMore /\ InRange /\ Finished /\ BackedOff
  BY DEF Asked, WindowEnd, Answered, NoMore, InRange, Finished, SeesOnlyZero, BackedOff
<1> QED BY <1>2, <1>3, <1>4 DEF ReaderInv

-----------------------------------------------------------------------------
(* The feed grows beside the reader.                                       *)

LEMMA FeedGrows ==
  ASSUME LogTyped, Next
  PROVE  /\ LogTyped'
         /\ Len(log) <= Len(log')
         /\ \A i \in 1 .. Len(log) : log'[i] = log[i]
<1>1. CASE \E f \in FileIds : Publish(f)
  BY <1>1 DEF Publish, LogTyped
<1>2. CASE Extend
  <2>1. PICK n \in 1 .. Cardinality(ready \ Logged) :
               \E batch \in [1 .. n -> ready \ Logged] : log' = log \o batch
    BY <1>2 DEF Extend
  <2>2. PICK batch \in [1 .. n -> ready \ Logged] : log' = log \o batch
    BY <2>1
  <2>3. n \in Nat
    BY <2>1
  <2>4. batch \in Seq(FileIds)
    BY <2>2, <2>3 DEF LogTyped
  <2>5. ready' = ready
    BY <1>2 DEF Extend
  <2>6. /\ log \o batch \in Seq(FileIds)
        /\ Len(log \o batch) = Len(log) + Len(batch)
        /\ \A i \in 1 .. Len(log) + Len(batch) :
             (log \o batch)[i] = IF i <= Len(log) THEN log[i] ELSE batch[i - Len(log)]
    BY <2>4, ConcatProperties DEF LogTyped
  <2>7. Len(batch) \in Nat /\ Len(log) \in Nat
    BY <2>4 DEF LogTyped
  <2> QED BY <2>2, <2>5, <2>6, <2>7 DEF LogTyped
<1> QED BY <1>1, <1>2 DEF Next

LEMMA FeedKeepsInv ==
  ASSUME ReaderInv, Next, UNCHANGED readerVars
  PROVE  ReaderInv'
<1>1. LogTyped' /\ Len(log) <= Len(log') /\ \A i \in 1 .. Len(log) : log'[i] = log[i]
  BY FeedGrows DEF ReaderInv
<1>2. Len(log) \in Nat /\ Len(log') \in Nat
  BY <1>1 DEF ReaderInv, LogTyped
<1>3. UNCHANGED <<call, rpc, start, size, cursor, until, tip, page, prefetch, consumed, complete>>
  BY DEF readerVars
<1>4. Pos' = Pos /\ First' = First
  BY <1>3 DEF Pos, First
<1>5. page \subseteq 1 .. Len(log)
  BY DEF ReaderInv, ReaderTypeOK
<1>6. ReaderTypeOK'
  BY <1>1, <1>2, <1>3 DEF ReaderInv, ReaderTypeOK
<1>7. Handed'
  BY <1>1, <1>2, <1>3, <1>4 DEF ReaderInv, Handed
<1>8. PageFits'
  BY <1>2, <1>3, <1>4, <1>5 DEF ReaderInv, PageFits
<1>9. Asked' /\ NoMore' /\ InRange' /\ Finished' /\ BackedOff'
  BY <1>1, <1>2, <1>3, <1>4 DEF ReaderInv, ReaderTypeOK, Asked, WindowEnd, NoMore, InRange,
     Finished, SeesOnlyZero,
     Follows, Pos, BackedOff
<1>10. Answered'
  BY <1>1, <1>2, <1>3 DEF ReaderInv, Answered, IsWindow
<1> QED BY <1>1, <1>6, <1>7, <1>8, <1>9, <1>10 DEF ReaderInv

-----------------------------------------------------------------------------
(* The steps of the reader.                                                *)

LEMMA QueryTyped ==
  ASSUME NEW from \in Nat, NEW to \in Nat
  PROVE  Query(from, to) \in Queries /\ NoQuery \in Queries
BY DEF Query, NoQuery, Queries

\* A step that hands nothing over, and leaves the page in hand.
LEMMA SameHanded ==
  ASSUME ReaderInv, UNCHANGED <<vars, start, size, cursor, consumed>>
  PROVE  /\ LogTyped' /\ Handed' /\ Pos' = Pos
         /\ UNCHANGED <<ready, log>>
BY DEF ReaderInv, LogTyped, Handed, Pos, First, vars

LEMMA CallKeepsInv ==
  ASSUME ReaderInv, CallPollIter \/ CallTailIter
  PROVE  ReaderInv'
<1>1. /\ UNCHANGED <<vars, start, size, cursor, page, consumed>>
      /\ rpc' = "await" /\ complete' = FALSE /\ call = "none" /\ call' \in {"range", "tail"}
  BY DEF CallPollIter, CallTailIter
<1>2. LogTyped' /\ Handed' /\ Pos' = Pos /\ UNCHANGED <<ready, log>>
  BY <1>1, SameHanded
<1>3. Len(log) \in Nat /\ cursor \in Nat /\ size \in Nat \ {0}
  BY ReaderAssumption DEF ReaderInv, LogTyped, ReaderTypeOK
<1>4. /\ until' \in Nat /\ tip' \in Nat
      /\ prefetch' = Query(cursor, prefetch'.to) /\ prefetch'.to \in Nat
      /\ call' = "range" => /\ cursor < until' /\ prefetch'.to = Least(WindowEnd(cursor), until')
                            /\ until' > tip' /\ tip' <= Len(log)
      /\ call' = "tail" => prefetch'.to = WindowEnd(cursor)
  <2>1. CASE CallPollIter
    <3>1. PICK u \in 1 .. MaxFiles + 2 :
            /\ cursor < u /\ until' = u
            /\ prefetch' = Query(cursor, Least(WindowEnd(cursor), u))
            /\ tip' = Least(OffsetLatest, u) - 1
      BY <2>1 DEF CallPollIter
    <3>2. u \in Nat \ {0}
      BY FileCount
    <3>3. call' = "range"
      BY <2>1 DEF CallPollIter
    <3> QED BY <1>3, <3>1, <3>2, <3>3 DEF Least, WindowEnd, OffsetLatest, Query
  <2>2. CASE CallTailIter
    BY <1>3, <2>2 DEF CallTailIter, WindowEnd, Query, ReaderInv, ReaderTypeOK
  <2> QED BY <2>1, <2>2
<1>5. prefetch' \in Queries /\ prefetch'.from = cursor /\ prefetch'.state = "running"
  BY <1>3, <1>4, QueryTyped DEF Query
<1>6. page = {}
  BY <1>1 DEF ReaderInv, PageFits, Asked, WindowEnd, NoMore
<1>7. ReaderTypeOK'
  BY <1>1, <1>2, <1>4, <1>5 DEF ReaderInv, ReaderTypeOK
<1>8. PageFits' /\ NoMore' /\ InRange' /\ Finished' /\ BackedOff'
  BY <1>1, <1>2, <1>4, <1>6 DEF PageFits, NoMore, InRange, Finished, SeesOnlyZero, BackedOff
<1>9. Asked' /\ Answered'
  BY <1>1, <1>4, <1>5 DEF Asked, WindowEnd, Answered
<1> QED BY <1>2, <1>7, <1>8, <1>9 DEF ReaderInv

LEMMA AsyncPollAsks ==
  ASSUME ReaderInv, NEW n \in Nat, prefetch' = AsyncPoll(n)
  PROVE  /\ prefetch' \in Queries /\ prefetch'.state \in {"none", "running"}
         /\ prefetch'.state = "none" => call = "range" /\ until <= n
         /\ prefetch'.state # "none" =>
              /\ prefetch'.from = n
              /\ call = "range" => n < until /\ prefetch'.to = Least(WindowEnd(n), until)
              /\ call # "range" => prefetch'.to = WindowEnd(n)
<1>1. WindowEnd(n) \in Nat /\ until \in Nat
  BY ReaderAssumption DEF WindowEnd, ReaderInv, ReaderTypeOK
<1>2. Least(WindowEnd(n), until) \in Nat
  BY <1>1 DEF Least
<1> HIDE DEF Least, WindowEnd
<1>3. CASE call = "range" /\ ~(n < until)
  BY <1>1, <1>3, QueryTyped DEF AsyncPoll, NoQuery
<1>4. CASE call = "range" /\ n < until
  BY <1>1, <1>2, <1>4, QueryTyped DEF AsyncPoll, Query
<1>5. CASE call # "range"
  BY <1>1, <1>5, QueryTyped DEF AsyncPoll, Query
<1> QED BY <1>3, <1>4, <1>5

LEMMA QueryKeepsInv ==
  ASSUME ReaderInv, QueryAnswers \/ QueryFails
  PROVE  ReaderInv'
<1>1. /\ UNCHANGED <<vars, call, rpc, start, size, cursor, until, tip, page, consumed, complete>>
      /\ prefetch.state = "running"
  BY DEF QueryAnswers, QueryFails
<1>2. LogTyped' /\ Handed' /\ Pos' = Pos /\ UNCHANGED <<ready, log>>
  BY <1>1, SameHanded
<1>3. /\ prefetch'.state \in {"rows", "error"} /\ prefetch' \in Queries
      /\ prefetch'.from = prefetch.from /\ prefetch'.to = prefetch.to
      /\ prefetch'.state = "rows" => prefetch'.rows = PollFiles(prefetch.from, prefetch.to)
  <2>1. PollFiles(prefetch.from, prefetch.to) \in SUBSET Nat
    BY DEF PollFiles
  <2>2. prefetch \in Queries
    BY DEF ReaderInv, ReaderTypeOK
  <2>3. CASE QueryAnswers
    BY <2>1, <2>2, <2>3 DEF QueryAnswers, Queries
  <2>4. CASE QueryFails
    BY <2>2, <2>4 DEF QueryFails, Queries
  <2> QED BY <2>3, <2>4
<1>4. ReaderTypeOK'
  BY <1>1, <1>2, <1>3 DEF ReaderInv, ReaderTypeOK
<1>5. PageFits' /\ NoMore' /\ InRange' /\ Finished' /\ BackedOff'
  BY <1>1, <1>2, <1>3 DEF ReaderInv, PageFits, NoMore, InRange, Finished, SeesOnlyZero, Pos,
     BackedOff
<1>6. Asked'
  BY <1>1, <1>3 DEF ReaderInv, Asked, WindowEnd, Follows
<1>7. Answered'
  <2>1. Len(log) \in 0 .. Len(log)
    BY DEF ReaderInv, LogTyped
  <2>2. prefetch'.state = "rows" => IsWindow(Len(log))'
    BY <1>2, <1>3 DEF IsWindow, PollFiles
  <2> QED BY <1>1, <1>2, <2>1, <2>2 DEF Answered, ReaderInv, InRange, IsWindow
<1> QED BY <1>2, <1>4, <1>5, <1>6, <1>7 DEF ReaderInv

\* What a window leads to: its rows are a stretch of the feed that begins at the
\* cursor, and the next window follows them.
LEMMA WindowFits ==
  ASSUME ReaderInv, Awaits("rows")
  PROVE  /\ prefetch.rows \subseteq 1 .. Len(log)
         /\ \A i \in prefetch.rows : Pos <= i
         /\ \A i \in 1 .. Len(log) : \A j \in prefetch.rows : Pos <= i /\ i < j => i \in prefetch.rows
         /\ prefetch.rows # {} =>
              /\ NextOffset(prefetch) \in Nat /\ NextOffset(prefetch) - 1 \in prefetch.rows
              /\ \A i \in prefetch.rows : i < NextOffset(prefetch)
<1> DEFINE rows == prefetch.rows
<1>1. PICK m \in 0 .. Len(log) : rows = {i \in 1 .. m : prefetch.from <= i /\ i < prefetch.to}
  BY DEF Awaits, ReaderInv, Answered, IsWindow
<1>2. prefetch.from = cursor /\ cursor \in Nat /\ Len(log) \in Nat /\ prefetch.to \in Nat
  BY DEF Awaits, ReaderInv, ReaderTypeOK, LogTyped, Asked, WindowEnd, Queries
<1>3. /\ Pos \in Nat /\ Pos >= 1 /\ cursor <= Pos
      /\ cursor # Pos => cursor = 0 /\ Pos = 1
  BY FirstOffset DEF ReaderInv, ReaderTypeOK, Handed, Pos
<1> HIDE DEF rows
<1>4. rows \subseteq 1 .. Len(log) /\ \A i \in rows : Pos <= i
  BY <1>1, <1>2, <1>3
<1>5. \A i \in 1 .. Len(log) : \A j \in rows : Pos <= i /\ i < j => i \in rows
  BY <1>1, <1>2, <1>3
<1>6. ASSUME rows # {}
      PROVE  /\ NextOffset(prefetch) \in Nat /\ NextOffset(prefetch) - 1 \in rows
             /\ \A i \in rows : i < NextOffset(prefetch)
  <2> DEFINE last == Least(m, prefetch.to - 1)
             IsNext(n) == n \in {prefetch.from} \cup {i + 1 : i \in rows} /\ \A i \in rows : i < n
  <2>1. last \in rows /\ \A i \in rows : i < last + 1
    BY <1>1, <1>2, <1>6 DEF Least
  <2> HIDE DEF last
  <2>2. IsNext(last + 1)
    BY <2>1
  <2>3. NextOffset(prefetch) = CHOOSE n : IsNext(n)
    BY DEF NextOffset, rows
  <2>4. IsNext(NextOffset(prefetch))
    BY <2>2, <2>3
  <2>5. NextOffset(prefetch) # prefetch.from
    BY <1>1, <1>2, <1>6, <2>4
  <2> QED BY <1>1, <1>2, <2>4, <2>5
<1> QED BY <1>4, <1>5, <1>6 DEF rows

LEMMA TakePageKeepsInv ==
  ASSUME ReaderInv, TakePage
  PROVE  ReaderInv'
<1> DEFINE n == NextOffset(prefetch)
<1>1. /\ UNCHANGED <<vars, call, start, size, cursor, until, tip, consumed, complete>>
      /\ Awaits("rows") /\ prefetch.rows # {}
      /\ page' = prefetch.rows /\ prefetch' = AsyncPoll(n) /\ rpc' = "yield"
  BY DEF TakePage
<1>2. LogTyped' /\ Handed' /\ Pos' = Pos /\ UNCHANGED <<ready, log>>
  BY <1>1, SameHanded
<1>3. /\ page' \subseteq 1 .. Len(log)
      /\ \A i \in page' : Pos <= i
      /\ \A i \in 1 .. Len(log) : \A j \in page' : Pos <= i /\ i < j => i \in page'
      /\ n \in Nat /\ n - 1 \in page' /\ \A i \in page' : i < n
  BY <1>1, WindowFits
<1> HIDE DEF n
<1>4. /\ prefetch' \in Queries /\ prefetch'.state \in {"none", "running"}
      /\ prefetch'.state = "none" => call = "range" /\ until <= n
      /\ prefetch'.state # "none" =>
           /\ prefetch'.from = n
           /\ call = "range" => n < until /\ prefetch'.to = Least(WindowEnd(n), until)
           /\ call # "range" => prefetch'.to = WindowEnd(n)
  BY <1>1, <1>3, AsyncPollAsks
<1>6. ReaderTypeOK'
  BY <1>1, <1>2, <1>3, <1>4 DEF ReaderInv, ReaderTypeOK
<1>7. PageFits'
  BY <1>1, <1>2, <1>3 DEF PageFits
<1>8. Asked' /\ NoMore' /\ Answered'
  <2>1. page' # {} /\ \A k : k = n => ((k - 1 \in page') /\ \A i \in page' : i < k)
    BY <1>1, <1>3
  <2>2. \A k : k = n => Follows(k)'
    BY <2>1 DEF Follows
  <2> QED BY <1>1, <1>3, <1>4, <2>2 DEF Asked, WindowEnd, NoMore, Answered, Awaits
<1>9. InRange' /\ Finished' /\ BackedOff'
  BY <1>1, <1>2 DEF ReaderInv, InRange, Finished, SeesOnlyZero, Pos, BackedOff
<1> QED BY <1>2, <1>6, <1>7, <1>8, <1>9 DEF ReaderInv

LEMMA PollAgainKeepsInv ==
  ASSUME ReaderInv, PollAgain
  PROVE  ReaderInv'
<1>1. /\ UNCHANGED <<vars, call, start, size, cursor, until, tip, page, consumed, complete>>
      /\ rpc = "backoff" /\ rpc' = "await" /\ prefetch' = AsyncPoll(cursor)
  BY DEF PollAgain
<1>2. LogTyped' /\ Handed' /\ Pos' = Pos /\ UNCHANGED <<ready, log>>
  BY <1>1, SameHanded
<1>3. cursor \in Nat /\ page = {}
  BY <1>1 DEF ReaderInv, ReaderTypeOK, PageFits
<1>4. /\ prefetch' \in Queries /\ prefetch'.state \in {"none", "running"}
      /\ prefetch'.state # "none" =>
           /\ prefetch'.from = cursor
           /\ call = "range" => cursor < until /\ prefetch'.to = Least(WindowEnd(cursor), until)
           /\ call # "range" => prefetch'.to = WindowEnd(cursor)
  BY <1>1, <1>3, AsyncPollAsks
<1>5. call # "none"
  BY <1>1 DEF ReaderInv, BackedOff
<1>6. ReaderTypeOK'
  BY <1>1, <1>2, <1>4 DEF ReaderInv, ReaderTypeOK
<1>7. PageFits' /\ NoMore' /\ InRange' /\ Finished' /\ BackedOff'
  BY <1>1, <1>2, <1>3 DEF ReaderInv, PageFits, NoMore, InRange, Finished, SeesOnlyZero, Pos,
     BackedOff
<1>8. Asked' /\ Answered'
  BY <1>1, <1>4, <1>5 DEF Asked, WindowEnd, Answered
<1> QED BY <1>2, <1>6, <1>7, <1>8 DEF ReaderInv

LEMMA BackOffKeepsInv ==
  ASSUME ReaderInv, BackOff
  PROVE  ReaderInv'
<1>1. /\ UNCHANGED <<vars, call, start, size, cursor, until, tip, page, consumed, complete>>
      /\ call = "tail" /\ rpc = "await" /\ rpc' = "backoff" /\ prefetch' = NoQuery
  BY DEF BackOff, Awaits
<1>2. LogTyped' /\ Handed' /\ Pos' = Pos /\ UNCHANGED <<ready, log>>
  BY <1>1, SameHanded
<1>3. prefetch' \in Queries /\ prefetch'.state = "none"
  BY <1>1 DEF NoQuery, Queries
<1>4. ReaderTypeOK'
  BY <1>1, <1>2, <1>3 DEF ReaderInv, ReaderTypeOK
<1>5. PageFits' /\ Asked' /\ Answered' /\ NoMore' /\ InRange' /\ Finished' /\ BackedOff'
  BY <1>1, <1>2, <1>3 DEF ReaderInv, PageFits, Asked, WindowEnd, Answered, NoMore, InRange,
     Finished, SeesOnlyZero,
     Pos, BackedOff
<1> QED BY <1>2, <1>4, <1>5 DEF ReaderInv

LEMMA YieldKeepsInv ==
  ASSUME ReaderInv, YieldRow
  PROVE  ReaderInv'
<1>1. /\ UNCHANGED <<vars, call, rpc, start, size, until, tip, prefetch, complete>>
      /\ rpc = "yield"
  BY DEF YieldRow
<1>2. PICK i \in page : /\ \A j \in page : i <= j
                        /\ consumed' = Append(consumed, log[i])
                        /\ cursor' = i + 1
                        /\ page' = page \ {i}
  BY DEF YieldRow
<1>3. /\ i \in 1 .. Len(log) /\ Len(log) \in Nat /\ page \subseteq 1 .. Len(log)
      /\ \A k \in 1 .. Len(log) : log[k] \in FileIds
      /\ First \in Nat /\ First >= 1 /\ Len(consumed) \in Nat /\ consumed \in Seq(FileIds)
  BY FirstOffset DEF ReaderInv, ReaderTypeOK, LogTyped
<1>4. UNCHANGED <<ready, log>> /\ First' = First /\ LogTyped'
  BY <1>1 DEF vars, First, ReaderInv, LogTyped
<1>5. i = Pos
  <2>1. Pos <= i /\ Pos \in Nat /\ Pos >= 1
    BY <1>3 DEF Pos, ReaderInv, PageFits
  <2>2. Pos < i => Pos \in page
    BY <1>3, <2>1 DEF ReaderInv, PageFits
  <2> QED BY <1>2, <1>3, <2>1, <2>2
<1>6. /\ consumed' \in Seq(FileIds) /\ Len(consumed') = Len(consumed) + 1
      /\ \A k \in 1 .. Len(consumed) : consumed'[k] = consumed[k]
      /\ consumed'[Len(consumed) + 1] = log[i]
  BY <1>2, <1>3, AppendProperties
<1>7. Pos' = Pos + 1
  BY <1>3, <1>4, <1>6 DEF Pos
<1>8. ReaderTypeOK'
  BY <1>1, <1>2, <1>3, <1>4, <1>6 DEF ReaderInv, ReaderTypeOK
<1>9. Handed'
  <2>1. Handed
    BY DEF ReaderInv
  <2>2. Pos = First + Len(consumed) /\ cursor' = Pos'
    BY <1>2, <1>3, <1>5, <1>7 DEF Pos
  <2>3. \A k \in 1 .. Len(consumed') :
          First + k - 1 \in 1 .. Len(log) /\ consumed'[k] = log[First + k - 1]
    <3>1. ASSUME NEW k \in 1 .. Len(consumed'), k # Len(consumed) + 1
          PROVE  First + k - 1 \in 1 .. Len(log) /\ consumed'[k] = log[First + k - 1]
      <4>1. k \in 1 .. Len(consumed)
        BY <1>3, <1>6, <3>1
      <4> QED BY <1>6, <2>1, <4>1 DEF Handed
    <3>2. First + (Len(consumed) + 1) - 1 = i
      BY <1>3, <1>5, <2>2
    <3> QED BY <1>3, <1>6, <3>1, <3>2
  <2> QED BY <1>3, <1>4, <1>6, <2>2, <2>3 DEF Handed
<1>10. PageFits'
  <2>1. \A j \in page' : Pos + 1 <= j
    BY <1>2, <1>3, <1>5
  <2>2. \A k \in 1 .. Len(log) : \A j \in page' : Pos + 1 <= k /\ k < j => k \in page'
    <3>1. Pos \in Nat
      BY <1>3 DEF Pos
    <3> QED BY <1>2, <1>3, <1>5, <3>1 DEF ReaderInv, PageFits
  <2> QED BY <1>1, <1>4, <1>7, <2>1, <2>2 DEF PageFits
<1>11. ASSUME NEW n \in Nat, Follows(n)
       PROVE  Follows(n)'
  <2>1. n - 1 \in page /\ n > i /\ \A j \in page : j < n /\ j \in Nat
    BY <1>2, <1>3, <1>11 DEF Follows
  <2>2. page' = {} => n = i + 1
    BY <1>2, <1>3, <2>1
  <2>3. ASSUME NEW j \in page'
        PROVE  n - 1 \in page'
    <3>1. j \in page /\ j # i /\ i <= j /\ j < n
      BY <1>2, <2>1, <2>3
    <3>2. n - 1 # i
      BY <1>3, <2>1, <3>1
    <3> QED BY <1>2, <2>1, <3>2
  <2> QED BY <1>2, <2>1, <2>2, <2>3 DEF Follows
<1>12. Asked' /\ NoMore'
  <2>1. prefetch.from \in Nat
    BY DEF ReaderInv, ReaderTypeOK, Queries
  <2>2. prefetch.state # "none" => Follows(prefetch.from)
    BY <1>1 DEF ReaderInv, Asked, WindowEnd
  <2>3. prefetch.state # "none" => Follows(prefetch.from)'
    <3> DEFINE n == prefetch.from
    <3>1. ASSUME NEW m \in Nat, m = n, prefetch.state # "none"
          PROVE  Follows(m)'
      BY <1>11, <2>2, <3>1
    <3> QED BY <1>1, <2>1, <3>1 DEF Follows
  <2>4. Asked'
    BY <1>1, <2>3 DEF ReaderInv, Asked, WindowEnd
  <2>5. NoMore'
    BY <1>1, <1>11 DEF ReaderInv, NoMore
  <2> QED BY <2>4, <2>5
<1>13. Answered' /\ InRange' /\ BackedOff'
  BY <1>1, <1>4 DEF ReaderInv, Answered, IsWindow, InRange, BackedOff
<1>14. Finished'
  BY <1>1 DEF ReaderInv, Asked, NoMore, Finished
<1> QED BY <1>4, <1>8, <1>9, <1>10, <1>12, <1>13, <1>14 DEF ReaderInv

LEMMA PageIsReadKeepsInv ==
  ASSUME ReaderInv, PageIsRead
  PROVE  ReaderInv'
<1>1. /\ UNCHANGED <<vars, call, start, size, cursor, until, tip, page, prefetch, consumed, complete>>
      /\ rpc = "yield" /\ page = {} /\ prefetch.state # "none" /\ rpc' = "await"
  BY DEF PageIsRead
<1>2. LogTyped' /\ Handed' /\ Pos' = Pos /\ UNCHANGED <<ready, log>>
  BY <1>1, SameHanded
<1>3. ReaderTypeOK'
  BY <1>1, <1>2 DEF ReaderInv, ReaderTypeOK
<1>4. PageFits' /\ Answered' /\ NoMore' /\ InRange' /\ Finished' /\ BackedOff'
  BY <1>1, <1>2 DEF ReaderInv, PageFits, Answered, IsWindow, NoMore, InRange, Finished,
     SeesOnlyZero,
     Pos, BackedOff
<1>5. Asked'
  BY <1>1 DEF ReaderInv, Asked, WindowEnd, Follows
<1> QED BY <1>2, <1>3, <1>4, <1>5 DEF ReaderInv

\* Where a range ends by itself, nothing below its tip is left.
LEMMA EndOfRange ==
  ASSUME ReaderInv, RangeIsRead \/ LastPageIsRead
  PROVE  tip < Pos \/ SeesOnlyZero
<1>1. /\ cursor \in Nat /\ tip \in Nat /\ Len(log) \in Nat /\ until \in Nat
      /\ size \in Nat \ {0}
      /\ Pos \in Nat /\ Pos >= 1 /\ cursor <= Pos
      /\ cursor # Pos => cursor = 0 /\ Pos = 1
  BY FirstOffset, ReaderAssumption DEF ReaderInv, ReaderTypeOK, LogTyped, Handed, Pos
<1>2. call = "range" /\ tip < until
  BY DEF RangeIsRead, LastPageIsRead, ReaderInv, NoMore, InRange, ReaderTypeOK
<1>3. CASE RangeIsRead
  <2>1. PICK m \in 0 .. Len(log) : IsWindow(m) /\ tip <= m
    BY <1>2, <1>3 DEF RangeIsRead, Awaits, ReaderInv, Answered
  <2>2. /\ prefetch.rows = {} /\ prefetch.from = cursor
        /\ cursor < until /\ prefetch.to = Least(WindowEnd(cursor), until)
    BY <1>2, <1>3 DEF RangeIsRead, Awaits, ReaderInv, Asked, WindowEnd
  <2>3. SUFFICES ASSUME Pos <= tip, ~SeesOnlyZero
                 PROVE  FALSE
    BY <1>1
  <2>4. Pos \in 1 .. m /\ prefetch.from <= Pos
    BY <1>1, <2>1, <2>2, <2>3
  <2>5. Pos < prefetch.to
    BY <1>1, <1>2, <2>2, <2>3 DEF Least, WindowEnd, SeesOnlyZero
  <2> QED BY <2>1, <2>2, <2>4, <2>5 DEF IsWindow
<1>4. CASE LastPageIsRead
  <2>1. rpc = "yield" /\ page = {} /\ prefetch.state = "none"
    BY <1>4 DEF LastPageIsRead
  <2>2. PICK n \in Nat : Follows(n) /\ until <= n
    BY <2>1 DEF ReaderInv, NoMore
  <2>3. until <= cursor
    BY <2>1, <2>2 DEF Follows
  <2> QED BY <1>1, <1>2, <2>3
<1> QED BY <1>3, <1>4

LEMMA EndKeepsInv ==
  ASSUME ReaderInv, NEW whole \in BOOLEAN, End(whole), whole => tip < Pos \/ SeesOnlyZero
  PROVE  ReaderInv'
<1>1. /\ UNCHANGED <<vars, start, size, cursor, consumed>>
      /\ call' = "none" /\ rpc' = "await" /\ until' = 0 /\ page' = {}
      /\ prefetch' = NoQuery /\ complete' = whole
      /\ tip' = IF whole THEN tip ELSE 0
  BY DEF End
<1>2. LogTyped' /\ Handed' /\ Pos' = Pos /\ UNCHANGED <<ready, log>>
  BY <1>1, SameHanded
<1>3. prefetch' \in Queries /\ prefetch'.state = "none"
  BY <1>1 DEF NoQuery, Queries
<1>4. ReaderTypeOK'
  BY <1>1, <1>2, <1>3 DEF ReaderInv, ReaderTypeOK
<1>5. PageFits' /\ Asked' /\ Answered' /\ NoMore' /\ InRange' /\ BackedOff'
  BY <1>1, <1>3 DEF PageFits, Asked, WindowEnd, Answered, NoMore, InRange, BackedOff
<1>6. Finished'
  BY <1>1, <1>2 DEF Finished, SeesOnlyZero, Pos
<1> QED BY <1>2, <1>4, <1>5, <1>6 DEF ReaderInv

-----------------------------------------------------------------------------
(* What follows for every behaviour.                                       *)

LEMMA ReaderInvariant == ReaderSpec => []ReaderInv
<1>1. ReaderInit => ReaderInv
  BY ReaderInitInv
<1>2. ReaderInv /\ [ReaderNext]_allVars => ReaderInv'
  <2> SUFFICES ASSUME ReaderInv, [ReaderNext]_allVars
               PROVE  ReaderInv'
    OBVIOUS
  <2>1. CASE ReaderStep
    <3>1. CASE RangeIsRead \/ LastPageIsRead
      BY <3>1, EndOfRange, EndKeepsInv DEF RangeIsRead, LastPageIsRead
    <3>2. CASE PollError \/ Stop
      BY <3>2, EndKeepsInv DEF PollError, Stop
    <3> QED
      BY <2>1, <3>1, <3>2, CallKeepsInv, QueryKeepsInv, TakePageKeepsInv, BackOffKeepsInv,
         PollAgainKeepsInv, YieldKeepsInv, PageIsReadKeepsInv DEF ReaderStep
  <2>2. CASE Next /\ UNCHANGED readerVars
    BY <2>2, FeedKeepsInv
  <2>3. CASE UNCHANGED allVars
    <3>1. UNCHANGED <<ready, log, call, rpc, start, size, cursor, until, tip, page, prefetch, consumed,
                     complete>>
      BY <2>3 DEF allVars, vars, readerVars
    <3> QED
      BY <3>1 DEF ReaderInv, ReaderTypeOK, LogTyped, Handed, PageFits, Asked, WindowEnd, Answered,
         NoMore,
         InRange, Finished, SeesOnlyZero, BackedOff, IsWindow, Follows, Pos, First
  <2> QED BY <2>1, <2>2, <2>3 DEF ReaderNext
<1> QED BY <1>1, <1>2, PTL DEF ReaderSpec

\* The iterators' state keeps its shape, and the page in hand is of the feed.
THEOREM ReaderTypeCorrect == ReaderSpec => []ReaderTypeOK
<1>1. ReaderInv => ReaderTypeOK
  BY DEF ReaderInv
<1> QED BY <1>1, ReaderInvariant, PTL

\* Over calls, errors and restarts, PollIter and TailIter hand over every offset
\* from the first on, once and in order.
THEOREM ConsumedIsTheFeed == ReaderSpec => []ConsumedInOrder
<1>1. ASSUME ReaderInv PROVE ConsumedInOrder
  <2>1. /\ First \in Nat /\ First >= 1 /\ consumed \in Seq(FileIds) /\ Len(consumed) \in Nat
        /\ Len(log) \in Nat /\ \A i \in 1 .. Len(log) : log[i] \in FileIds
    BY <1>1, FirstOffset DEF ReaderInv, ReaderTypeOK, LogTyped
  <2>2. /\ \A i \in 1 .. Len(consumed) :
             First + i - 1 \in 1 .. Len(log) /\ consumed[i] = log[First + i - 1]
        /\ cursor = IF Len(consumed) = 0 THEN start ELSE First + Len(consumed)
    BY <1>1 DEF ReaderInv, Handed, Pos
  <2> DEFINE last == First + Len(consumed) - 1
             part == SubSeq(log, First, last)
  <2>3. \A i \in First .. last : log[i] \in FileIds
    <3>1. ASSUME NEW i \in First .. last PROVE i \in 1 .. Len(log)
      <4>1. i - First + 1 \in 1 .. Len(consumed) /\ First + (i - First + 1) - 1 = i
        BY <2>1
      <4> QED BY <2>2, <4>1
    <3> QED BY <2>1, <3>1
  <2>4. /\ part \in Seq(FileIds)
        /\ Len(part) = IF First <= last THEN last - First + 1 ELSE 0
        /\ \A i \in 1 .. last - First + 1 : part[i] = log[First + i - 1]
    BY <2>1, <2>3, SubSeqProperties
  <2>5. Len(part) = Len(consumed)
    BY <2>1, <2>4
  <2>6. \A i \in 1 .. Len(consumed) : part[i] = consumed[i]
    BY <2>1, <2>2, <2>4
  <2> HIDE DEF part
  <2>7. part = consumed
    BY <2>1, <2>4, <2>5, <2>6
  <2> QED BY <2>1, <2>2, <2>7 DEF ConsumedInOrder, part
<1> QED BY <1>1, ReaderInvariant, PTL

\* A PollIter that ends without an error has handed over all that had an offset
\* below its bound when it was called.
THEOREM RangeMissesNothing == ReaderSpec => []RangeComplete
<1>1. ReaderInv => RangeComplete
  BY DEF ReaderInv, Finished, RangeComplete, Pos
<1> QED BY <1>1, ReaderInvariant, PTL

=============================================================================
