---------------------------- MODULE FeedReaders ----------------------------
(***************************************************************************)
(* The readers of the feed: Poll, PollIter over a range and TailIter       *)
(* without an end (poll.go), beside everything that commits and sequences  *)
(* rows.  Of that they see the log of module Feed, which the sequencers    *)
(* implement; an offset is a position in it.  Readers share nothing, so    *)
(* one consumer stands for all: it calls one of the two iterators from its *)
(* checkpoint, moves the checkpoint past every row it is handed, and calls *)
(* again from there whenever an iterator ends, which is the resume idiom   *)
(* of both doc comments.                                                   *)
(*                                                                         *)
(* An iterator asks for one window of the feed at a time, in a goroutine   *)
(* that runs while the rows of the window before it are handed over; what  *)
(* it sees is the state at its query, not at its use.                      *)
(***************************************************************************)
EXTENDS Feed

CONSTANTS
  PageSizes,   \* WithPollPageSize, after its default for 0 and less
  Starts       \* offsets the consumer may start from

ASSUME ReaderAssumption ==
  /\ IsFiniteSet(FileIds)
  /\ PageSizes \subseteq Nat \ {0}
  /\ Starts \subseteq Nat

VARIABLES
  call,        \* the running iterator: none, range or tail
  rpc,         \* await: on the prefetch; yield; backoff
  start,       \* the consumer's first offset
  size,        \* the page size it passes
  cursor,      \* its checkpoint, and the iterator's cursor
  until,       \* exclusive bound of a range
  tip,         \* the highest offset below it when the range was called
  page,        \* offsets of the rows fetched and not yet handed over
  prefetch,    \* the query of the next window
  consumed,    \* the files handed over, over all calls
  complete     \* the last range ended as ranges end when all is read

readerVars ==
  <<call, rpc, start, size, cursor, until, tip, page, prefetch, consumed, complete>>
allVars == <<vars, readerVars>>

MaxFiles == Cardinality(FileIds)
NoQuery  == [state |-> "none", from |-> 0, to |-> 0, rows |-> {}]
Queries  == [state: {"none", "running", "rows", "error"},
             from: Nat, to: Nat, rows: SUBSET Nat]

ReaderTypeOK ==
  /\ call \in {"none", "range", "tail"}
  /\ rpc \in {"await", "yield", "backoff"}
  /\ start \in Starts
  /\ size \in PageSizes
  /\ cursor \in Nat
  /\ until \in Nat
  /\ tip \in Nat
  /\ page \subseteq 1 .. Len(log)
  /\ prefetch \in Queries
  /\ consumed \in Seq(FileIds)
  /\ complete \in BOOLEAN

ReaderInit ==
  /\ Init
  /\ call = "none" /\ rpc = "await"
  /\ start \in Starts /\ cursor = start
  /\ size \in PageSizes
  /\ until = 0 /\ tip = 0
  /\ page = {} /\ prefetch = NoQuery
  /\ consumed = << >> /\ complete = FALSE

-----------------------------------------------------------------------------
(* Queries.                                                                *)

Least(a, b) == IF a < b THEN a ELSE b

PollFiles(from, to) ==
  {i \in 1 .. Len(log) : from <= i /\ i < to}

NextOffset(q) ==
  CHOOSE n \in {q.from} \cup {i + 1 : i \in q.rows} : \A i \in q.rows : i < n

OffsetLatest == Len(log) + 1

Query(from, to) == [state |-> "running", from |-> from, to |-> to, rows |-> {}]

\* Faulty: a window is one offset short.
WindowEndShort(from) == from + size - 1

WindowEnd(from) == from + size

\* Beyond the bound of a range there is nothing to ask for.
AsyncPoll(from) ==
  IF call = "range"
  THEN IF from < until THEN Query(from, Least(WindowEnd(from), until)) ELSE NoQuery
  ELSE Query(from, WindowEnd(from))

QueryAnswers ==
  /\ prefetch.state = "running"
  /\ prefetch' = [prefetch EXCEPT !.state = "rows",
                                  !.rows = PollFiles(prefetch.from, prefetch.to)]
  /\ UNCHANGED <<vars, call, rpc, start, size, cursor, until, tip, page, consumed,
                 complete>>

QueryFails ==
  /\ prefetch.state = "running"
  /\ prefetch' = [prefetch EXCEPT !.state = "error"]
  /\ UNCHANGED <<vars, call, rpc, start, size, cursor, until, tip, page, consumed,
                 complete>>

-----------------------------------------------------------------------------
(* The iterators.                                                          *)

\* The caller's bound is OffsetLatest, or one of its own below or beyond it.
CallPollIter ==
  /\ call = "none"
  /\ \E u \in 1 .. MaxFiles + 2 :
       /\ cursor < u
       /\ until' = u
       /\ prefetch' = Query(cursor, Least(WindowEnd(cursor), u))
       /\ tip' = Least(OffsetLatest, u) - 1
  /\ call' = "range" /\ rpc' = "await" /\ complete' = FALSE
  /\ UNCHANGED <<vars, start, size, cursor, page, consumed>>

CallTailIter ==
  /\ call = "none"
  /\ call' = "tail" /\ rpc' = "await"
  /\ prefetch' = Query(cursor, WindowEnd(cursor))
  /\ complete' = FALSE
  /\ UNCHANGED <<vars, start, size, cursor, until, tip, page, consumed>>

\* What is still queried, or fetched and not handed over, is dropped.
End(whole) ==
  /\ call' = "none" /\ rpc' = "await"
  /\ until' = 0 /\ page' = {} /\ prefetch' = NoQuery
  /\ complete' = whole
  /\ UNCHANGED <<vars, start, size, cursor, consumed>>
  /\ IF whole THEN UNCHANGED tip ELSE tip' = 0

Awaits(state) == call # "none" /\ rpc = "await" /\ prefetch.state = state

\* Faulty: a short page is taken for the last one.
TakePageShortIsLast ==
  /\ Awaits("rows")
  /\ prefetch.rows # {}
  /\ page' = prefetch.rows
  /\ prefetch' = IF Cardinality(prefetch.rows) < size THEN NoQuery
                 ELSE AsyncPoll(NextOffset(prefetch))
  /\ rpc' = "yield"
  /\ UNCHANGED <<vars, call, start, size, cursor, until, tip, consumed, complete>>

TakePage ==
  /\ Awaits("rows")
  /\ prefetch.rows # {}
  /\ page' = prefetch.rows
  /\ prefetch' = AsyncPoll(NextOffset(prefetch))
  /\ rpc' = "yield"
  /\ UNCHANGED <<vars, call, start, size, cursor, until, tip, consumed, complete>>

\* An empty window is the end of a range.
RangeIsRead ==
  /\ call = "range" /\ Awaits("rows")
  /\ prefetch.rows = {}
  /\ End(TRUE)

\* How long it sleeps grows from call to call; here it is only some time.
BackOff ==
  /\ call = "tail" /\ Awaits("rows")
  /\ prefetch.rows = {}
  /\ rpc' = "backoff"
  /\ prefetch' = NoQuery
  /\ UNCHANGED <<vars, call, start, size, cursor, until, tip, page, consumed, complete>>

\* Faulty: the tail goes on at the end of the window that was empty.
PollAgainAhead ==
  /\ rpc = "backoff"
  /\ rpc' = "await"
  /\ prefetch' = AsyncPoll(cursor + 1)
  /\ UNCHANGED <<vars, call, start, size, cursor, until, tip, page, consumed, complete>>

PollAgain ==
  /\ rpc = "backoff"
  /\ rpc' = "await"
  /\ prefetch' = AsyncPoll(cursor)
  /\ UNCHANGED <<vars, call, start, size, cursor, until, tip, page, consumed, complete>>

\* Yielded as an error; TailIter keeps one that looks like a cancellation to
\* itself, and just ends.
PollError == Awaits("error") /\ End(FALSE)

\* ORDER BY feed_seq
YieldRow ==
  /\ rpc = "yield"
  /\ \E i \in page :
       /\ \A j \in page : i <= j
       /\ consumed' = Append(consumed, log[i])
       /\ cursor' = i + 1
       /\ page' = page \ {i}
  /\ UNCHANGED <<vars, call, rpc, start, size, until, tip, prefetch, complete>>

PageIsRead ==
  /\ rpc = "yield" /\ page = {}
  /\ prefetch.state # "none"
  /\ rpc' = "await"
  /\ UNCHANGED <<vars, call, start, size, cursor, until, tip, page, prefetch, consumed,
                 complete>>

LastPageIsRead ==
  /\ rpc = "yield" /\ page = {}
  /\ prefetch.state = "none"
  /\ End(TRUE)

\* The consumer breaks its loop, or cancels what waits.
Stop == call # "none" /\ End(FALSE)

ReaderStep ==
  \/ CallPollIter \/ CallTailIter \/ QueryAnswers \/ QueryFails
  \/ TakePage \/ RangeIsRead \/ BackOff \/ PollAgain \/ PollError
  \/ YieldRow \/ PageIsRead \/ LastPageIsRead \/ Stop

ReaderNext ==
  \/ Next /\ UNCHANGED readerVars
  \/ ReaderStep

ReaderSpec == ReaderInit /\ [][ReaderNext]_allVars

-----------------------------------------------------------------------------
\* Offsets begin at 1.
First == IF start = 0 THEN 1 ELSE start

\* Over all its calls, with rows sequenced while windows are in flight, failed
\* queries and restarts, the consumer is handed every offset from its first one
\* on, once each and in order.
ConsumedInOrder ==
  /\ consumed = SubSeq(log, First, First + Len(consumed) - 1)
  /\ consumed # << >> => cursor = First + Len(consumed)

\* There is no offset 0: a window of that offset alone is empty for ever.
SeesOnlyZero == size = 1 /\ cursor = 0

\* A range that ends without an error has handed over every row within its
\* bounds that had an offset when it was called, although PollIter ends at the
\* first empty window and asks for windows, not for numbers of rows; except that
\* pages of one offset from OffsetNone end at once, whatever the feed holds.
RangeComplete == complete => tip < First + Len(consumed) \/ SeesOnlyZero

-----------------------------------------------------------------------------
(* Liveness.  Committed rows are sequenced, a tail that ended is called    *)
(* again, and not every tail is broken off or loses its query before it    *)
(* has handed over a row.                                                  *)

InTail(A) == call = "tail" /\ A

ReaderFairness ==
  /\ SF_allVars(CallTailIter)
  /\ SF_allVars(InTail(QueryAnswers))
  /\ SF_allVars(InTail(TakePage))
  /\ SF_allVars(InTail(YieldRow))
  /\ WF_allVars(\/ QueryAnswers \/ TakePage \/ RangeIsRead \/ BackOff \/ PollAgain
                 \/ PollError \/ YieldRow \/ PageIsRead \/ LastPageIsRead)

FairReaderSpec == ReaderSpec /\ WF_vars(Extend) /\ ReaderFairness

\* Every committed row reaches the consumer, whatever fails in between, unless it
\* looks at offset 0 alone, over and over.
EventuallyConsumed ==
  \A f \in FileIds :
    (f \in ready /\ ~SeesOnlyZero) ~> (\E i \in 1 .. Len(consumed) : consumed[i] = f)

=============================================================================
