---------------------------- MODULE IterPipeline ----------------------------
(***************************************************************************)
(* The streaming pipelines behind every read: readFetchAndDecodeIter       *)
(* (read.go) and pollFetchAndDecodeIter (poll.go), on the primitives of    *)
(* iter_pipeline_shared.go.  One call of one of the two kinds:             *)
(*                                                                         *)
(*   fetcher -- body slot, pool slot --> GET tasks -- bodies --> decode    *)
(*   workers -- byte budget, queue --> emit loop --> consumer              *)
(*                                                                         *)
(* A unit is what a worker decodes and the consumer is handed: a partition *)
(* with all its files (read), a file (poll).  Worker w owns the units      *)
(* u = w mod W.  state.ctx is the variable cause: "none" while it is       *)
(* alive, else its cancel cause; the group's ctx is derived from it.       *)
(***************************************************************************)
EXTENDS Integers, Sequences, FiniteSets

CONSTANTS
  Kinds,        \* the pipelines to check: "read", "poll"
  Units,        \* units in the result
  MaxFiles,     \* bound: files of a partition
  AllFiles,     \* bound: files of the result
  MaxWorkers,   \* opts.decodeWorkers
  QueueCap,     \* opts.decodeAheadPartitions, opts.decodeAheadFiles
  ReadAhead, PollAhead,  \* opts.fetchAheadFiles, 0 for its default
  PoolSlots,    \* the worker pool's slots left to this call
  ByteCap,      \* opts.decodeAheadBytes, 0 for none; a file is one byte
  CtxLikeErrors \* GETs and queries may fail with a context error although
                \* state.ctx is alive (the rate limiter's, a dial timeout's)

ASSUME PipelineAssumption ==
  /\ Kinds \subseteq {"read", "poll"}
  /\ Units \in Nat \ {0} /\ MaxFiles \in Nat \ {0} /\ AllFiles \in Nat \ {0}
  /\ MaxWorkers \in Nat \ {0}
  /\ QueueCap \in Nat \ {0} /\ ReadAhead \in Nat /\ PollAhead \in Nat /\ PoolSlots \in Nat \ {0}
  /\ ByteCap \in Nat
  /\ CtxLikeErrors \in BOOLEAN

VARIABLES
  kind, shape,  \* fixed for the call: which pipeline, files per unit
  cause,        \* state.ctx
  gctxDone,     \* a task of the group returned an error
  fpc, fpos,    \* the fetcher: its next step, and the file it is at
  slots,        \* body slots held
  task,         \* each file's download task
  body,         \* each file's body
  input,        \* poll: files handed to each worker and not taken
  wpc, wunit,   \* each worker: its next step, and the unit it is at
  buffered,     \* its bufferedBytes
  queue,        \* its queue: decoded units
  epc, epos,    \* the emit loop: its next step, and the unit it waits for
  item,         \* the unit it has received: the files decoded into it
  delivered,    \* history: what the consumer was handed
  result        \* how the call ended for the consumer

fixed     == <<kind, shape>>
fetchVars == <<fpc, fpos>>
taskVars  == <<task, gctxDone>>
workVars  == <<wpc, wunit>>
emitVars  == <<epc, epos, item, delivered, result>>
vars == <<fixed, cause, fetchVars, slots, taskVars, body, input, workVars, buffered,
          queue, emitVars>>

Files == (1 .. Units) \X (1 .. MaxFiles)

Read == kind = "read"

FilesOf(u) == {f \in Files : f[1] = u /\ f[2] <= shape[u]}

\* Clamped to the number of partitions; a poll does not know its files.
W == IF Read /\ Units < MaxWorkers THEN Units ELSE MaxWorkers

Workers == 1 .. W

WorkerOf(u) == ((u - 1) % W) + 1

Bytes(u) == shape[u]

\* fetchAheadFiles, or the pool's size.
Configured ==
  LET ahead == IF Read THEN ReadAhead ELSE PollAhead IN
    IF ahead = 0 THEN PoolSlots ELSE ahead

\* Faulty: bodyCap is not floored.
SlotCapAsConfigured == Configured

\* bodyCap: a read floors it to its largest partition.
SlotCap ==
  CHOOSE c \in {Configured} \cup {shape[u] : u \in 1 .. Units} :
    /\ Configured <= c
    /\ Read => \A u \in 1 .. Units : shape[u] <= c
    /\ c = Configured \/ (Read /\ \E u \in 1 .. Units : shape[u] = c)

Alive    == cause = "none"
GctxDone == gctxDone \/ ~Alive

Running(f) == task[f] \in {"get", "recorded", "marked"}
Marked(f)  == task[f] \in {"marked", "ended"}
PoolBusy   == Cardinality({f \in Files : Running(f)})

Causes == {"get", "decode", "source", "caller", "closed"}

TypeOK ==
  /\ kind \in Kinds /\ shape \in [1 .. Units -> 1 .. MaxFiles]
  /\ cause \in {"none"} \cup Causes
  /\ gctxDone \in BOOLEAN
  /\ fpc \in {"next", "submit", "hand", "drain", "closed"} /\ fpos \in Files \cup {<<0, 0>>}
  /\ slots \in 0 .. SlotCap
  /\ task \in [Files -> {"new", "get", "recorded", "marked", "ended"}]
  /\ body \in [Files -> {"nil", "present", "freed"}]
  /\ input \in [Workers -> Seq(1 .. Units)]
  /\ wpc \in [Workers -> {"take", "wait", "reserve", "decode", "send", "exited"}]
  /\ wunit \in [Workers -> 0 .. Units]
  /\ buffered \in [Workers -> Nat]
  /\ \A w \in Workers : Len(queue[w]) <= QueueCap
  /\ epc \in {"receive", "emit", "closing", "returned"}
  /\ epos \in 1 .. Units + 1 /\ item \subseteq Files
  /\ result \in {"open", "end", "broke"} \cup Causes

Init ==
  /\ kind \in Kinds
  /\ shape \in [1 .. Units -> 1 .. IF Read THEN MaxFiles ELSE 1]
  /\ Cardinality(UNION {FilesOf(u) : u \in 1 .. Units}) <= AllFiles
  /\ cause = "none" /\ gctxDone = FALSE
  /\ fpc = "next" /\ fpos = <<1, 1>>
  /\ slots = 0
  /\ task = [f \in Files |-> "new"]
  /\ body = [f \in Files |-> "nil"]
  /\ input = [w \in Workers |-> << >>]
  /\ wpc = [w \in Workers |-> "take"]
  /\ wunit = [w \in Workers |-> 0]
  /\ buffered = [w \in Workers |-> 0]
  /\ queue = [w \in Workers |-> << >>]
  /\ epc = "receive" /\ epos = 1 /\ item = {}
  /\ delivered = << >> /\ result = "open"

-----------------------------------------------------------------------------
\* recordHardErr: the first cancel sets the cause.
RecordHardErr(why) == cause' = IF Alive THEN why ELSE cause

\* bodySlots.release: it waits for a slot that is held, whatever the ctx says.
ReleaseSlots(n) == n <= slots /\ slots' = slots - n

ReleaseBytes(w, n) == buffered' = [buffered EXCEPT ![w] = @ - n]

-----------------------------------------------------------------------------
(* The fetcher: runFetcher and runPollFetcher.                             *)

\* The file after f; past the last one, a file that is not there.
After(f) ==
  IF f[2] < shape[f[1]] THEN <<f[1], f[2] + 1>>
  ELSE IF f[1] < Units THEN <<f[1] + 1, 1>> ELSE <<0, 0>>

Exhausted == fpos = <<0, 0>>

\* acquire takes a free slot without looking at the ctx.
AcquireSlot ==
  /\ fpc = "next" /\ ~Exhausted
  /\ slots < SlotCap
  /\ slots' = slots + 1
  /\ fpc' = "submit"
  /\ UNCHANGED <<fixed, cause, fpos, taskVars, body, input, workVars, buffered,
                 queue, emitVars>>

\* Group.Submit: a pool slot, or a task that is silently skipped.  The pool's
\* slots and the ctx race when both are ready.
SubmitTask ==
  /\ fpc = "submit"
  /\ \/ PoolBusy < PoolSlots /\ task' = [task EXCEPT ![fpos] = "get"]
     \/ GctxDone /\ task' = task
  /\ IF Read THEN fpc' = "next" /\ fpos' = After(fpos)
             ELSE fpc' = "hand" /\ fpos' = fpos
  /\ UNCHANGED <<fixed, cause, slots, gctxDone, body, input, workVars, buffered,
                 queue, emitVars>>

\* poll: the fan-out to the input channel of the unit's worker.
HandOver ==
  LET w == WorkerOf(fpos[1]) IN
    /\ fpc = "hand"
    /\ Len(input[w]) < QueueCap
    /\ input' = [input EXCEPT ![w] = Append(@, fpos[1])]
    /\ fpc' = "next" /\ fpos' = After(fpos)
    /\ UNCHANGED <<fixed, cause, slots, taskVars, body, workVars, buffered, queue,
                   emitVars>>

\* Every file is submitted, or the ctx is done where the fetcher would wait.
FetcherStops ==
  /\ \/ fpc = "next" /\ Exhausted
     \/ fpc = "next" /\ slots = SlotCap /\ GctxDone
     \/ fpc = "hand" /\ GctxDone
  /\ fpc' = "drain"
  /\ UNCHANGED <<fixed, cause, fpos, slots, taskVars, body, input, workVars,
                 buffered, queue, emitVars>>

\* poll: the source (PollIter, TailIter) yields an error, which is recorded
\* unless it looks like a cancellation, or observes that state.ctx is done.
SourceStops ==
  /\ ~Read /\ fpc = "next"
  /\ \/ RecordHardErr("source")
     \/ ~Alive /\ UNCHANGED cause
     \/ CtxLikeErrors /\ UNCHANGED cause
  /\ fpc' = "drain"
  /\ UNCHANGED <<fixed, fpos, slots, taskVars, body, input, workVars, buffered,
                 queue, emitVars>>

\* g.Wait, and in poll the inputs are closed.
FetcherCloses ==
  /\ fpc = "drain" /\ PoolBusy = 0
  /\ fpc' = "closed"
  /\ UNCHANGED <<fixed, cause, fpos, slots, taskVars, body, input, workVars,
                 buffered, queue, emitVars>>

-----------------------------------------------------------------------------
(* A download task, on a slot of the shared pool.                          *)

\* Faulty: the slot goes with the download, and again with the decode.
GetReleasesSlot(f) ==
  /\ task[f] = "get"
  /\ body' = [body EXCEPT ![f] = "present"]
  /\ slots' = slots - 1
  /\ task' = [task EXCEPT ![f] = "marked"]
  /\ UNCHANGED <<fixed, cause, fetchVars, gctxDone, input, workVars, buffered, queue,
                 emitVars>>

GetSucceeds(f) ==
  /\ task[f] = "get"
  /\ body' = [body EXCEPT ![f] = "present"]
  /\ task' = [task EXCEPT ![f] = "marked"]
  /\ UNCHANGED <<fixed, cause, fetchVars, slots, gctxDone, input, workVars, buffered,
                 queue, emitVars>>

\* An error or a panic: the slot is released and the cause recorded, except
\* for an error that looks like a cancellation.
GetFails(f) ==
  /\ task[f] = "get"
  /\ ReleaseSlots(1)
  /\ \/ RecordHardErr("get")
     \/ GctxDone /\ UNCHANGED cause
     \/ CtxLikeErrors /\ UNCHANGED cause
  /\ task' = [task EXCEPT ![f] = "recorded"]
  /\ UNCHANGED <<fixed, fetchVars, gctxDone, body, input, workVars, buffered, queue,
                 emitVars>>

\* markComplete with a nil body; close(fs.done).
MarkFailed(f) ==
  /\ task[f] = "recorded"
  /\ task' = [task EXCEPT ![f] = "marked"]
  /\ UNCHANGED <<fixed, cause, fetchVars, slots, gctxDone, body, input, workVars,
                 buffered, queue, emitVars>>

\* The task returns: an error cancels the group, and the pool slot is free.
TaskEnds(f) ==
  /\ task[f] = "marked"
  /\ task' = [task EXCEPT ![f] = "ended"]
  /\ gctxDone' = (gctxDone \/ body[f] = "nil")
  /\ UNCHANGED <<fixed, cause, fetchVars, slots, body, input, workVars, buffered,
                 queue, emitVars>>

-----------------------------------------------------------------------------
(* A decode worker: runDecodeWorker and runPollDecodeWorker.               *)

Step(w, from, to) ==
  /\ wpc[w] = from
  /\ wpc' = [wpc EXCEPT ![w] = to]

NextOwn(w) == IF wunit[w] = 0 THEN w ELSE wunit[w] + W

\* The next unit: of its own partitions, or from its input.
TakeUnit(w) ==
  /\ \/ Read /\ NextOwn(w) <= Units /\ wunit' = [wunit EXCEPT ![w] = NextOwn(w)]
        /\ UNCHANGED input
     \/ input[w] # << >> /\ wunit' = [wunit EXCEPT ![w] = Head(input[w])]
        /\ input' = [input EXCEPT ![w] = Tail(@)]
  /\ Step(w, "take", "wait")
  /\ UNCHANGED <<fixed, cause, fetchVars, slots, taskVars, body, buffered, queue,
                 emitVars>>

\* Nothing is left to take.  A worker of poll also leaves when the ctx is done.
WorkerFinishes(w) ==
  /\ IF Read THEN NextOwn(w) > Units
             ELSE ~Alive \/ (input[w] = << >> /\ fpc = "closed")
  /\ Step(w, "take", "exited")
  /\ UNCHANGED <<fixed, cause, fetchVars, slots, taskVars, body, input, wunit,
                 buffered, queue, emitVars>>

\* Faulty: one finished download is taken for all of them.
AnyMarked(u) == \E f \in FilesOf(u) : Marked(f)

\* markComplete, its counter and its close in one: only all of them count.
AllMarked(u) == \A f \in FilesOf(u) : Marked(f)

\* waitOrCancel: nil only if the downloads are done and the ctx is alive.
WaitForBodies(w) ==
  /\ wpc[w] = "wait"
  /\ \/ AllMarked(wunit[w]) /\ Alive /\ Step(w, "wait", "reserve")
     \/ ~Alive /\ Step(w, "wait", "exited")
  /\ UNCHANGED <<fixed, cause, fetchVars, slots, taskVars, body, input, wunit,
                 buffered, queue, emitVars>>

\* Faulty: the budget is not looked at.
FitsAlways(w, u) == buffered[w] >= 0 /\ u > 0

Fits(w, u) == buffered[w] = 0 \/ buffered[w] + Bytes(u) <= ByteCap

\* reserveBytes; with no budget it only reports the ctx.
ReserveBytes(w) ==
  /\ wpc[w] = "reserve"
  /\ IF ByteCap = 0 THEN Alive /\ UNCHANGED buffered
     ELSE Fits(w, wunit[w]) /\ buffered' = [buffered EXCEPT ![w] = @ + Bytes(wunit[w])]
  /\ Step(w, "reserve", "decode")
  /\ UNCHANGED <<fixed, cause, fetchVars, slots, taskVars, body, input, wunit, queue,
                 emitVars>>

\* The ctx ends the wait for the budget; poll then gives the body back, and is
\* stuck there when no slot is held.
ReserveCancelled(w) ==
  LET mine == FilesOf(wunit[w]) IN
    /\ wpc[w] = "reserve" /\ ~Alive
    /\ ByteCap = 0 \/ ~Fits(w, wunit[w])
    /\ IF Read THEN UNCHANGED <<slots, body>>
       ELSE /\ ReleaseSlots(1)
            /\ body' = [f \in Files |-> IF f \in mine THEN "freed" ELSE body[f]]
    /\ Step(w, "reserve", "exited")
    /\ UNCHANGED <<fixed, cause, fetchVars, taskVars, input, wunit, buffered, queue,
                   emitVars>>

Present(u) == {f \in FilesOf(u) : body[f] = "present"}

\* The bodies in F are decoded or refused: nil'ed, their slots released.
FreeBodies(F) ==
  /\ body' = [f \in Files |-> IF f \in F THEN "freed" ELSE body[f]]
  /\ ReleaseSlots(Cardinality(F))

Unreserve(w, u) == ReleaseBytes(w, IF ByteCap = 0 THEN 0 ELSE Bytes(u))

\* decodePartition skips nil bodies; poll hands its one body to the decoder.
Decode(w) ==
  LET u == wunit[w] IN
    /\ wpc[w] = "decode"
    /\ ~Read => Present(u) # {}
    /\ FreeBodies(Present(u))
    /\ Step(w, "decode", "send")
    /\ UNCHANGED <<fixed, cause, fetchVars, taskVars, input, wunit, buffered, queue,
                   emitVars>>

\* A body the decoder refuses: those before it, and it, are freed.  A nil body
\* makes poll's decoder panic, which frees nothing.
DecodeFails(w) ==
  LET u == wunit[w] IN
    /\ wpc[w] = "decode"
    /\ \/ \E F \in SUBSET Present(u) \ {{}} :
            /\ \A f \in F, g \in Present(u) \ F : f[2] < g[2]
            /\ FreeBodies(F)
            /\ Unreserve(w, u)
       \/ /\ ~Read /\ Present(u) = {}
          /\ UNCHANGED <<slots, body, buffered>>
    /\ RecordHardErr("decode")
    /\ Step(w, "decode", "exited")
    /\ UNCHANGED <<fixed, fetchVars, taskVars, input, wunit, queue, emitVars>>

\* The files of u that were decoded.
Decoded(u) == {f \in FilesOf(u) : body[f] = "freed"}

\* sendBatch: room in the queue first, the ctx only when there is none.
SendBatch(w) ==
  /\ wpc[w] = "send"
  /\ \/ /\ Len(queue[w]) < QueueCap
        /\ queue' = [queue EXCEPT ![w] = Append(@, Decoded(wunit[w]))]
        /\ Step(w, "send", "take")
        /\ UNCHANGED buffered
     \/ /\ Len(queue[w]) = QueueCap /\ ~Alive
        /\ Unreserve(w, wunit[w])
        /\ Step(w, "send", "exited")
        /\ UNCHANGED queue
  /\ UNCHANGED <<fixed, cause, fetchVars, slots, taskVars, body, input, wunit,
                 emitVars>>

-----------------------------------------------------------------------------
(* The emit loop, on the caller's goroutine.                               *)

\* Faulty: it takes whatever any worker has ready.
ReceiveAny ==
  \E w \in Workers :
    /\ epc = "receive" /\ queue[w] # << >>
    /\ item' = Head(queue[w])
    /\ queue' = [queue EXCEPT ![w] = Tail(@)]
    /\ epc' = "emit"
    /\ UNCHANGED <<fixed, cause, fetchVars, slots, taskVars, body, input, workVars,
                   buffered, epos, delivered, result>>

Receive ==
  LET w == WorkerOf(epos) IN
    /\ epc = "receive" /\ queue[w] # << >>
    /\ item' = Head(queue[w])
    /\ queue' = [queue EXCEPT ![w] = Tail(@)]
    /\ epc' = "emit"
    /\ UNCHANGED <<fixed, cause, fetchVars, slots, taskVars, body, input, workVars,
                   buffered, epos, delivered, result>>

\* The deferred cancel.  The helpers still have to leave.
CloseWith(why) ==
  /\ epc' = "closing"
  /\ result' = why
  /\ RecordHardErr("closed")

\* The callbacks of the entry points: to a slice, or to the consumer's loop.
Yield(it) == delivered' = Append(delivered, it)

\* emitOne: the consumer takes the unit and goes on, or leaves the loop.
EmitOne ==
  LET w == WorkerOf(epos) IN
    /\ epc = "emit"
    /\ Yield(item)
    /\ item' = {}
    /\ Unreserve(w, epos)
    /\ \/ /\ epc' = "receive" /\ epos' = epos + 1
          /\ UNCHANGED <<result, cause>>
       \/ /\ CloseWith("broke")
          /\ epos' = epos
    /\ UNCHANGED <<fixed, fetchVars, slots, taskVars, body, input, workVars, queue>>

\* Behind the last partition; in poll, a closed queue with no cause.
EmitEnds ==
  /\ epc = "receive" /\ Alive
  /\ IF Read THEN epos > Units
     ELSE queue[WorkerOf(epos)] = << >> /\ wpc[WorkerOf(epos)] = "exited"
  /\ CloseWith("end")
  /\ UNCHANGED <<fixed, fetchVars, slots, taskVars, body, input, workVars, buffered,
                 queue, epos, item, delivered>>

\* The ctx is done while the loop waits.  Behind its last partition a read is
\* over and does not look at it.
EmitAborts ==
  /\ epc = "receive" /\ ~Alive
  /\ IF Read /\ epos > Units THEN CloseWith("end") ELSE CloseWith(cause)
  /\ UNCHANGED <<fixed, fetchVars, slots, taskVars, body, input, workVars, buffered,
                 queue, epos, item, delivered>>

\* wg.Wait.
Return ==
  /\ epc = "closing"
  /\ fpc = "closed" /\ \A w \in Workers : wpc[w] = "exited"
  /\ epc' = "returned"
  /\ UNCHANGED <<fixed, cause, fetchVars, slots, taskVars, body, input, workVars,
                 buffered, queue, epos, item, delivered, result>>

\* The caller's ctx is cancelled, or its deadline passes.
CallerCancels ==
  /\ Alive /\ epc # "returned"
  /\ cause' = "caller"
  /\ UNCHANGED <<fixed, fetchVars, slots, taskVars, body, input, workVars, buffered,
                 queue, emitVars>>

-----------------------------------------------------------------------------
FetcherStep ==
  AcquireSlot \/ SubmitTask \/ HandOver \/ FetcherStops \/ FetcherCloses

TaskStep(f) == GetSucceeds(f) \/ GetFails(f) \/ MarkFailed(f) \/ TaskEnds(f)

WorkerStep(w) ==
  \/ TakeUnit(w) \/ WorkerFinishes(w) \/ WaitForBodies(w)
  \/ ReserveBytes(w) \/ ReserveCancelled(w)
  \/ Decode(w) \/ DecodeFails(w) \/ SendBatch(w)

EmitStep == Receive \/ EmitOne \/ EmitEnds \/ EmitAborts \/ Return

Next ==
  \/ FetcherStep \/ SourceStops
  \/ \E f \in Files : TaskStep(f)
  \/ \E w \in Workers : WorkerStep(w)
  \/ EmitStep \/ CallerCancels

Spec == Init /\ [][Next]_vars

-----------------------------------------------------------------------------
(* Safety.                                                                 *)

\* A body is held, or still being fetched, only against a slot: compressed
\* bodies never exceed the bound, whatever fails, and however often.
BodiesBounded ==
  Cardinality({f \in Files : task[f] = "get" \/ body[f] = "present"}) <= slots

\* What worker w has decoded and the consumer is not done with.
DecodedAhead(w) ==
  {queue[w][i] : i \in 1 .. Len(queue[w])}
    \cup (IF wpc[w] = "send" THEN {Decoded(wunit[w])} ELSE {})
    \cup (IF epc = "emit" /\ WorkerOf(epos) = w THEN {item} ELSE {})

\* WithDecodeAheadBytes holds for every worker at any moment; a unit that is
\* larger than the whole budget is held alone.
BudgetHolds ==
  ByteCap # 0 =>
    \A w \in Workers :
      \/ Cardinality(UNION DecodedAhead(w)) <= ByteCap
      \/ Cardinality(DecodedAhead(w)) <= 1

\* The stream the consumer sees is RecordStream: units in order, every one
\* whole, and no end without an error before the last of them.
Stream == INSTANCE RecordStream WITH
  content    <- [u \in 1 .. Units |-> FilesOf(u)],
  out        <- delivered,
  closing    <- result,
  Incomplete <- Causes

StreamsWhole == Stream!Spec

\* read.go, on recordHardErr: "no decoder can silently emit a partition with
\* mixed present/nil bodies".
NoPartialUnit == \A i \in 1 .. Len(delivered) : delivered[i] = FilesOf(i)

-----------------------------------------------------------------------------
(* Liveness.  The stages are goroutines that keep running, a GET ends with *)
(* an answer or an error, and the consumer keeps asking for the next unit. *)

Fairness ==
  /\ WF_vars(FetcherStep)
  /\ \A f \in Files : WF_vars(TaskStep(f))
  /\ \A w \in 1 .. MaxWorkers : WF_vars(w \in Workers /\ WorkerStep(w))
  /\ WF_vars(EmitStep)

FairSpec == Spec /\ Fairness

\* No read hangs, with slots, pool, budget and queues at their smallest: the
\* call returns, and every goroutine of it has ended.
CallReturns == <>(epc = "returned" /\ PoolBusy = 0)

=============================================================================
