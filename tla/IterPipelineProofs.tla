------------------------- MODULE IterPipelineProofs -------------------------
(***************************************************************************)
(* Proofs about IterPipeline, for any number of units, files, workers,     *)
(* slots, queue places and bytes: the types, the bound on compressed       *)
(* bodies, the budget of decoded ones, and that either pipeline is a       *)
(* RecordStream. The theorems have the hypothesis CtxLikeErrors = FALSE:   *)
(* no GET or query fails with a context error while state.ctx is alive.    *)
(* Without it the layers from CauseFirst on do not hold of the code (the   *)
(* runs partial_read and poll_hang), and for reads, which keep ReadInv,    *)
(* only the bound on bodies is proved.                                     *)
(*                                                                         *)
(* The layers of the invariant, each on those before it:                   *)
(*   CauseFirst      a download that failed has cancelled state.ctx before *)
(*                   it is marked, so a worker that sees the ctx alive     *)
(*                   behind its downloads has all bodies (BodiesFollow)    *)
(*   InputsInOrder   a worker takes its own units in order, none left out  *)
(*   BodiesFollow    a body is fetched once and freed once, by the worker  *)
(*                   whose unit it is, and that unit is whole              *)
(*   SlotsCover      so each body slot is given back once                  *)
(*   QueuesInOrder   so a queue holds whole units, in order, and the head  *)
(*                   of the one the emit loop looks at is the unit it is   *)
(*                   waiting for                                           *)
(*   BytesCounted    so what is reserved is what is decoded ahead          *)
(***************************************************************************)
EXTENDS IterPipeline, FiniteSetTheorems, WellFoundedInduction, TLAPS

-----------------------------------------------------------------------------
(* The inductive invariant, in layers: each is kept by every step that     *)
(* starts and ends in the layers before it.                                *)

Busy   == {"wait", "reserve", "decode", "send"}
Closed == {"drain", "closed"}

Own(w, u) == u \in 1 .. Units /\ WorkerOf(u) = w

\* The types the other layers need; the rest of TypeOK follows from them.
CallTypes ==
  /\ kind \in Kinds /\ shape \in [1 .. Units -> 1 .. MaxFiles]
  /\ ~Read => \A u \in 1 .. Units : shape[u] = 1
  /\ cause \in {"none"} \cup Causes /\ gctxDone \in BOOLEAN

FetcherTypes ==
  /\ fpc \in {"next", "submit", "hand"} \cup Closed /\ fpos \in Files \cup {<<0, 0>>}
  /\ ~Exhausted => fpos \in FilesOf(fpos[1])
  /\ fpc \in {"submit", "hand"} => ~Exhausted
  /\ fpc = "hand" => ~Read
  /\ slots \in 0 .. SlotCap

TaskTypes ==
  /\ task \in [Files -> {"new", "get", "recorded", "marked", "ended"}]
  /\ body \in [Files -> {"nil", "present", "freed"}]

WorkerTypes ==
  /\ input \in [Workers -> Seq(1 .. Units)]
  /\ wpc \in [Workers -> {"take", "exited"} \cup Busy]
  /\ wunit \in [Workers -> 0 .. Units]
  /\ \A w \in Workers : wpc[w] \in Busy => wunit[w] # 0

EmitTypes ==
  /\ queue \in [Workers -> Seq(SUBSET Files)]
  /\ \A w \in Workers : Len(queue[w]) <= QueueCap
  /\ epc \in {"receive", "emit", "closing", "returned"}
  /\ epos \in Nat \ {0} /\ item \subseteq Files
  /\ delivered \in Seq(SUBSET Files)
  /\ result \in {"open", "end", "broke"} \cup Causes

Types == CallTypes /\ FetcherTypes /\ TaskTypes /\ WorkerTypes /\ EmitTypes

\* A download that failed has set the cause before anybody can see that it is
\* over: recordHardErr comes before markComplete, and that before the return.
CauseFirst ==
  /\ gctxDone => ~Alive
  /\ \A f \in Files :
       /\ task[f] = "recorded" => ~Alive
       /\ Marked(f) /\ body[f] = "nil" => ~Alive

\* The unit of the fetcher's file.
NextUnit == IF Exhausted THEN Units + 1 ELSE fpos[1]

\* A worker takes its own units in order, none left out: from its input, which
\* holds those between the last it took and the fetcher's, or by counting.
HasInput(w, u) == \E i \in 1 .. Len(input[w]) : input[w][i] = u

TakesInOrder(w) ==
  /\ wunit[w] # 0 => Own(w, wunit[w])
  /\ Read => input[w] = << >>
  /\ ~Read =>
       /\ wunit[w] < NextUnit
       /\ \A u \in 1 .. Units :
            HasInput(w, u) <=> Own(w, u) /\ wunit[w] < u /\ u < NextUnit
       /\ \A i, j \in 1 .. Len(input[w]) : i < j => input[w][i] < input[w][j]
  /\ wpc[w] = "exited" /\ Alive => \A u \in 1 .. Units : Own(w, u) => u <= wunit[w]

InputsInOrder ==
  /\ Alive /\ fpc \in Closed => Exhausted
  /\ \A w \in Workers : TakesInOrder(w)

\* Files at the fetcher's and behind it.
NotFetched(f) ==
  /\ ~Exhausted /\ fpc \notin Closed
  /\ f[1] > fpos[1] \/ (f[1] = fpos[1] /\ f[2] >= fpos[2])
  /\ fpc = "hand" => f # fpos

FilesAhead == \A f \in Files : NotFetched(f) => task[f] = "new"

\* A body goes from nil to present to freed, the last by its own worker at its
\* own unit, and a unit that is reserved or decoded has all its bodies.
BodyFollows(f) ==
  /\ task[f] \in {"new", "get", "recorded"} => body[f] = "nil"
  /\ body[f] = "freed" =>
       /\ f[1] <= wunit[WorkerOf(f[1])]
       /\ f[1] = wunit[WorkerOf(f[1])] => wpc[WorkerOf(f[1])] \in {"send", "take", "exited"}

UnitHeld(w) ==
  /\ wpc[w] \in {"reserve", "decode"} => \A f \in FilesOf(wunit[w]) : body[f] = "present"
  /\ wpc[w] = "send" => \A f \in FilesOf(wunit[w]) : body[f] = "freed"

BodiesFollow ==
  /\ FilesAhead
  /\ \A f \in Files : BodyFollows(f)
  /\ \A w \in Workers : UnitHeld(w)

InUse == {f \in Files : task[f] = "get" \/ body[f] = "present"}

\* Each download under way and each body has a slot of its own, and so has the
\* file the fetcher is about to submit.
SlotsCover == Cardinality(InUse) + (IF fpc = "submit" THEN 1 ELSE 0) <= slots

\* The units of w that are decoded and not handed over: in its queue, or with
\* the emit loop.
Queued(w)  == {queue[w][i] : i \in 1 .. Len(queue[w])}
InHand(w)  == IF epc = "emit" /\ WorkerOf(epos) = w THEN {item} ELSE {}
Ahead(w)   == Queued(w) \cup InHand(w)

\* The unit that the emit loop will receive next.
NextReceived == IF epc = "emit" THEN epos + 1 ELSE epos

\* w has sent what it took, unless it was cancelled before.
Sent(w) == wpc[w] = "take" \/ (wpc[w] = "exited" /\ Alive)

\* The units that w is done with, and those of them that it has sent.
Done(w, u)   == Own(w, u) /\ u <= wunit[w] /\ (wpc[w] \in Busy => u < wunit[w])
SentBy(w, u) == Own(w, u) /\ (u < wunit[w] \/ (u = wunit[w] /\ Sent(w)))

\* A queue holds whole units of its worker in order: while the call is open,
\* those from the next to be received to the last one sent.
QueueHolds(w) == \A F \in Ahead(w) : \E u \in 1 .. Units : F = FilesOf(u) /\ Done(w, u)

QueueSorted(w) ==
  \A i, j \in 1 .. Len(queue[w]) :
    i < j => \A f \in queue[w][i], g \in queue[w][j] : f[1] < g[1]

QueueNext(w) ==
  /\ \A F \in Queued(w) : \A f \in F : NextReceived <= f[1]
  /\ \A u \in 1 .. Units : SentBy(w, u) /\ NextReceived <= u => FilesOf(u) \in Queued(w)
  /\ \A u \in 1 .. Units : Own(w, u) /\ ~Done(w, u) => NextReceived <= u

\* The consumer has the units before the emit loop's, which is whole.
EmitsInOrder ==
  /\ result = "open" <=> epc \in {"receive", "emit"}
  /\ epc = "emit" => epos <= Units /\ item = FilesOf(epos)
  /\ epos <= Units + 1
  /\ result = "open" =>
       /\ Len(delivered) = epos - 1
       /\ \A i \in 1 .. epos - 1 : delivered[i] = FilesOf(i)

QueuesInOrder ==
  /\ EmitsInOrder
  /\ \A w \in Workers :
       QueueHolds(w) /\ QueueSorted(w) /\ (result = "open" => QueueNext(w))

\* What w has reserved bytes for.
Reserved(w) ==
  Ahead(w) \cup (IF wpc[w] \in {"decode", "send"} THEN {FilesOf(wunit[w])} ELSE {})

\* The budget counts the files of these units: within the bound, or of one unit.
BytesOf(w) ==
  /\ buffered[w] = IF ByteCap = 0 THEN 0 ELSE Cardinality(UNION Reserved(w))
  /\ buffered[w] <= ByteCap \/ \A F, G \in Reserved(w) : F = G

BytesCounted == buffered \in [Workers -> Nat] /\ \A w \in Workers : BytesOf(w)

IInv ==
  /\ Types /\ CauseFirst /\ InputsInOrder /\ BodiesFollow
  /\ SlotsCover /\ QueuesInOrder /\ BytesCounted

\* What is left of them in a read whose errors may look like a cancellation.
ReadInv ==
  /\ Read /\ Types /\ \A w \in Workers : TakesInOrder(w)
  /\ FilesAhead /\ \A f \in Files : BodyFollows(f)
  /\ SlotsCover

-----------------------------------------------------------------------------
(* Numbers.                                                                *)

\* A set of naturals has a least element.
LEMMA Least ==
  ASSUME NEW T \in SUBSET Nat, T # {}
  PROVE  \E x \in T : \A y \in T : x <= y
<1> DEFINE S  == FiniteSubsetsOf(Nat)
           SS == StrictSubsetOrdering(Nat)
           TT == {0 .. x : x \in T}
<1>1. TT \subseteq S
  <2>1. \A x \in T : x \in Nat /\ 0 .. x \subseteq Nat
    OBVIOUS
  <2>2. \A x \in T : IsFiniteSet(0 .. x)
    BY <2>1, FS_Interval
  <2> QED BY <2>1, <2>2 DEF FiniteSubsetsOf
<1>2. TT # {}
  OBVIOUS
<1>3. IsWellFoundedOn(SS, S)
  BY FS_StrictSubsetOrderingWellFounded, Zenon
<1>4. PICK A \in TT : \A B \in TT : ~ (<<B, A>> \in SS)
  <2> HIDE DEF S, SS, TT
  <2> QED BY <1>1, <1>2, <1>3, WFMin
<1>5. PICK x \in T : A = 0 .. x
  OBVIOUS
<1>6. ASSUME NEW y \in T, y < x PROVE FALSE
  <2>1. 0 .. y \in SUBSET Nat /\ 0 .. x \in SUBSET Nat /\ 0 .. y \in TT
    OBVIOUS
  <2>2. 0 .. y \subseteq 0 .. x /\ 0 .. y # 0 .. x
    BY <1>6
  <2>3. <<0 .. y, 0 .. x>> \in SS
    BY <2>1, <2>2 DEF StrictSubsetOrdering
  <2> QED BY <1>4, <1>5, <2>1, <2>3
<1> QED BY <1>6

\* Numbers with the same remainder are n apart at least.
LEMMA Apart ==
  ASSUME NEW a \in Nat, NEW b \in Nat, NEW n \in Nat \ {0}, a % n = b % n, a < b
  PROVE  a + n <= b
<1> DEFINE p == a \div n
           q == b \div n
           r == a % n
<1>1. a = n * p + r /\ b = n * q + r /\ p \in Nat /\ q \in Nat /\ r \in 0 .. n-1
  OBVIOUS
<1> HIDE DEF p, q, r
<1>2. p < q
  BY <1>1
<1>3. PICK d \in Nat : q = p + 1 + d
  BY <1>1, <1>2
<1>4. n * q = n * p + n + n * d
  BY <1>1, <1>3
<1>5. n * d >= 0
  OBVIOUS
<1>6. n * p \in Int /\ n * d \in Int /\ n * q \in Int
  BY <1>1
<1> QED BY <1>1, <1>4, <1>5, <1>6

\* A quotient and a remainder are those of their number.
LEMMA ModUnique ==
  ASSUME NEW n \in Nat \ {0}, NEW q \in Nat, NEW r \in 0 .. n - 1
  PROVE  (n * q + r) % n = r
OBVIOUS

\* Adding n keeps the remainder.
LEMMA ModPlus ==
  ASSUME NEW a \in Nat, NEW n \in Nat \ {0}
  PROVE  (a + n) % n = a % n
<1> DEFINE q == a \div n
           r == a % n
<1>1. a = n * q + r /\ q \in Nat /\ r \in 0 .. n - 1
  OBVIOUS
<1> HIDE DEF q, r
<1>2. a + n = n * (q + 1) + r
  BY <1>1
<1>3. (n * (q + 1) + r) % n = r
  BY <1>1, ModUnique
<1> QED BY <1>2, <1>3 DEF r

\* The bound of the body slots that the code computes exists: at least what is
\* configured, and in a read at least the largest partition.
LEMMA SlotCapType ==
  ASSUME CallTypes
  PROVE  /\ SlotCap \in Nat \ {0} /\ SlotCap >= Configured
         /\ Read => \A u \in 1 .. Units : shape[u] <= SlotCap
<1> USE PipelineAssumption DEF CallTypes
<1> DEFINE P(c) == /\ Configured <= c
                   /\ Read => \A u \in 1 .. Units : shape[u] <= c
                   /\ c = Configured \/ (Read /\ \E u \in 1 .. Units : shape[u] = c)
           T == {c \in Nat : /\ Configured <= c
                             /\ Read => \A u \in 1 .. Units : shape[u] <= c}
<1>1. Configured \in Nat \ {0}
  BY DEF Configured
<1>2. Configured + MaxFiles \in T
  BY <1>1
<1>3. PICK c \in T : \A d \in T : c <= d
  <2> HIDE DEF T
  <2> T \subseteq Nat
    BY DEF T
  <2> QED BY <1>2, Least
<1>4. c = Configured \/ (Read /\ \E u \in 1 .. Units : shape[u] = c)
  <2>1. CASE c = Configured
    BY <2>1
  <2>2. CASE c # Configured /\ ~ \E u \in 1 .. Units : Read /\ shape[u] = c
    <3>1. c - 1 \in T
      BY <1>1, <2>2
    <3> QED BY <1>3, <3>1
  <2> QED BY <2>1, <2>2
<1>5. P(c) /\ c \in {Configured} \cup {shape[u] : u \in 1 .. Units}
  BY <1>3, <1>4
<1>6. P(SlotCap) /\ SlotCap \in {Configured} \cup {shape[u] : u \in 1 .. Units}
  BY <1>5 DEF SlotCap
<1> QED BY <1>1, <1>6


-----------------------------------------------------------------------------
(* Units, workers and files.                                               *)

\* A worker's units are W apart, and none of them lies between.
LEMMA OwnUnits ==
  ASSUME Types
  PROVE  /\ W \in Nat \ {0}
         /\ \A u \in Nat \ {0} : WorkerOf(u) \in Workers
         /\ \A u \in Nat \ {0} : WorkerOf(u + W) = WorkerOf(u)
         /\ \A w \in Workers : WorkerOf(w) = w
         /\ \A u, v \in Nat \ {0} : WorkerOf(u) = WorkerOf(v) /\ u < v => u + W <= v
<1> USE PipelineAssumption
<1>1. W \in Nat \ {0}
  BY DEF W
<1> HIDE PipelineAssumption
<1>2. ASSUME NEW u \in Nat \ {0}
      PROVE  /\ u - 1 \in Nat /\ (u - 1) % W \in 0 .. W - 1
             /\ ((u + W) - 1) % W = (u - 1) % W
  <2>1. u - 1 \in Nat
    OBVIOUS
  <2>2. (u - 1) % W \in 0 .. W - 1
    BY <1>1, <2>1
  <2>3. ((u - 1) + W) % W = (u - 1) % W
    BY <1>1, <2>1, ModPlus
  <2>4. (u + W) - 1 = (u - 1) + W
    BY <1>1
  <2> QED BY <2>1, <2>2, <2>3, <2>4
<1>3. \A u \in Nat \ {0} : WorkerOf(u) \in Workers
  BY <1>1, <1>2 DEF WorkerOf, Workers
<1>4. \A u \in Nat \ {0} : WorkerOf(u + W) = WorkerOf(u)
  BY <1>2 DEF WorkerOf
<1>5. ASSUME NEW w \in Workers PROVE WorkerOf(w) = w
  <2>1. w - 1 \in Nat /\ w - 1 < W /\ w \in Nat
    BY <1>1 DEF Workers
  <2>2. (w - 1) % W = w - 1
    BY <1>1, <2>1
  <2> QED BY <2>1, <2>2 DEF WorkerOf
<1>6. ASSUME NEW u \in Nat \ {0}, NEW v \in Nat \ {0}, WorkerOf(u) = WorkerOf(v), u < v
      PROVE  u + W <= v
  <2>1. (u - 1) % W = (v - 1) % W
    BY <1>1, <1>2, <1>6 DEF WorkerOf
  <2>2. u - 1 \in Nat /\ v - 1 \in Nat /\ u - 1 < v - 1
    BY <1>6
  <2>3. (u - 1) + W <= v - 1
    BY <1>1, <2>1, <2>2, Apart
  <2> QED BY <1>1, <2>3
<1> QED BY <1>1, <1>3, <1>4, <1>5, <1>6

\* No step changes the pipeline or its units, and a cause is for good.
LEMMA Fixed ==
  ASSUME [Next]_vars
  PROVE  /\ kind' = kind /\ shape' = shape
         /\ Read' = Read /\ W' = W /\ Workers' = Workers /\ SlotCap' = SlotCap
         /\ \A u : FilesOf(u)' = FilesOf(u) /\ WorkerOf(u)' = WorkerOf(u)
         /\ \A w, u : Own(w, u)' = Own(w, u)
         /\ Alive' => Alive
<1>1. kind' = kind /\ shape' = shape
  BY DEF Next, FetcherStep, AcquireSlot, SubmitTask, HandOver, FetcherStops, FetcherCloses,
    SourceStops, TaskStep, GetSucceeds, GetFails, MarkFailed, TaskEnds, WorkerStep, TakeUnit,
    WorkerFinishes, WaitForBodies, ReserveBytes, ReserveCancelled, Decode, DecodeFails,
    SendBatch, EmitStep, Receive, EmitOne, EmitEnds, EmitAborts, Return, CallerCancels, fixed, vars
<1>2. Alive' => Alive
  BY DEF Next, FetcherStep, AcquireSlot, SubmitTask, HandOver, FetcherStops, FetcherCloses,
    SourceStops, TaskStep, GetSucceeds, GetFails, MarkFailed, TaskEnds, WorkerStep, TakeUnit,
    WorkerFinishes, WaitForBodies, ReserveBytes, ReserveCancelled, Decode, DecodeFails,
    SendBatch, EmitStep, Receive, EmitOne, EmitEnds, EmitAborts, Return, CallerCancels, vars,
    RecordHardErr, CloseWith, Alive
<1>3. Read' = Read
  BY <1>1 DEF Read
<1>4. W' = W /\ SlotCap' = SlotCap
  BY <1>1, <1>3 DEF W, SlotCap, Configured
<1>5. Workers' = Workers /\ \A u : WorkerOf(u)' = WorkerOf(u)
  BY <1>4 DEF Workers, WorkerOf
<1>6. \A u : FilesOf(u)' = FilesOf(u)
  BY <1>1 DEF FilesOf, Files
<1>7. \A w, u : Own(w, u)' = Own(w, u)
  BY <1>5 DEF Own
<1> QED BY <1>1, <1>2, <1>3, <1>4, <1>5, <1>6, <1>7

\* A unit has as many files as it has bytes, and no file is of two units.
LEMMA FilesOfUnit ==
  ASSUME CallTypes, NEW u \in 1 .. Units
  PROVE  /\ IsFiniteSet(FilesOf(u)) /\ Cardinality(FilesOf(u)) = shape[u]
         /\ shape[u] \in Nat \ {0}
         /\ FilesOf(u) \subseteq Files /\ <<u, 1>> \in FilesOf(u)
         /\ \A f \in FilesOf(u) : f[1] = u
<1> USE PipelineAssumption
<1>1. shape[u] \in 1 .. MaxFiles
  BY DEF CallTypes
<1>2. FilesOf(u) = {u} \X (1 .. shape[u])
  <2>1. ASSUME NEW f \in FilesOf(u) PROVE f \in {u} \X (1 .. shape[u])
    BY <1>1 DEF FilesOf, Files
  <2>2. ASSUME NEW f \in {u} \X (1 .. shape[u]) PROVE f \in FilesOf(u)
    BY <1>1 DEF FilesOf, Files
  <2> QED BY <2>1, <2>2
<1>3. IsFiniteSet({u}) /\ Cardinality({u}) = 1
  BY FS_Singleton
<1>4. IsFiniteSet(1 .. shape[u]) /\ Cardinality(1 .. shape[u]) = shape[u]
  <2>1. shape[u] \in Int /\ 1 \in Int /\ ~ (1 > shape[u]) /\ shape[u] - 1 + 1 = shape[u]
    BY <1>1
  <2>2. /\ IsFiniteSet(1 .. shape[u])
        /\ Cardinality(1 .. shape[u]) = IF 1 > shape[u] THEN 0 ELSE shape[u] - 1 + 1
    BY <2>1, FS_Interval
  <2> QED BY <2>1, <2>2
<1>5. IsFiniteSet(FilesOf(u)) /\ Cardinality(FilesOf(u)) = 1 * shape[u]
  <2>1. /\ IsFiniteSet({u} \X (1 .. shape[u]))
        /\ Cardinality({u} \X (1 .. shape[u])) = Cardinality({u}) * Cardinality(1 .. shape[u])
    BY <1>3, <1>4, FS_Product
  <2> QED BY <1>2, <1>3, <1>4, <2>1
<1>6. <<u, 1>> \in FilesOf(u)
  BY <1>1, <1>2
<1> QED BY <1>1, <1>5, <1>6 DEF FilesOf

-----------------------------------------------------------------------------
(* Types.                                                                  *)

\* What the call was given stays, and a cause is one of Causes.
LEMMA CallType ==
  ASSUME Types, [Next]_vars
  PROVE  CallTypes'
<1>1. kind' = kind /\ shape' = shape /\ Read' = Read
  BY Fixed
<1>2. cause' \in {"none"} \cup Causes
  BY DEF Types, CallTypes, Next, FetcherStep, AcquireSlot, SubmitTask, HandOver, FetcherStops,
    FetcherCloses, SourceStops, TaskStep, GetSucceeds, GetFails, MarkFailed, TaskEnds, WorkerStep,
    TakeUnit, WorkerFinishes, WaitForBodies, ReserveBytes, ReserveCancelled, Decode, DecodeFails,
    SendBatch, EmitStep, Receive, EmitOne, EmitEnds, EmitAborts, Return, CallerCancels, vars,
    RecordHardErr, CloseWith, Causes
<1>3. gctxDone' \in BOOLEAN
  BY DEF Types, CallTypes, Next, FetcherStep, AcquireSlot, SubmitTask, HandOver, FetcherStops,
    FetcherCloses, SourceStops, TaskStep, GetSucceeds, GetFails, MarkFailed, TaskEnds, WorkerStep,
    TakeUnit, WorkerFinishes, WaitForBodies, ReserveBytes, ReserveCancelled, Decode, DecodeFails,
    SendBatch, EmitStep, Receive, EmitOne, EmitEnds, EmitAborts, Return, CallerCancels, vars,
    taskVars
<1> QED BY <1>1, <1>2, <1>3 DEF Types, CallTypes

\* The file after one of a unit's is one of a unit's, or there is none.
LEMMA AfterType ==
  ASSUME Types, ~Exhausted
  PROVE  /\ After(fpos) \in Files \cup {<<0, 0>>}
         /\ After(fpos) # <<0, 0>> => After(fpos) \in FilesOf(After(fpos)[1])
<1> USE PipelineAssumption
<1>1. /\ fpos[1] \in 1 .. Units /\ fpos[2] \in 1 .. MaxFiles /\ fpos[2] <= shape[fpos[1]]
      /\ fpos = <<fpos[1], fpos[2]>>
  BY DEF Types, FetcherTypes, Exhausted, FilesOf, Files
<1>2. \A u \in 1 .. Units : shape[u] \in 1 .. MaxFiles
  BY DEF Types, CallTypes
<1>3. CASE fpos[2] < shape[fpos[1]]
  <2>1. After(fpos) = <<fpos[1], fpos[2] + 1>> /\ fpos[2] + 1 \in 1 .. MaxFiles
    BY <1>1, <1>2, <1>3 DEF After
  <2>2. After(fpos) \in Files /\ After(fpos)[1] = fpos[1] /\ After(fpos)[2] = fpos[2] + 1
    BY <1>1, <2>1 DEF Files
  <2>3. After(fpos)[2] <= shape[After(fpos)[1]]
    BY <1>1, <1>2, <1>3, <2>2
  <2> QED BY <2>2, <2>3 DEF FilesOf
<1>4. CASE ~ (fpos[2] < shape[fpos[1]]) /\ fpos[1] < Units
  <2>1. After(fpos) = <<fpos[1] + 1, 1>> /\ fpos[1] + 1 \in 1 .. Units
    BY <1>1, <1>4 DEF After
  <2> QED BY <1>2, <2>1 DEF FilesOf, Files
<1>5. CASE ~ (fpos[2] < shape[fpos[1]]) /\ ~ (fpos[1] < Units)
  BY <1>5 DEF After
<1> QED BY <1>3, <1>4, <1>5

\* The fetcher stays at a file of a unit, and slots between none and the bound.
LEMMA FetcherType ==
  ASSUME Types, [Next]_vars
  PROVE  FetcherTypes'
<1>1. SlotCap \in Nat \ {0} /\ SlotCap' = SlotCap /\ Read' = Read
      /\ \A u : FilesOf(u)' = FilesOf(u)
  BY Fixed, SlotCapType DEF Types
<1>2. Exhausted' <=> fpos' = <<0, 0>>
  BY DEF Exhausted
<1>3. CASE UNCHANGED <<fpc, fpos, slots>>
  BY <1>1, <1>2, <1>3 DEF Types, FetcherTypes, Exhausted
<1>4. CASE AcquireSlot
  BY <1>1, <1>2, <1>4 DEF Types, FetcherTypes, Exhausted, AcquireSlot
<1>5. CASE SubmitTask
  BY <1>1, <1>2, <1>5, AfterType DEF Types, FetcherTypes, Exhausted, SubmitTask
<1>6. CASE HandOver
  BY <1>1, <1>2, <1>6, AfterType DEF Types, FetcherTypes, Exhausted, HandOver
<1>7. CASE FetcherStops \/ FetcherCloses \/ SourceStops
  BY <1>1, <1>2, <1>7 DEF Types, FetcherTypes, Exhausted, Closed, FetcherStops, FetcherCloses,
    SourceStops
<1>8. CASE /\ UNCHANGED <<fpc, fpos>>
           /\ slots' = slots \/ \E n \in Nat : ReleaseSlots(n)
  <2>1. slots' \in 0 .. SlotCap
    BY <1>1, <1>8 DEF Types, FetcherTypes, ReleaseSlots
  <2> QED BY <1>1, <1>2, <1>8, <2>1 DEF Types, FetcherTypes, Exhausted
<1>9. ASSUME NEW u \in 1 .. Units, NEW F \in SUBSET FilesOf(u) PROVE Cardinality(F) \in Nat
  <2>1. IsFiniteSet(FilesOf(u))
    BY FilesOfUnit DEF Types
  <2>2. IsFiniteSet(F)
    BY <2>1, FS_Subset
  <2> QED BY <2>2, FS_CardinalityType
<1>10. ASSUME NEW f \in Files, TaskStep(f)
       PROVE  \/ UNCHANGED <<fpc, fpos, slots>>
              \/ UNCHANGED <<fpc, fpos>> /\ \E n \in Nat : ReleaseSlots(n)
  BY <1>10 DEF TaskStep, GetSucceeds, GetFails, MarkFailed, TaskEnds, fetchVars
<1>11. ASSUME NEW w \in Workers, WorkerStep(w)
       PROVE  \/ UNCHANGED <<fpc, fpos, slots>>
              \/ UNCHANGED <<fpc, fpos>> /\ \E n \in Nat : ReleaseSlots(n)
  <2>1. CASE Decode(w) \/ DecodeFails(w)
    <3>1. wunit[w] \in 1 .. Units
      BY <2>1 DEF Decode, DecodeFails, Types, WorkerTypes, Busy
    <3>2. \A F \in SUBSET Present(wunit[w]) : Cardinality(F) \in Nat
      BY <1>9, <3>1 DEF Present
    <3> QED BY <2>1, <3>2 DEF Decode, DecodeFails, FreeBodies, fetchVars
  <2>2. CASE ReserveCancelled(w)
    BY <2>2 DEF ReserveCancelled, fetchVars
  <2>3. CASE ~ (Decode(w) \/ DecodeFails(w) \/ ReserveCancelled(w))
    BY <1>11, <2>3 DEF WorkerStep, TakeUnit, WorkerFinishes, WaitForBodies, ReserveBytes,
      SendBatch, fetchVars
  <2> QED BY <2>1, <2>2, <2>3
<1>12. CASE EmitStep \/ CallerCancels \/ UNCHANGED vars
  BY <1>3, <1>12 DEF EmitStep, Receive, EmitOne, EmitEnds, EmitAborts, Return, CallerCancels,
    fetchVars, vars
<1> QED
  BY <1>4, <1>5, <1>6, <1>7, <1>8, <1>10, <1>11, <1>12 DEF Next, FetcherStep

\* Tasks and bodies keep their types.
LEMMA TaskType ==
  ASSUME Types, [Next]_vars
  PROVE  TaskTypes'
<1>1. CASE UNCHANGED <<task, body>>
  BY <1>1 DEF Types, TaskTypes
<1>2. ASSUME NEW f \in Files, TaskStep(f) PROVE TaskTypes'
  BY <1>2 DEF Types, TaskTypes, TaskStep, GetSucceeds, GetFails, MarkFailed, TaskEnds
<1>3. CASE SubmitTask
  <2>1. task' = task \/ task' = [task EXCEPT ![fpos] = "get"]
    BY <1>3 DEF SubmitTask
  <2>2. body' = body
    BY <1>3 DEF SubmitTask
  <2> QED BY <2>1, <2>2 DEF Types, TaskTypes
<1>4. ASSUME NEW w \in Workers, WorkerStep(w) PROVE TaskTypes'
  <2>1. task' = task
    BY <1>4 DEF WorkerStep, TakeUnit, WorkerFinishes, WaitForBodies, ReserveBytes,
      ReserveCancelled, Decode, DecodeFails, SendBatch, taskVars
  <2>2. body' = body \/ \E F : body' = [f \in Files |-> IF f \in F THEN "freed" ELSE body[f]]
    BY <1>4 DEF WorkerStep, TakeUnit, WorkerFinishes, WaitForBodies, ReserveBytes,
      ReserveCancelled, Decode, DecodeFails, SendBatch, FreeBodies
  <2> QED BY <2>1, <2>2 DEF Types, TaskTypes
<1>5. CASE \/ AcquireSlot \/ HandOver \/ FetcherStops \/ FetcherCloses \/ SourceStops
           \/ EmitStep \/ CallerCancels \/ UNCHANGED vars
  BY <1>1, <1>5 DEF AcquireSlot, HandOver, FetcherStops, FetcherCloses, SourceStops, EmitStep,
    Receive, EmitOne, EmitEnds, EmitAborts, Return, CallerCancels, taskVars, vars
<1> QED BY <1>2, <1>3, <1>4, <1>5 DEF Next, FetcherStep

\* So do inputs and workers.
LEMMA WorkerType ==
  ASSUME Types, [Next]_vars
  PROVE  WorkerTypes'
<1> USE PipelineAssumption
<1>1. Workers' = Workers
  BY Fixed
<1>2. CASE UNCHANGED <<input, wpc, wunit>>
  BY <1>1, <1>2 DEF Types, WorkerTypes
<1>3. CASE FetcherStep \/ SourceStops
  <2>1. UNCHANGED <<wpc, wunit>>
    BY <1>3 DEF FetcherStep, AcquireSlot, SubmitTask, HandOver, FetcherStops, FetcherCloses,
      SourceStops, workVars
  <2>2. input' \in [Workers -> Seq(1 .. Units)]
    <3>1. CASE HandOver
      <4>1. fpos[1] \in 1 .. Units
        BY <3>1 DEF HandOver, Types, FetcherTypes, Exhausted, Files
      <4>2. \A w \in Workers : Append(input[w], fpos[1]) \in Seq(1 .. Units)
        BY <4>1 DEF Types, WorkerTypes
      <4> QED BY <3>1, <4>2 DEF HandOver, Types, WorkerTypes
    <3>2. CASE ~ HandOver
      BY <1>3, <3>2 DEF FetcherStep, AcquireSlot, SubmitTask, FetcherStops, FetcherCloses,
        SourceStops, Types, WorkerTypes
    <3> QED BY <3>1, <3>2
  <2> QED BY <1>1, <2>1, <2>2 DEF Types, WorkerTypes
<1>4. ASSUME NEW w \in Workers, TakeUnit(w) PROVE WorkerTypes'
  <2>1. NextOwn(w) \in Nat \ {0}
    <3>1. W \in Nat \ {0}
      BY OwnUnits
    <3>2. w \in Nat \ {0}
      BY <3>1 DEF Workers
    <3>3. wunit[w] \in Nat
      BY DEF Types, WorkerTypes
    <3> QED BY <3>1, <3>2, <3>3 DEF NextOwn
  <2>2. \E u \in 1 .. Units : wunit' = [wunit EXCEPT ![w] = u]
    <3>1. CASE wunit' = [wunit EXCEPT ![w] = NextOwn(w)] /\ NextOwn(w) <= Units
      <4>1. NextOwn(w) \in 1 .. Units
        BY <2>1, <3>1
      <4> QED BY <3>1, <4>1
    <3>2. CASE input[w] # << >> /\ wunit' = [wunit EXCEPT ![w] = Head(input[w])]
      <4>1. Head(input[w]) \in 1 .. Units
        BY <3>2 DEF Types, WorkerTypes
      <4> QED BY <3>2, <4>1
    <3> QED BY <1>4, <3>1, <3>2 DEF TakeUnit
  <2>3. input' \in [Workers -> Seq(1 .. Units)]
    <3>1. input[w] # << >> => Tail(input[w]) \in Seq(1 .. Units)
      BY DEF Types, WorkerTypes
    <3> QED BY <1>4, <3>1 DEF TakeUnit, Types, WorkerTypes
  <2>4. wpc' = [wpc EXCEPT ![w] = "wait"]
    BY <1>4 DEF TakeUnit, Step
  <2> QED BY <1>1, <2>2, <2>3, <2>4 DEF Types, WorkerTypes, Busy
<1>5. ASSUME NEW w \in Workers, WorkerStep(w), ~ TakeUnit(w) PROVE WorkerTypes'
  <2>1. UNCHANGED <<input, wunit>>
    BY <1>5 DEF WorkerStep, WorkerFinishes, WaitForBodies, ReserveBytes, ReserveCancelled, Decode,
      DecodeFails, SendBatch
  <2>2. \E to \in {"take", "exited"} \cup Busy :
           wpc' = [wpc EXCEPT ![w] = to] /\ (to \in Busy => wpc[w] \in Busy)
    <3>1. CASE WorkerFinishes(w) \/ ReserveCancelled(w) \/ DecodeFails(w)
      BY <3>1 DEF WorkerFinishes, ReserveCancelled, DecodeFails, Step, Busy
    <3>2. CASE WaitForBodies(w) \/ ReserveBytes(w) \/ Decode(w) \/ SendBatch(w)
      BY <3>2 DEF WaitForBodies, ReserveBytes, Decode, SendBatch, Step, Busy
    <3> QED BY <1>5, <3>1, <3>2 DEF WorkerStep
  <2> QED BY <1>1, <2>1, <2>2 DEF Types, WorkerTypes
<1>6. CASE EmitStep \/ CallerCancels \/ UNCHANGED vars
  BY <1>2, <1>6 DEF EmitStep, Receive, EmitOne, EmitEnds, EmitAborts, Return, CallerCancels,
    workVars, vars
<1>7. ASSUME NEW f \in Files, TaskStep(f) PROVE WorkerTypes'
  BY <1>2, <1>7 DEF TaskStep, GetSucceeds, GetFails, MarkFailed, TaskEnds, workVars
<1> QED BY <1>3, <1>4, <1>5, <1>6, <1>7 DEF Next

\* So do queues, within their capacity, and the emit loop.
LEMMA EmitType ==
  ASSUME Types, [Next]_vars
  PROVE  EmitTypes'
<1> USE PipelineAssumption
<1>1. Workers' = Workers
  BY Fixed
<1>2. CASE UNCHANGED <<queue, emitVars>>
  BY <1>1, <1>2 DEF Types, EmitTypes, emitVars
<1>3. CASE FetcherStep \/ SourceStops \/ CallerCancels \/ UNCHANGED vars
  BY <1>2, <1>3 DEF FetcherStep, AcquireSlot, SubmitTask, HandOver, FetcherStops, FetcherCloses,
    SourceStops, CallerCancels, vars
<1>4. ASSUME NEW f \in Files, TaskStep(f) PROVE EmitTypes'
  BY <1>2, <1>4 DEF TaskStep, GetSucceeds, GetFails, MarkFailed, TaskEnds
<1>5. ASSUME NEW w \in Workers, WorkerStep(w) PROVE EmitTypes'
  <2>1. CASE SendBatch(w) /\ Len(queue[w]) < QueueCap
    <3>1. queue[w] \in Seq(SUBSET Files) /\ Decoded(wunit[w]) \in SUBSET Files
      BY DEF Types, EmitTypes, Decoded, FilesOf
    <3>2. /\ queue' = [queue EXCEPT ![w] = Append(queue[w], Decoded(wunit[w]))]
          /\ UNCHANGED emitVars
      BY <2>1 DEF SendBatch
    <3>3. /\ Append(queue[w], Decoded(wunit[w])) \in Seq(SUBSET Files)
          /\ Len(Append(queue[w], Decoded(wunit[w]))) <= QueueCap
      BY <2>1, <3>1
    <3> QED BY <1>1, <3>2, <3>3 DEF Types, EmitTypes, emitVars
  <2>2. CASE SendBatch(w) /\ ~ (Len(queue[w]) < QueueCap)
    BY <1>2, <2>2 DEF SendBatch
  <2>3. CASE ~ SendBatch(w)
    BY <1>2, <1>5, <2>3 DEF WorkerStep, TakeUnit, WorkerFinishes, WaitForBodies, ReserveBytes,
      ReserveCancelled, Decode, DecodeFails
  <2> QED BY <2>1, <2>2, <2>3
<1>6. CASE Receive
  <2> DEFINE w == WorkerOf(epos)
  <2>1. queue[w] # << >> /\ item' = Head(queue[w]) /\ queue' = [queue EXCEPT ![w] = Tail(@)]
        /\ epc' = "emit" /\ UNCHANGED <<epos, delivered, result>>
    BY <1>6 DEF Receive
  <2>2. w \in Workers
    BY OwnUnits DEF Types, EmitTypes
  <2> HIDE DEF w
  <2>3. /\ Head(queue[w]) \in SUBSET Files /\ Tail(queue[w]) \in Seq(SUBSET Files)
        /\ Len(Tail(queue[w])) <= Len(queue[w]) /\ Len(Tail(queue[w])) \in Nat
        /\ Len(queue[w]) <= QueueCap /\ Len(queue[w]) \in Nat
    BY <2>1, <2>2 DEF Types, EmitTypes
  <2> QED BY <1>1, <2>1, <2>2, <2>3 DEF Types, EmitTypes
<1>7. CASE EmitOne
  <2>1. delivered' = Append(delivered, item) /\ item' = {} /\ queue' = queue
        /\ epc' \in {"receive", "closing"} /\ result' \in {result, "broke"}
        /\ epos' \in {epos, epos + 1}
    BY <1>7 DEF EmitOne, CloseWith, Yield
  <2> QED BY <1>1, <2>1 DEF Types, EmitTypes
<1>8. CASE EmitEnds \/ EmitAborts \/ Return
  <2>1. UNCHANGED <<queue, epos, item, delivered>> /\ epc' \in {"closing", "returned"}
    BY <1>8 DEF EmitEnds, EmitAborts, Return, CloseWith
  <2>2. result' \in {result, "end"} \cup (IF Alive THEN {} ELSE {cause})
    BY <1>8 DEF EmitEnds, EmitAborts, Return, CloseWith
  <2>3. ~Alive => cause \in Causes
    BY DEF Alive, Types, CallTypes
  <2> QED BY <1>1, <2>1, <2>2, <2>3 DEF Types, EmitTypes
<1> QED BY <1>3, <1>4, <1>5, <1>6, <1>7, <1>8 DEF Next, EmitStep

\* Every step keeps the types.
LEMMA TypesStep ==
  ASSUME Types, [Next]_vars
  PROVE  Types'
BY CallType, FetcherType, TaskType, WorkerType, EmitType DEF Types

-----------------------------------------------------------------------------
(* Causes, inputs and bodies.                                              *)

\* A context that is done before a fetcher or a task sees it has a cause: true
\* when no GET fails with a context error of its own.
LEMMA CauseFirstStep ==
  ASSUME CtxLikeErrors = FALSE, Types, CauseFirst, [Next]_vars
  PROVE  CauseFirst'
<1>1. Alive' => Alive
  BY Fixed
<1>2. GctxDone => ~Alive
  BY DEF CauseFirst, GctxDone
<1> USE DEF CauseFirst, Marked
<1>3. CASE UNCHANGED <<gctxDone, task, body>>
  BY <1>1, <1>3
<1>4. CASE FetcherStep \/ SourceStops
  <2>1. UNCHANGED <<gctxDone, body>>
    BY <1>4 DEF FetcherStep, AcquireSlot, SubmitTask, HandOver, FetcherStops, FetcherCloses,
      SourceStops, taskVars
  <2>2. task' = task \/ task' = [task EXCEPT ![fpos] = "get"]
    BY <1>4 DEF FetcherStep, AcquireSlot, SubmitTask, HandOver, FetcherStops, FetcherCloses,
      SourceStops, taskVars
  <2> QED BY <1>1, <2>1, <2>2 DEF Types, TaskTypes
<1>5. ASSUME NEW f \in Files, GetSucceeds(f) PROVE CauseFirst'
  BY <1>1, <1>5 DEF GetSucceeds, Types, TaskTypes
<1>6. ASSUME NEW f \in Files, GetFails(f) PROVE CauseFirst'
  <2>1. ~Alive'
    BY <1>1, <1>2, <1>6 DEF GetFails, RecordHardErr, Alive
  <2> QED BY <2>1
<1>7. ASSUME NEW f \in Files, MarkFailed(f) PROVE CauseFirst'
  BY <1>1, <1>7 DEF MarkFailed, Types, TaskTypes
<1>8. ASSUME NEW f \in Files, TaskEnds(f) PROVE CauseFirst'
  BY <1>1, <1>8 DEF TaskEnds, Types, TaskTypes
<1>9. ASSUME NEW w \in Workers, WorkerStep(w) PROVE CauseFirst'
  <2>1. UNCHANGED <<gctxDone, task>>
    BY <1>9 DEF WorkerStep, TakeUnit, WorkerFinishes, WaitForBodies, ReserveBytes,
      ReserveCancelled, Decode, DecodeFails, SendBatch, taskVars
  <2>2. body' = body \/ \E F : body' = [f \in Files |-> IF f \in F THEN "freed" ELSE body[f]]
    BY <1>9 DEF WorkerStep, TakeUnit, WorkerFinishes, WaitForBodies, ReserveBytes,
      ReserveCancelled, Decode, DecodeFails, SendBatch, FreeBodies
  <2> QED BY <1>1, <2>1, <2>2
<1>10. CASE EmitStep \/ CallerCancels \/ UNCHANGED vars
  BY <1>3, <1>10 DEF EmitStep, Receive, EmitOne, EmitEnds, EmitAborts, Return, CallerCancels,
    taskVars, vars
<1> QED BY <1>4, <1>5, <1>6, <1>7, <1>8, <1>9, <1>10 DEF Next, TaskStep

\* What a worker of read counts to is its next unit.
LEMMA NextOwnIsNext ==
  ASSUME Types, NEW w \in Workers, TakesInOrder(w)
  PROVE  /\ NextOwn(w) \in Nat \ {0} /\ wunit[w] < NextOwn(w)
         /\ NextOwn(w) <= Units => Own(w, NextOwn(w))
         /\ \A u \in 1 .. Units : Own(w, u) /\ wunit[w] < u => NextOwn(w) <= u
<1> USE PipelineAssumption
<1>1. W \in Nat \ {0} /\ w \in 1 .. W /\ WorkerOf(w) = w
  BY OwnUnits DEF Workers
<1>2. wunit[w] \in 0 .. Units
  BY DEF Types, WorkerTypes
<1>3. CASE wunit[w] = 0
  <2>1. NextOwn(w) = w
    BY <1>3 DEF NextOwn
  <2>2. ASSUME NEW u \in 1 .. Units, Own(w, u), u < w PROVE FALSE
    <3>1. u \in Workers
      BY <1>1, <2>2 DEF Workers
    <3>2. WorkerOf(u) = u
      BY <3>1, OwnUnits
    <3> QED BY <1>1, <2>2, <3>2 DEF Own
  <2> QED BY <1>1, <1>3, <2>1, <2>2 DEF Own
<1>4. CASE wunit[w] # 0
  <2>1. NextOwn(w) = wunit[w] + W /\ Own(w, wunit[w])
    BY <1>4 DEF NextOwn, TakesInOrder
  <2>2. WorkerOf(NextOwn(w)) = w
    BY <1>1, <1>2, <1>4, <2>1, OwnUnits DEF Own
  <2>3. ASSUME NEW u \in 1 .. Units, Own(w, u), wunit[w] < u PROVE NextOwn(w) <= u
    BY <1>2, <1>4, <2>1, <2>3, OwnUnits DEF Own
  <2> QED BY <1>1, <1>2, <2>1, <2>2, <2>3 DEF Own
<1> QED BY <1>3, <1>4

\* A worker that takes a unit takes the next of its own.
LEMMA TakeUnitIsNext ==
  ASSUME Types, NEW w \in Workers, TakesInOrder(w), TakeUnit(w)
  PROVE  /\ Own(w, wunit'[w]) /\ wunit[w] < wunit'[w]
         /\ \A u \in 1 .. Units : Own(w, u) /\ wunit[w] < u => wunit'[w] <= u
         /\ wunit' = [wunit EXCEPT ![w] = wunit'[w]]
         /\ ~Read => input[w] # << >> /\ wunit'[w] = Head(input[w])
                     /\ input' = [input EXCEPT ![w] = Tail(input[w])]
         /\ Read => input' = input
<1> USE PipelineAssumption
<1>1. wunit \in [Workers -> 0 .. Units] /\ input[w] \in Seq(1 .. Units)
  BY DEF Types, WorkerTypes
<1>2. CASE Read
  <2>1. input[w] = << >>
    BY <1>2 DEF TakesInOrder
  <2>2. NextOwn(w) <= Units /\ wunit' = [wunit EXCEPT ![w] = NextOwn(w)] /\ input' = input
    BY <1>2, <2>1 DEF TakeUnit
  <2>3. wunit'[w] = NextOwn(w)
    BY <1>1, <2>2
  <2> QED BY <1>2, <2>2, <2>3, NextOwnIsNext
<1>3. CASE ~Read
  <2>1. /\ input[w] # << >> /\ wunit' = [wunit EXCEPT ![w] = Head(input[w])]
        /\ input' = [input EXCEPT ![w] = Tail(input[w])]
    BY <1>3 DEF TakeUnit
  <2>2. wunit'[w] = Head(input[w]) /\ Head(input[w]) = input[w][1] /\ 1 \in 1 .. Len(input[w])
        /\ input[w][1] \in 1 .. Units
    BY <1>1, <2>1
  <2>3. HasInput(w, input[w][1])
    BY <2>2 DEF HasInput
  <2>4. Own(w, input[w][1]) /\ wunit[w] < input[w][1] /\ input[w][1] < NextUnit
    BY <1>3, <2>2, <2>3 DEF TakesInOrder
  <2>5. ASSUME NEW u \in 1 .. Units, Own(w, u), wunit[w] < u PROVE input[w][1] <= u
    <3>1. CASE u < NextUnit
      <4>1. PICK i \in 1 .. Len(input[w]) : input[w][i] = u
        BY <1>3, <2>5, <3>1 DEF TakesInOrder, HasInput
      <4>2. CASE i = 1
        BY <4>1, <4>2
      <4>3. CASE 1 < i
        BY <1>3, <2>2, <4>1, <4>3 DEF TakesInOrder
      <4> QED BY <1>1, <4>2, <4>3
    <3>2. CASE ~ (u < NextUnit)
      <4>1. NextUnit \in Nat
        BY DEF NextUnit, Types, FetcherTypes, Exhausted, Files
      <4> QED BY <2>2, <2>4, <3>2, <4>1
    <3> QED BY <3>1, <3>2
  <2> QED BY <1>3, <2>1, <2>2, <2>4, <2>5
<1> QED BY <1>2, <1>3

\* A step that takes no unit and hands none over keeps the order of a worker's
\* units, if a worker that leaves while the call goes on has no unit left.
LEMMA TakesInOrderKept ==
  ASSUME Types, [Next]_vars, NEW w \in Workers, TakesInOrder(w),
         input'[w] = input[w], wunit'[w] = wunit[w], ~Read => NextUnit' = NextUnit,
         wpc'[w] = "exited" /\ Alive' =>
           wpc[w] = "exited" \/ \A u \in 1 .. Units : Own(w, u) => u <= wunit[w]
  PROVE  TakesInOrder(w)'
<1>1. Read' = Read /\ (Alive' => Alive) /\ \A u : Own(w, u)' = Own(w, u)
  BY Fixed
<1>2. \A u : HasInput(w, u)' <=> HasInput(w, u)
  BY DEF HasInput
<1>3. Own(w, wunit[w])' = Own(w, wunit[w])
  BY <1>1 DEF Own
<1> QED BY <1>1, <1>2, <1>3 DEF TakesInOrder

\* What the fetcher of poll hands over is behind what it handed over before.
LEMMA HandOverInOrder ==
  ASSUME Types, InputsInOrder, HandOver
  PROVE  \A w \in Workers : TakesInOrder(w)'
<1> USE PipelineAssumption
<1> DEFINE F == fpos[1]
           v == WorkerOf(F)
<1>1. /\ ~Read /\ fpos \in Files /\ F \in 1 .. Units /\ NextUnit = F
      /\ UNCHANGED <<wpc, wunit, cause, kind, shape>>
  BY DEF HandOver, Types, FetcherTypes, Exhausted, NextUnit, Files, workVars, fixed
<1>2. v \in Workers /\ Own(v, F) /\ Workers' = Workers /\ Read' = Read
      /\ \A w, u : Own(w, u)' = Own(w, u)
  BY <1>1, OwnUnits, Fixed DEF Own, Next, FetcherStep
<1>3. NextUnit' = F + 1
  <2>1. fpos[2] = 1 /\ shape[F] = 1
    BY <1>1 DEF Types, CallTypes, FetcherTypes, Exhausted, FilesOf, Files
  <2>2. fpos' = IF F < Units THEN <<F + 1, 1>> ELSE <<0, 0>>
    BY <2>1 DEF HandOver, After
  <2> QED BY <1>1, <2>2 DEF NextUnit, Exhausted
<1>4. /\ input \in [Workers -> Seq(1 .. Units)]
      /\ input' = [input EXCEPT ![v] = Append(input[v], F)]
  BY DEF HandOver, Types, WorkerTypes
<1>5. wunit \in [Workers -> 0 .. Units]
  BY DEF Types, WorkerTypes
<1> HIDE DEF F, v
<1>6. ASSUME NEW w \in Workers
      PROVE  /\ \A u \in 1 .. Units :
                  HasInput(w, u)' <=> Own(w, u) /\ wunit[w] < u /\ u < NextUnit'
             /\ \A i, j \in 1 .. Len(input'[w]) : i < j => input'[w][i] < input'[w][j]
  <2>1. TakesInOrder(w)
    BY DEF InputsInOrder
  <2>2. CASE w = v
    <3>1. input'[w] = Append(input[w], F) /\ input[w] \in Seq(1 .. Units)
      BY <1>2, <1>4, <2>2
    <3>2. \A u : HasInput(w, u)' <=> HasInput(w, u) \/ u = F
      BY <3>1 DEF HasInput
    <3>3. wunit[w] < F
      BY <1>1, <2>1 DEF TakesInOrder
    <3>4. ASSUME NEW u \in 1 .. Units
          PROVE  HasInput(w, u)' <=> Own(w, u) /\ wunit[w] < u /\ u < NextUnit'
      BY <1>1, <1>2, <1>3, <2>1, <2>2, <3>2, <3>3 DEF TakesInOrder
    <3>5. \A i \in 1 .. Len(input[w]) : input[w][i] \in 1 .. Units /\ input[w][i] < F
      BY <1>1, <2>1, <3>1 DEF TakesInOrder, HasInput
    <3>6. \A i, j \in 1 .. Len(input[w]) : i < j => input[w][i] < input[w][j]
      BY <1>1, <2>1 DEF TakesInOrder
    <3>7. ASSUME NEW i \in 1 .. Len(input'[w]), NEW j \in 1 .. Len(input'[w]), i < j
          PROVE  input'[w][i] < input'[w][j]
      BY <3>1, <3>5, <3>6, <3>7
    <3> QED BY <3>4, <3>7
  <2>3. CASE w # v
    <3>1. input'[w] = input[w]
      BY <1>4, <2>3
    <3>2. \A u : HasInput(w, u)' <=> HasInput(w, u)
      BY <3>1 DEF HasInput
    <3>3. ~ Own(w, F)
      BY <1>2, <2>3 DEF Own
    <3>4. ASSUME NEW u \in 1 .. Units
          PROVE  HasInput(w, u)' <=> Own(w, u) /\ wunit[w] < u /\ u < NextUnit'
      <4>1. HasInput(w, u)' <=> Own(w, u) /\ wunit[w] < u /\ u < F
        BY <1>1, <2>1, <3>2 DEF TakesInOrder
      <4>2. Own(w, u) => u # F
        BY <3>3
      <4> QED BY <1>1, <1>3, <4>1, <4>2
    <3> QED BY <1>1, <2>1, <3>1, <3>4 DEF TakesInOrder
  <2> QED BY <2>2, <2>3
<1>7. ASSUME NEW w \in Workers PROVE TakesInOrder(w)'
  <2>1. TakesInOrder(w)
    BY DEF InputsInOrder
  <2>2. wunit'[w] = wunit[w] /\ wpc'[w] = wpc[w] /\ Alive' = Alive
    BY <1>1 DEF Alive
  <2>3. wunit[w] < NextUnit'
    BY <1>1, <1>3, <1>5, <2>1 DEF TakesInOrder
  <2>4. Own(w, wunit[w])' = Own(w, wunit[w])
    BY <1>2, <2>2 DEF Own
  <2> QED BY <1>1, <1>2, <1>6, <2>1, <2>2, <2>3, <2>4 DEF TakesInOrder
<1> QED BY <1>7

\* The elements of a tail are those behind the first.
LEMMA TailAt ==
  ASSUME NEW S, NEW q \in Seq(S), q # << >>
  PROVE  /\ Len(q) \in Nat \ {0} /\ Len(Tail(q)) = Len(q) - 1
         /\ \A i \in 1 .. Len(Tail(q)) : i + 1 \in 1 .. Len(q) /\ Tail(q)[i] = q[i + 1]
<1>1. Len(q) \in Nat \ {0} /\ Len(Tail(q)) = Len(q) - 1
  OBVIOUS
<1>2. ASSUME NEW i \in 1 .. Len(Tail(q)) PROVE i + 1 \in 1 .. Len(q) /\ Tail(q)[i] = q[i + 1]
  BY <1>1
<1> QED BY <1>1, <1>2

\* What is left in an input is behind what was taken from it.
LEMMA TakeUnitInOrder ==
  ASSUME Types, NEW w \in Workers, TakesInOrder(w), TakeUnit(w)
  PROVE  TakesInOrder(w)'
<1> USE PipelineAssumption
<1> DEFINE v == wunit'[w]
<1>1. TakesInOrder(w) /\ input[w] \in Seq(1 .. Units)
  BY DEF Types, WorkerTypes
<1>2. /\ Own(w, v) /\ wunit[w] < v
      /\ \A u \in 1 .. Units : Own(w, u) /\ wunit[w] < u => v <= u
      /\ ~Read => input[w] # << >> /\ v = Head(input[w])
                  /\ input' = [input EXCEPT ![w] = Tail(input[w])]
      /\ Read => input' = input
  BY <1>1, TakeUnitIsNext
<1>3. /\ Read' = Read /\ W' = W /\ wpc'[w] = "wait" /\ NextUnit' = NextUnit
      /\ \A u : Own(w, u)' = Own(w, u)
  <2>1. /\ UNCHANGED <<fpos>> /\ wpc' = [wpc EXCEPT ![w] = "wait"]
    BY DEF TakeUnit, Step, fetchVars
  <2>2. [Next]_vars
    BY DEF Next, WorkerStep
  <2> QED BY <2>1, <2>2, Fixed DEF NextUnit, Exhausted, Types, WorkerTypes
<1>4. wunit[w] \in 0 .. Units /\ v \in 1 .. Units
  BY <1>2 DEF Own, Types, WorkerTypes
<1>5. Own(w, wunit[w])'
  BY <1>2, <1>3 DEF Own, WorkerOf
<1> HIDE DEF v
<1>6. CASE Read
  BY <1>1, <1>2, <1>3, <1>5, <1>6 DEF TakesInOrder, v
<1>7. CASE ~Read
  <2>1. input'[w] = Tail(input[w]) /\ input[w] # << >> /\ v = input[w][1]
    BY <1>2, <1>7 DEF Types, WorkerTypes
  <2>2. \A i, j \in 1 .. Len(input[w]) : i < j => input[w][i] < input[w][j]
    BY <1>1, <1>7 DEF TakesInOrder
  <2>3. \A i \in 1 .. Len(input'[w]) :
           i + 1 \in 1 .. Len(input[w]) /\ input'[w][i] = input[w][i + 1]
    BY <1>1, <2>1, TailAt
  <2>4. Len(input'[w]) = Len(input[w]) - 1 /\ Len(input[w]) \in Nat \ {0}
    BY <1>1, <2>1, TailAt
  <2>5. ASSUME NEW u \in 1 .. Units
        PROVE  HasInput(w, u)' <=> HasInput(w, u) /\ v < u
    <3>1. ASSUME NEW i \in 1 .. Len(input'[w]), input'[w][i] = u
          PROVE  HasInput(w, u) /\ v < u
      BY <2>1, <2>2, <2>3, <2>4, <3>1 DEF HasInput
    <3>2. ASSUME NEW i \in 1 .. Len(input[w]), input[w][i] = u, v < u
          PROVE  HasInput(w, u)'
      <4>1. i # 1
        BY <1>4, <2>1, <3>2
      <4>2. i - 1 \in 1 .. Len(input'[w]) /\ input'[w][i - 1] = input[w][i]
        BY <2>3, <2>4, <4>1
      <4> QED BY <3>2, <4>2 DEF HasInput
    <3> QED BY <3>1, <3>2 DEF HasInput
  <2>6. ASSUME NEW u \in 1 .. Units
        PROVE  HasInput(w, u)' <=> Own(w, u) /\ v < u /\ u < NextUnit
    BY <1>1, <1>2, <1>4, <1>7, <2>5 DEF TakesInOrder
  <2>7. v < NextUnit
    <3>1. HasInput(w, v)
      BY <2>1, <2>4 DEF HasInput
    <3> QED BY <1>1, <1>4, <1>7, <3>1 DEF TakesInOrder
  <2>8. \A i, j \in 1 .. Len(input'[w]) : i < j => input'[w][i] < input'[w][j]
    BY <2>2, <2>3, <2>4
  <2> QED BY <1>1, <1>2, <1>3, <1>5, <1>7, <2>6, <2>7, <2>8 DEF TakesInOrder, v
<1> QED BY <1>6, <1>7

\* A worker that leaves while state.ctx is alive has nothing left to take.
LEMMA LeavesAtEnd ==
  ASSUME Types, [Next]_vars, NEW w \in Workers, WorkerStep(w), wpc'[w] = "exited", Alive'
  PROVE  WorkerFinishes(w)
<1>1. Alive
  BY Fixed
<1>2. CASE TakeUnit(w) \/ ReserveBytes(w) \/ Decode(w)
  BY <1>2 DEF TakeUnit, ReserveBytes, Decode, Step, Types, WorkerTypes
<1>3. CASE WaitForBodies(w) \/ ReserveCancelled(w) \/ DecodeFails(w)
  BY <1>1, <1>3 DEF WaitForBodies, ReserveCancelled, DecodeFails, Step, RecordHardErr, Alive,
    Types, WorkerTypes
<1>4. CASE SendBatch(w)
  BY <1>1, <1>4 DEF SendBatch, Step, Types, WorkerTypes
<1> QED BY <1>2, <1>3, <1>4 DEF WorkerStep

\* The workers of a read count their units, so they need none of the other
\* layers to take them in order.
LEMMA ReadTakesInOrder ==
  ASSUME Types, Read, \A w \in Workers : TakesInOrder(w), [Next]_vars
  PROVE  \A w \in Workers : TakesInOrder(w)'
<1>1. Workers' = Workers /\ Read' = Read /\ (Alive' => Alive)
  BY Fixed
<1>2. ASSUME UNCHANGED <<input, wpc, wunit>> PROVE \A w \in Workers : TakesInOrder(w)'
  BY <1>2, TakesInOrderKept
<1>3. ASSUME NEW w \in Workers, TakeUnit(w) PROVE \A v \in Workers : TakesInOrder(v)'
  <2>1. wpc' = [wpc EXCEPT ![w] = "wait"] /\ input' = input
    BY <1>3, TakeUnitIsNext DEF TakeUnit, Step
  <2>2. wunit' = [wunit EXCEPT ![w] = wunit'[w]]
    BY <1>3, TakeUnitIsNext
  <2>3. ASSUME NEW v \in Workers, v # w PROVE TakesInOrder(v)'
    <3>1. input'[v] = input[v] /\ wunit'[v] = wunit[v] /\ wpc'[v] = wpc[v]
      BY <2>1, <2>2, <2>3 DEF Types, WorkerTypes
    <3> QED BY <3>1, TakesInOrderKept
  <2> QED BY <1>3, <2>3, TakeUnitInOrder
<1>4. ASSUME NEW w \in Workers, WorkerStep(w), ~ TakeUnit(w)
      PROVE  \A v \in Workers : TakesInOrder(v)'
  <2>1. UNCHANGED <<input, wunit>>
    BY <1>4 DEF WorkerStep, WorkerFinishes, WaitForBodies, ReserveBytes, ReserveCancelled, Decode,
      DecodeFails, SendBatch
  <2>2. \A v \in Workers \ {w} : wpc'[v] = wpc[v]
    BY <1>4 DEF WorkerStep, WorkerFinishes, WaitForBodies, ReserveBytes, ReserveCancelled, Decode,
      DecodeFails, SendBatch, Step, Types, WorkerTypes
  <2>3. ASSUME wpc'[w] = "exited", Alive'
        PROVE  \A u \in 1 .. Units : Own(w, u) => u <= wunit[w]
    <3>1. WorkerFinishes(w)
      BY <1>1, <1>4, <2>3, LeavesAtEnd
    <3>2. NextOwn(w) > Units
      BY <3>1 DEF WorkerFinishes
    <3>3. NextOwn(w) \in Nat /\ \A u \in 1 .. Units : Own(w, u) /\ wunit[w] < u => NextOwn(w) <= u
      BY NextOwnIsNext
    <3> QED BY <3>2, <3>3, PipelineAssumption DEF Types, WorkerTypes
  <2>4. \A v \in Workers : TakesInOrder(v)'
    BY <2>1, <2>2, <2>3, TakesInOrderKept
  <2> QED BY <2>4
<1>5. CASE \/ AcquireSlot \/ SubmitTask \/ FetcherStops \/ FetcherCloses \/ EmitStep
           \/ CallerCancels \/ UNCHANGED vars \/ \E f \in Files : TaskStep(f)
  <2>1. UNCHANGED <<input, wpc, wunit>>
    BY <1>5 DEF AcquireSlot, SubmitTask, FetcherStops, FetcherCloses, EmitStep, Receive, EmitOne,
      EmitEnds, EmitAborts, Return, CallerCancels, TaskStep, GetSucceeds, GetFails, MarkFailed,
      TaskEnds, workVars, vars
  <2> QED BY <1>2, <2>1
<1>6. ~HandOver /\ ~SourceStops
  BY DEF HandOver, SourceStops, Types, FetcherTypes
<1> QED BY <1>3, <1>4, <1>5, <1>6 DEF Next, FetcherStep

\* Workers take their own units in order.
LEMMA InputsInOrderStep ==
  ASSUME CtxLikeErrors = FALSE, Types, CauseFirst, InputsInOrder, [Next]_vars
  PROVE  InputsInOrder'
<1>1. Workers' = Workers /\ Read' = Read /\ (Alive' => Alive)
  BY Fixed
<1>2. GctxDone => ~Alive
  BY DEF CauseFirst, GctxDone
<1>3. \A w \in Workers : TakesInOrder(w)
  BY DEF InputsInOrder
<1>4. Exhausted' <=> fpos' = <<0, 0>>
  BY DEF Exhausted
<1>5. ASSUME UNCHANGED <<fpos>> PROVE NextUnit' = NextUnit /\ Exhausted' = Exhausted
  BY <1>5 DEF NextUnit, Exhausted
<1>6. Alive /\ fpc \in Closed => Exhausted
  BY DEF InputsInOrder
<1>7. CASE AcquireSlot \/ SubmitTask \/ FetcherStops \/ FetcherCloses \/ SourceStops
  <2>1. /\ UNCHANGED <<input, wpc, wunit>> /\ (~Read => UNCHANGED <<fpos>>)
    BY <1>7 DEF AcquireSlot, SubmitTask, FetcherStops, FetcherCloses, SourceStops, workVars
  <2>2. \A w \in Workers : TakesInOrder(w)'
    BY <1>1, <1>3, <1>5, <2>1, TakesInOrderKept
  <2>3. CASE AcquireSlot \/ SubmitTask
    BY <1>1, <2>2, <2>3 DEF AcquireSlot, SubmitTask, Closed, InputsInOrder
  <2>4. CASE FetcherStops
    <3>1. Exhausted \/ ~Alive
      BY <1>2, <2>4 DEF FetcherStops
    <3> QED BY <1>1, <1>5, <2>2, <2>4, <3>1 DEF FetcherStops, InputsInOrder
  <2>5. CASE FetcherCloses
    BY <1>1, <1>5, <1>6, <2>2, <2>5 DEF FetcherCloses, Closed, InputsInOrder
  <2>6. CASE SourceStops
    <3>1. ~Alive'
      BY <1>1, <2>6 DEF SourceStops, RecordHardErr, Alive
    <3> QED BY <1>1, <2>2, <3>1 DEF InputsInOrder
  <2> QED BY <1>7, <2>3, <2>4, <2>5, <2>6
<1>8. CASE HandOver
  <2>1. fpc' = "next"
    BY <1>8 DEF HandOver
  <2> QED BY <1>1, <1>8, <2>1, HandOverInOrder DEF InputsInOrder, Closed
<1>9. ASSUME NEW w \in Workers, TakeUnit(w) PROVE InputsInOrder'
  <2>1. UNCHANGED <<cause, fpc, fpos>>
    BY <1>9 DEF TakeUnit, fetchVars
  <2>2. wpc' = [wpc EXCEPT ![w] = "wait"]
    BY <1>9 DEF TakeUnit, Step
  <2>3. wunit' = [wunit EXCEPT ![w] = wunit'[w]]
    BY <1>3, <1>9, TakeUnitIsNext
  <2>4. input' = input \/ input' = [input EXCEPT ![w] = Tail(input[w])]
    BY <1>9 DEF TakeUnit
  <2>5. ASSUME NEW v \in Workers, v # w PROVE TakesInOrder(v)'
    <3>1. input'[v] = input[v] /\ wunit'[v] = wunit[v] /\ wpc'[v] = wpc[v]
      BY <2>2, <2>3, <2>4, <2>5 DEF Types, WorkerTypes
    <3> QED BY <1>3, <1>5, <2>1, <3>1, TakesInOrderKept
  <2>6. TakesInOrder(w)'
    BY <1>3, <1>9, TakeUnitInOrder
  <2> QED BY <1>1, <1>5, <1>6, <2>1, <2>5, <2>6 DEF InputsInOrder
<1>10. ASSUME NEW w \in Workers, WorkerStep(w), ~ TakeUnit(w) PROVE InputsInOrder'
  <2>1. UNCHANGED <<fpc, fpos, input, wunit>>
    BY <1>10 DEF WorkerStep, WorkerFinishes, WaitForBodies, ReserveBytes, ReserveCancelled, Decode,
      DecodeFails, SendBatch, fetchVars
  <2>2. \A v \in Workers \ {w} : wpc'[v] = wpc[v]
    BY <1>10 DEF WorkerStep, WorkerFinishes, WaitForBodies, ReserveBytes, ReserveCancelled, Decode,
      DecodeFails, SendBatch, Step, Types, WorkerTypes
  <2>3. ASSUME wpc'[w] = "exited", Alive'
        PROVE  \A u \in 1 .. Units : Own(w, u) => u <= wunit[w]
    <3>1. WorkerFinishes(w)
      BY <1>10, <2>3, LeavesAtEnd
    <3>2. wunit[w] \in 0 .. Units /\ Units \in Nat
      BY PipelineAssumption DEF Types, WorkerTypes
    <3>3. CASE Read
      <4>1. NextOwn(w) > Units
        BY <3>1, <3>3 DEF WorkerFinishes
      <4>2. NextOwn(w) \in Nat /\ \A u \in 1 .. Units : Own(w, u) /\ wunit[w] < u => NextOwn(w) <= u
        BY <1>3, NextOwnIsNext
      <4> QED BY <3>2, <4>1, <4>2
    <3>4. CASE ~Read
      <4>1. input[w] = << >> /\ fpc = "closed"
        BY <1>1, <2>3, <3>1, <3>4 DEF WorkerFinishes
      <4>2. NextUnit = Units + 1
        BY <1>1, <1>6, <2>3, <4>1 DEF NextUnit, Closed
      <4>3. \A u \in 1 .. Units : ~ HasInput(w, u)
        BY <4>1 DEF HasInput
      <4>4. \A u \in 1 .. Units : ~ (Own(w, u) /\ wunit[w] < u /\ u < NextUnit)
        BY <1>3, <3>4, <4>3 DEF TakesInOrder
      <4> QED BY <3>2, <4>2, <4>4
    <3> QED BY <3>3, <3>4
  <2>4. \A v \in Workers : TakesInOrder(v)'
    <3>1. ASSUME NEW v \in Workers, v # w PROVE TakesInOrder(v)'
      BY <1>3, <1>5, <2>1, <2>2, <3>1, TakesInOrderKept
    <3>2. TakesInOrder(w)'
      BY <1>3, <1>5, <2>1, <2>3, TakesInOrderKept
    <3> QED BY <3>1, <3>2
  <2> QED BY <1>1, <1>5, <1>6, <2>1, <2>4 DEF InputsInOrder
<1>11. ASSUME UNCHANGED <<fpc, fpos, input, wpc, wunit>> PROVE InputsInOrder'
  <2>1. \A w \in Workers : TakesInOrder(w)'
    BY <1>3, <1>5, <1>11, TakesInOrderKept
  <2> QED BY <1>1, <1>5, <1>6, <1>11, <2>1 DEF InputsInOrder
<1>12. CASE \/ EmitStep \/ CallerCancels \/ UNCHANGED vars
            \/ \E f \in Files : TaskStep(f)
  <2>1. UNCHANGED <<fpc, fpos, input, wpc, wunit>>
    BY <1>12 DEF EmitStep, Receive, EmitOne, EmitEnds, EmitAborts, Return, CallerCancels,
      TaskStep, GetSucceeds, GetFails, MarkFailed, TaskEnds, fetchVars, workVars, vars
  <2> QED BY <1>11, <2>1
<1> QED BY <1>7, <1>8, <1>9, <1>10, <1>12 DEF Next, FetcherStep

\* The fetcher goes through the files in order, so those at and behind it are new.
LEMMA FilesAheadStep ==
  ASSUME Types, FilesAhead, [Next]_vars
  PROVE  FilesAhead'
<1>1. CASE UNCHANGED <<fpc, fpos, task>>
  BY <1>1 DEF FilesAhead, NotFetched, Exhausted
<1>2. ASSUME NEW f \in Files, TaskStep(f) PROVE FilesAhead'
  <2>1. UNCHANGED <<fpc, fpos>> /\ task[f] # "new" /\ \A g \in Files \ {f} : task'[g] = task[g]
    BY <1>2 DEF TaskStep, GetSucceeds, GetFails, MarkFailed, TaskEnds, fetchVars, Types, TaskTypes
  <2> QED BY <2>1 DEF FilesAhead, NotFetched, Exhausted
<1>3. CASE SubmitTask \/ HandOver
  <2>1. /\ fpos \in Files /\ ~Exhausted /\ fpc \notin Closed
        /\ \A u \in 1 .. Units : shape[u] \in Nat \ {0}
    BY <1>3 DEF SubmitTask, HandOver, Types, FetcherTypes, Exhausted, Closed, CallTypes
  <2>2. /\ fpos[1] \in 1 .. Units /\ fpos[2] \in 1 .. MaxFiles
    BY <2>1 DEF Files
  <2>3. ASSUME NEW f \in Files, After(fpos) # <<0, 0>>,
               f[1] > After(fpos)[1] \/ (f[1] = After(fpos)[1] /\ f[2] >= After(fpos)[2])
        PROVE  f # fpos /\ (f[1] > fpos[1] \/ (f[1] = fpos[1] /\ f[2] >= fpos[2]))
    <3>1. f[1] \in Nat /\ f[2] \in Nat
      BY DEF Files
    <3>2. CASE After(fpos) = <<fpos[1], fpos[2] + 1>>
      BY <2>2, <2>3, <3>1, <3>2
    <3>3. CASE After(fpos) = <<fpos[1] + 1, 1>>
      BY <2>2, <2>3, <3>1, <3>3
    <3> QED BY <2>3, <3>2, <3>3 DEF After
  <2>4. ASSUME NEW f \in Files, NotFetched(f)'
        PROVE  /\ NotFetched(f) /\ (SubmitTask => f # fpos)
    <3>1. CASE SubmitTask /\ Read
      <4>1. fpc' = "next" /\ fpos' = After(fpos) /\ fpc = "submit"
        BY <3>1 DEF SubmitTask
      <4> QED BY <2>1, <2>3, <2>4, <4>1 DEF NotFetched, Exhausted
    <3>2. CASE SubmitTask /\ ~Read
      BY <2>1, <2>4, <3>2 DEF SubmitTask, NotFetched, Exhausted
    <3>3. CASE HandOver
      <4>1. fpc' = "next" /\ fpos' = After(fpos) /\ fpc = "hand" /\ ~ SubmitTask
        BY <3>3 DEF HandOver, SubmitTask
      <4> QED BY <2>1, <2>3, <2>4, <4>1 DEF NotFetched, Exhausted
    <3> QED BY <1>3, <3>1, <3>2, <3>3
  <2>5. \/ SubmitTask /\ task' = [task EXCEPT ![fpos] = "get"]
        \/ task' = task
    BY <1>3 DEF SubmitTask, HandOver, taskVars
  <2> QED BY <2>4, <2>5 DEF FilesAhead, Types, TaskTypes
<1>4. CASE AcquireSlot \/ FetcherStops \/ FetcherCloses \/ SourceStops
  BY <1>4 DEF AcquireSlot, FetcherStops, FetcherCloses, SourceStops, taskVars, FilesAhead,
    NotFetched, Exhausted, Closed
<1>5. CASE EmitStep \/ CallerCancels \/ UNCHANGED vars \/ \E w \in Workers : WorkerStep(w)
  BY <1>1, <1>5 DEF EmitStep, Receive, EmitOne, EmitEnds, EmitAborts, Return, CallerCancels,
    WorkerStep, TakeUnit, WorkerFinishes, WaitForBodies, ReserveBytes, ReserveCancelled, Decode,
    DecodeFails, SendBatch, fetchVars, taskVars, vars
<1> QED BY <1>2, <1>3, <1>4, <1>5 DEF Next, FetcherStep

\* A step of w frees the bodies F; one that goes on to send frees all there are.
Frees(w, F) ==
  /\ body' = [f \in Files |-> IF f \in F THEN "freed" ELSE body[f]]
  /\ F # {} => wpc'[w] \in {"send", "exited"} /\ wunit' = wunit
  /\ wpc'[w] = "send" => wpc[w] = "decode" /\ F = Present(wunit[w])

\* A read gives back the bodies it finds, and a poll counts on its only one.
HeldOrRead == Read \/ \A w \in Workers : UnitHeld(w)

\* A worker frees present bodies of its unit, all or some, and then leaves or
\* sends: no other step of it touches a body.
LEMMA WorkerFrees ==
  ASSUME Types, HeldOrRead, NEW w \in Workers, WorkerStep(w)
  PROVE  \E F \in SUBSET Present(wunit[w]) : Frees(w, F)
<1>1. wpc \in [Workers -> {"take", "exited"} \cup Busy] /\ body \in [Files -> {"nil", "present", "freed"}]
  BY DEF Types, WorkerTypes, TaskTypes
<1>2. wpc[w] = "reserve" /\ ~Read => Present(wunit[w]) = FilesOf(wunit[w])
  BY DEF HeldOrRead, UnitHeld, Present
<1>3. ASSUME body' = body, wpc'[w] # "send" PROVE \E F \in SUBSET Present(wunit[w]) : Frees(w, F)
  <2>1. body' = [f \in Files |-> IF f \in {} THEN "freed" ELSE body[f]]
    BY <1>1, <1>3
  <2>2. Frees(w, {})
    BY <1>3, <2>1 DEF Frees
  <2> QED BY <2>2
<1>4. CASE Decode(w)
  <2>1. /\ body' = [f \in Files |-> IF f \in Present(wunit[w]) THEN "freed" ELSE body[f]]
        /\ wunit' = wunit /\ wpc' = [wpc EXCEPT ![w] = "send"] /\ wpc[w] = "decode"
    BY <1>4 DEF Decode, FreeBodies, Step
  <2>2. Frees(w, Present(wunit[w]))
    BY <1>1, <1>2, <2>1 DEF Frees
  <2> QED BY <2>2
<1>5. CASE DecodeFails(w)
  <2>1. wunit' = wunit /\ wpc'[w] = "exited"
    BY <1>1, <1>5 DEF DecodeFails, Step
  <2>2. CASE body' = body
    BY <1>3, <2>1, <2>2
  <2>3. ASSUME NEW F \in SUBSET Present(wunit[w]), FreeBodies(F) PROVE Frees(w, F)
    BY <2>1, <2>3 DEF FreeBodies, Frees
  <2> QED BY <1>5, <2>2, <2>3 DEF DecodeFails
<1>6. CASE ReserveCancelled(w) /\ ~Read
  <2>1. /\ body' = [f \in Files |-> IF f \in FilesOf(wunit[w]) THEN "freed" ELSE body[f]]
        /\ wunit' = wunit /\ wpc' = [wpc EXCEPT ![w] = "exited"] /\ wpc[w] = "reserve"
    BY <1>6 DEF ReserveCancelled, Step
  <2>2. Frees(w, FilesOf(wunit[w]))
    BY <1>1, <2>1 DEF Frees
  <2>3. FilesOf(wunit[w]) \in SUBSET Present(wunit[w])
    BY <1>2, <1>6, <2>1
  <2> QED BY <2>2, <2>3
<1>7. CASE ReserveCancelled(w) /\ Read
  BY <1>1, <1>3, <1>7 DEF ReserveCancelled, Step
<1>8. CASE TakeUnit(w) \/ WorkerFinishes(w) \/ WaitForBodies(w)
  BY <1>1, <1>3, <1>8 DEF TakeUnit, WorkerFinishes, WaitForBodies, Step
<1>9. CASE ReserveBytes(w) \/ SendBatch(w)
  BY <1>1, <1>3, <1>9 DEF ReserveBytes, SendBatch, Step
<1> QED BY <1>4, <1>5, <1>6, <1>7, <1>8, <1>9 DEF WorkerStep

\* What a worker's step does to its place: it takes the next unit, or goes on
\* with the one it has.
LEMMA WorkerMoves ==
  ASSUME Types, NEW w \in Workers, TakesInOrder(w), WorkerStep(w)
  PROVE  /\ \A v \in Workers \ {w} : wpc'[v] = wpc[v] /\ wunit'[v] = wunit[v]
         /\ UNCHANGED taskVars
         /\ \/ wunit[w] < wunit'[w] /\ Own(w, wunit'[w]) /\ wpc[w] = "take" /\ wpc'[w] = "wait"
            \/ /\ wunit'[w] = wunit[w]
               /\ wpc[w] \in {"send", "take"} => wpc'[w] \in {"take", "exited"}
               /\ wpc[w] # "exited" /\ wpc'[w] # "wait"
               /\ wpc'[w] = "reserve" => wpc[w] = "wait" /\ AllMarked(wunit[w]) /\ Alive
               /\ wpc'[w] = "decode" => wpc[w] = "reserve"
               /\ wpc'[w] = "send" => wpc[w] = "decode"
               /\ wpc'[w] = "take" => wpc[w] = "send"
<1>1. wpc \in [Workers -> {"take", "exited"} \cup Busy]
  BY DEF Types, WorkerTypes
<1>2. CASE TakeUnit(w)
  <2>1. /\ wunit[w] < wunit'[w] /\ Own(w, wunit'[w])
        /\ wunit' = [wunit EXCEPT ![w] = wunit'[w]]
    BY <1>2, TakeUnitIsNext
  <2>2. wpc[w] = "take" /\ wpc' = [wpc EXCEPT ![w] = "wait"] /\ UNCHANGED taskVars
    BY <1>2 DEF TakeUnit, Step
  <2> QED BY <1>1, <2>1, <2>2 DEF Types, WorkerTypes
<1>3. CASE WorkerFinishes(w) \/ WaitForBodies(w)
  BY <1>1, <1>3 DEF WorkerFinishes, WaitForBodies, Step
<1>4. CASE ReserveBytes(w) \/ ReserveCancelled(w)
  BY <1>1, <1>4 DEF ReserveBytes, ReserveCancelled, Step
<1>5. CASE Decode(w) \/ DecodeFails(w) \/ SendBatch(w)
  BY <1>1, <1>5 DEF Decode, DecodeFails, SendBatch, Step
<1> QED BY <1>2, <1>3, <1>4, <1>5 DEF WorkerStep

\* Bodies follow their tasks and their workers, in a read whatever the others
\* of their unit do.
LEMMA BodyFollowsStep ==
  ASSUME Types, \A w \in Workers : TakesInOrder(w), FilesAhead,
         \A f \in Files : BodyFollows(f), HeldOrRead, [Next]_vars
  PROVE  \A f \in Files : BodyFollows(f)'
<1>1. /\ Workers' = Workers /\ \A u : FilesOf(u)' = FilesOf(u) /\ WorkerOf(u)' = WorkerOf(u)
  BY Fixed
<1>2. CASE UNCHANGED <<task, body, wpc, wunit>>
  BY <1>1, <1>2 DEF BodyFollows
<1>3. CASE SubmitTask
  <2>1. UNCHANGED <<body, wpc, wunit>> /\ (task' = task \/ task' = [task EXCEPT ![fpos] = "get"])
    BY <1>3 DEF SubmitTask, workVars
  <2>2. fpos \in Files /\ NotFetched(fpos)
    <3>1. fpc = "submit" /\ ~Exhausted /\ fpos \in Files
      BY <1>3 DEF SubmitTask, Types, FetcherTypes, Exhausted
    <3>2. fpos[2] \in Nat
      BY <3>1 DEF Files
    <3> QED BY <3>1, <3>2 DEF NotFetched, Closed
  <2>3. task[fpos] = "new"
    BY <2>2 DEF FilesAhead
  <2> QED BY <1>1, <2>1, <2>2, <2>3 DEF BodyFollows, Types, TaskTypes
<1>4. ASSUME NEW f \in Files, TaskStep(f) PROVE \A g \in Files : BodyFollows(g)'
  <2>1. UNCHANGED <<wpc, wunit>>
    BY <1>4 DEF TaskStep, GetSucceeds, GetFails, MarkFailed, TaskEnds, workVars
  <2>2. \/ /\ task[f] = "get" /\ task' = [task EXCEPT ![f] = "marked"]
           /\ body' = [body EXCEPT ![f] = "present"]
        \/ /\ task[f] = "get" /\ task' = [task EXCEPT ![f] = "recorded"] /\ body' = body
        \/ /\ \E to \in {"marked", "ended"} : task' = [task EXCEPT ![f] = to]
           /\ body' = body
    BY <1>4 DEF TaskStep, GetSucceeds, GetFails, MarkFailed, TaskEnds
  <2>3. task[f] = "get" => body[f] = "nil"
    BY DEF BodyFollows
  <2>4. ASSUME NEW g \in Files PROVE BodyFollows(g)'
    <3>1. CASE g = f
      BY <1>1, <2>1, <2>2, <2>3, <3>1 DEF BodyFollows, Types, TaskTypes
    <3>2. CASE g # f
      BY <1>1, <2>1, <2>2, <3>2 DEF BodyFollows, Types, TaskTypes
    <3> QED BY <3>1, <3>2
  <2> QED BY <2>4
<1>5. ASSUME NEW w \in Workers, WorkerStep(w) PROVE \A f \in Files : BodyFollows(f)'
  <2>1. PICK F \in SUBSET Present(wunit[w]) : Frees(w, F)
    BY <1>5, WorkerFrees
  <2>2. /\ task' = task /\ \A v \in Workers \ {w} : wpc'[v] = wpc[v] /\ wunit'[v] = wunit[v]
    BY <1>5, WorkerMoves DEF taskVars
  <2>3. \A f \in Files : body'[f] = IF f \in F THEN "freed" ELSE body[f]
    BY <2>1 DEF Frees
  <2>4. \A f \in F : f \in Files /\ f[1] = wunit[w] /\ WorkerOf(f[1]) = w /\ body[f] = "present"
    <3>1. \A f \in F : f \in Files /\ f[1] = wunit[w] /\ f[1] \in 1 .. Units /\ body[f] = "present"
      BY DEF Present, FilesOf, Files
    <3>2. F # {} => wunit[w] # 0
      BY <3>1
    <3> QED BY <3>1, <3>2 DEF TakesInOrder, Own
  <2>5. ASSUME NEW f \in Files PROVE BodyFollows(f)'
    <3> DEFINE v == WorkerOf(f[1])
    <3>1. v \in Workers /\ f[1] \in 1 .. Units
      BY OwnUnits DEF Files
    <3>2. v' = v
      BY <1>1
    <3> HIDE DEF v
    <3>3. CASE f \in F
      <4>1. v = w /\ f[1] = wunit'[w] /\ wpc'[w] \in {"send", "exited"} /\ body'[f] = "freed"
        BY <2>1, <2>3, <2>4, <3>3 DEF Frees, v
      <4>2. task[f] \notin {"new", "get", "recorded"}
        BY <2>4, <3>3 DEF BodyFollows
      <4> QED BY <2>2, <3>1, <3>2, <4>1, <4>2 DEF BodyFollows, v
    <3>4. CASE f \notin F /\ v # w
      <4>1. body'[f] = body[f] /\ wpc'[v] = wpc[v] /\ wunit'[v] = wunit[v]
        BY <2>2, <2>3, <3>1, <3>4
      <4> QED BY <2>2, <3>2, <4>1 DEF BodyFollows, v
    <3>5. CASE f \notin F /\ v = w
      <4>1. body'[f] = body[f]
        BY <2>3, <3>5
      <4>2. body[f] = "freed" =>
              f[1] <= wunit[w] /\ (f[1] = wunit[w] => wpc[w] \in {"send", "take", "exited"})
        BY <3>5 DEF BodyFollows, v
      <4>3. /\ wunit[w] \in Nat /\ wunit'[w] \in Nat
        BY <3>1, TypesStep, <1>1 DEF Types, WorkerTypes
      <4>4. \/ wunit[w] < wunit'[w]
            \/ /\ wunit'[w] = wunit[w]
               /\ wpc[w] \in {"send", "take"} => wpc'[w] \in {"take", "exited"}
               /\ wpc[w] # "exited"
        BY <1>5, WorkerMoves
      <4>5. body[f] = "freed" =>
              f[1] <= wunit'[w] /\ (f[1] = wunit'[w] => wpc'[w] \in {"send", "take", "exited"})
        BY <3>1, <4>2, <4>3, <4>4
      <4>6. task[f] \in {"new", "get", "recorded"} => body[f] = "nil"
        BY DEF BodyFollows
      <4> QED BY <2>2, <3>2, <3>5, <4>1, <4>5, <4>6 DEF BodyFollows, v
    <3> QED BY <3>3, <3>4, <3>5
  <2> QED BY <2>5
<1>6. CASE \/ AcquireSlot \/ HandOver \/ FetcherStops \/ FetcherCloses \/ SourceStops
           \/ EmitStep \/ CallerCancels \/ UNCHANGED vars
  BY <1>2, <1>6 DEF AcquireSlot, HandOver, FetcherStops, FetcherCloses, SourceStops, EmitStep,
    Receive, EmitOne, EmitEnds, EmitAborts, Return, CallerCancels, taskVars, workVars, vars
<1> QED BY <1>3, <1>4, <1>5, <1>6 DEF Next, FetcherStep

\* A worker that sees the ctx alive behind its downloads holds its whole unit.
LEMMA BodiesFollowStep ==
  ASSUME Types, CauseFirst, InputsInOrder, BodiesFollow, [Next]_vars
  PROVE  BodiesFollow'
<1>1. /\ Workers' = Workers /\ \A u : FilesOf(u)' = FilesOf(u) /\ WorkerOf(u)' = WorkerOf(u)
  BY Fixed
<1>2. /\ \A f \in Files : BodyFollows(f)
      /\ \A w \in Workers : UnitHeld(w) /\ TakesInOrder(w)
      /\ HeldOrRead /\ FilesAhead
  BY DEF BodiesFollow, InputsInOrder, HeldOrRead
<1>3. FilesAhead' /\ \A f \in Files : BodyFollows(f)'
  BY <1>2, FilesAheadStep, BodyFollowsStep
<1>4. CASE UNCHANGED <<task, body, wpc, wunit>>
  <2>2. \A w \in Workers : UnitHeld(w)'
    BY <1>1, <1>2, <1>4 DEF UnitHeld
  <2> QED BY <1>1, <1>3, <2>2 DEF BodiesFollow
<1>5. CASE SubmitTask
  <2>1. UNCHANGED <<body, wpc, wunit>>
    BY <1>5 DEF SubmitTask, workVars
  <2>5. \A w \in Workers : UnitHeld(w)'
    BY <1>1, <1>2, <2>1 DEF UnitHeld
  <2> QED BY <1>1, <1>3, <2>5 DEF BodiesFollow
<1>6. ASSUME NEW f \in Files, TaskStep(f) PROVE BodiesFollow'
  <2>1. UNCHANGED <<wpc, wunit>>
    BY <1>6 DEF TaskStep, GetSucceeds, GetFails, MarkFailed, TaskEnds, workVars
  <2>2. body' = body \/ (task[f] = "get" /\ body' = [body EXCEPT ![f] = "present"])
    BY <1>6 DEF TaskStep, GetSucceeds, GetFails, MarkFailed, TaskEnds
  <2>3. task[f] = "get" => body[f] = "nil"
    BY <1>2 DEF BodyFollows
  <2>5. ASSUME NEW w \in Workers PROVE UnitHeld(w)'
    <3>1. \A g \in Files : body[g] # "nil" => body'[g] = body[g]
      BY <2>2, <2>3 DEF Types, TaskTypes
    <3>2. \A g \in FilesOf(wunit[w]) : g \in Files
      BY DEF FilesOf
    <3> QED BY <1>1, <1>2, <2>1, <3>1, <3>2 DEF UnitHeld
  <2> QED BY <1>1, <1>3, <2>5 DEF BodiesFollow
<1>7. ASSUME NEW w \in Workers, WorkerStep(w) PROVE BodiesFollow'
  <2>1. PICK F \in SUBSET Present(wunit[w]) : Frees(w, F)
    BY <1>2, <1>7, WorkerFrees
  <2>2. /\ task' = task /\ \A v \in Workers \ {w} : wpc'[v] = wpc[v] /\ wunit'[v] = wunit[v]
    BY <1>2, <1>7, WorkerMoves DEF taskVars
  <2>3. \A f \in Files : body'[f] = IF f \in F THEN "freed" ELSE body[f]
    BY <2>1 DEF Frees
  <2>4. \A f \in F : f \in Files /\ f[1] = wunit[w] /\ WorkerOf(f[1]) = w /\ body[f] = "present"
    <3>1. \A f \in F : f \in Files /\ f[1] = wunit[w] /\ f[1] \in 1 .. Units /\ body[f] = "present"
      BY DEF Present, FilesOf, Files
    <3>2. F # {} => wunit[w] # 0
      BY <3>1
    <3> QED BY <1>2, <3>1, <3>2 DEF TakesInOrder, Own
  <2>6. ASSUME NEW v \in Workers, v # w PROVE UnitHeld(v)'
    <3>1. wpc'[v] = wpc[v] /\ wunit'[v] = wunit[v]
      BY <2>2, <2>6
    <3>2. wpc[v] \in Busy => \A f \in FilesOf(wunit[v]) : f \in Files /\ WorkerOf(f[1]) = v
      BY <1>2 DEF TakesInOrder, Own, Types, WorkerTypes, FilesOf
    <3>3. wpc[v] \in Busy => \A f \in FilesOf(wunit[v]) : body'[f] = body[f]
      BY <2>3, <2>4, <2>6, <3>2
    <3> QED BY <1>1, <1>2, <3>1, <3>3 DEF UnitHeld, Busy
  <2>7. UnitHeld(w)'
    <3>1. \A f \in FilesOf(wunit[w]) : f \in Files /\ f[1] = wunit[w] /\ f[1] \in 1 .. Units
      BY DEF FilesOf, Files
    <3>2. CASE wpc'[w] = "reserve"
      <4>1. wunit'[w] = wunit[w] /\ wpc[w] = "wait" /\ AllMarked(wunit[w]) /\ Alive
        BY <1>2, <1>7, <3>2, WorkerMoves
      <4>2. F = {}
        BY <2>1, <3>2 DEF Frees
      <4>3. ASSUME NEW f \in FilesOf(wunit[w]) PROVE body[f] = "present"
        <5>1. body[f] # "nil"
          BY <3>1, <4>1 DEF AllMarked, CauseFirst
        <5>2. WorkerOf(f[1]) = w
          BY <1>2, <3>1 DEF TakesInOrder, Own
        <5>3. body[f] # "freed"
          BY <1>2, <3>1, <4>1, <5>2 DEF BodyFollows
        <5> QED BY <3>1, <5>1, <5>3 DEF Types, TaskTypes
      <4> QED BY <1>1, <2>3, <3>1, <3>2, <4>1, <4>2, <4>3 DEF UnitHeld
    <3>3. CASE wpc'[w] = "decode"
      <4>1. wunit'[w] = wunit[w] /\ wpc[w] = "reserve" /\ F = {}
        BY <1>2, <1>7, <2>1, <3>3, WorkerMoves DEF Frees
      <4> QED BY <1>1, <1>2, <2>3, <3>1, <3>3, <4>1 DEF UnitHeld
    <3>4. CASE wpc'[w] = "send"
      <4>1. wunit'[w] = wunit[w] /\ F = FilesOf(wunit[w])
        BY <1>2, <1>7, <2>1, <3>4, WorkerMoves DEF Frees, UnitHeld, Present
      <4> QED BY <1>1, <2>3, <3>1, <3>4, <4>1 DEF UnitHeld
    <3>5. CASE wpc'[w] \notin {"reserve", "decode", "send"}
      BY <3>5 DEF UnitHeld
    <3> QED BY <3>2, <3>3, <3>4, <3>5
  <2> QED BY <1>1, <1>3, <2>6, <2>7 DEF BodiesFollow
<1>8. CASE \/ AcquireSlot \/ HandOver \/ FetcherStops \/ FetcherCloses \/ SourceStops
           \/ EmitStep \/ CallerCancels \/ UNCHANGED vars
  BY <1>4, <1>8 DEF AcquireSlot, HandOver, FetcherStops, FetcherCloses, SourceStops, EmitStep,
    Receive, EmitOne, EmitEnds, EmitAborts, Return, CallerCancels, taskVars, workVars, vars
<1> QED BY <1>5, <1>6, <1>7, <1>8 DEF Next, FetcherStep

-----------------------------------------------------------------------------
(* Body slots.                                                             *)

\* There are finitely many files.
LEMMA FilesFinite ==
  IsFiniteSet(Files)
<1> USE PipelineAssumption
<1>1. IsFiniteSet(1 .. Units) /\ IsFiniteSet(1 .. MaxFiles)
  BY FS_Interval
<1> QED BY <1>1, FS_Product DEF Files

\* A part of a finite set is finite, and no larger.
LEMMA PartOf ==
  ASSUME NEW S, IsFiniteSet(S), NEW T, T \subseteq S
  PROVE  /\ IsFiniteSet(T) /\ Cardinality(T) \in Nat /\ Cardinality(S) \in Nat
         /\ Cardinality(T) <= Cardinality(S)
<1>1. IsFiniteSet(T) /\ Cardinality(T) <= Cardinality(S)
  BY FS_Subset
<1> QED BY <1>1, FS_CardinalityType

\* Slots cover what is in use, and those that are given back cover what is not
\* in use any more.
LEMMA SlotsCoverKept ==
  ASSUME Types, SlotsCover, NEW F \in SUBSET InUse, InUse' \subseteq InUse \ F,
         slots' = slots - Cardinality(F), fpc' = "submit" => fpc = "submit"
  PROVE  SlotsCover'
<1>1. InUse \subseteq Files
  BY DEF InUse
<1>2. IsFiniteSet(InUse) /\ Cardinality(InUse) \in Nat
  BY <1>1, FilesFinite, PartOf
<1>3. IsFiniteSet(F) /\ Cardinality(F) \in Nat
  BY <1>2, PartOf
<1>4. Cardinality(InUse \ F) = Cardinality(InUse) - Cardinality(F)
  <2>1. F = InUse \cap F
    OBVIOUS
  <2> QED BY <1>2, <2>1, FS_Difference
<1>5. IsFiniteSet(InUse \ F)
  BY <1>2, FS_Difference
<1>6. Cardinality(InUse') <= Cardinality(InUse \ F) /\ Cardinality(InUse') \in Nat
  BY <1>5, PartOf
<1>7. slots \in Nat
  BY DEF Types, FetcherTypes
<1> QED BY <1>2, <1>3, <1>4, <1>6, <1>7 DEF SlotsCover

\* Each download under way and each body has a slot.
LEMMA SlotsCoverStep ==
  ASSUME Types, \A f \in Files : BodyFollows(f), HeldOrRead, SlotsCover, [Next]_vars
  PROVE  SlotsCover'
<1>1. slots \in Nat
  BY DEF Types, FetcherTypes
<1>2. Cardinality({}) = 0 /\ {} \in SUBSET InUse
  BY FS_EmptySet
<1>3. ASSUME InUse' \subseteq InUse, slots' = slots, fpc' = "submit" => fpc = "submit"
      PROVE  SlotsCover'
  <2>1. InUse' \subseteq InUse \ {} /\ slots' = slots - 0
    BY <1>1, <1>3
  <2> QED BY <1>2, <1>3, <2>1, SlotsCoverKept
<1>4. ASSUME UNCHANGED <<task, body>> PROVE InUse' = InUse
  BY <1>4 DEF InUse
<1>5. IsFiniteSet(InUse) /\ Cardinality(InUse) \in Nat
  <2>1. InUse \subseteq Files
    BY DEF InUse
  <2> QED BY <2>1, FilesFinite, PartOf
<1>6. CASE AcquireSlot
  <2>1. InUse' = InUse /\ fpc = "next" /\ slots' = slots + 1
    BY <1>4, <1>6 DEF AcquireSlot, taskVars
  <2> QED BY <1>1, <1>5, <2>1 DEF SlotsCover
<1>7. CASE SubmitTask
  <2>1. /\ fpc = "submit" /\ fpc' # "submit" /\ slots' = slots /\ body' = body
        /\ task' = task \/ task' = [task EXCEPT ![fpos] = "get"]
    BY <1>7 DEF SubmitTask
  <2>2. InUse' \subseteq InUse \cup {fpos}
    BY <2>1 DEF InUse, Types, TaskTypes
  <2>3. /\ IsFiniteSet(InUse \cup {fpos})
        /\ Cardinality(InUse \cup {fpos}) <= Cardinality(InUse) + 1
    <3>1. IsFiniteSet(InUse \cup {fpos})
      BY <1>5, FS_AddElement
    <3>2. Cardinality(InUse \cup {fpos}) \in {Cardinality(InUse), Cardinality(InUse) + 1}
      BY <1>5, FS_AddElement
    <3> QED BY <1>5, <3>1, <3>2
  <2>4. /\ Cardinality(InUse') <= Cardinality(InUse \cup {fpos}) /\ Cardinality(InUse') \in Nat
        /\ Cardinality(InUse \cup {fpos}) \in Nat
    BY <2>2, <2>3, PartOf
  <2> QED BY <1>1, <1>5, <2>1, <2>3, <2>4 DEF SlotsCover
<1>8. CASE HandOver \/ FetcherStops \/ FetcherCloses \/ SourceStops
  BY <1>3, <1>4, <1>8 DEF HandOver, FetcherStops, FetcherCloses, SourceStops, taskVars
<1>9. ASSUME NEW f \in Files, GetFails(f) PROVE SlotsCover'
  <2>1. /\ task[f] = "get" /\ body' = body /\ fpc' = fpc /\ slots' = slots - 1
        /\ task' = [task EXCEPT ![f] = "recorded"]
    BY <1>9 DEF GetFails, ReleaseSlots, fetchVars
  <2>2. body[f] = "nil"
    BY <2>1 DEF BodyFollows
  <2>3. {f} \in SUBSET InUse /\ InUse' \subseteq InUse \ {f}
    BY <2>1, <2>2 DEF InUse, Types, TaskTypes
  <2>4. Cardinality({f}) = 1
    BY FS_Singleton
  <2> QED BY <2>1, <2>3, <2>4, SlotsCoverKept
<1>10. ASSUME NEW f \in Files, GetSucceeds(f) \/ MarkFailed(f) \/ TaskEnds(f) PROVE SlotsCover'
  <2>1. fpc' = fpc /\ slots' = slots
    BY <1>10 DEF GetSucceeds, MarkFailed, TaskEnds, fetchVars
  <2>2. InUse' \subseteq InUse
    BY <1>10 DEF GetSucceeds, MarkFailed, TaskEnds, InUse, Types, TaskTypes
  <2> QED BY <1>3, <2>1, <2>2
<1>11. ASSUME NEW w \in Workers, WorkerStep(w) PROVE SlotsCover'
  <2>1. task' = task /\ fpc' = fpc
    BY <1>11 DEF WorkerStep, TakeUnit, WorkerFinishes, WaitForBodies, ReserveBytes,
      ReserveCancelled, Decode, DecodeFails, SendBatch, taskVars, fetchVars
  <2>2. ASSUME NEW F \in SUBSET Present(wunit[w]), slots' = slots - Cardinality(F),
               body' = [f \in Files |-> IF f \in F THEN "freed" ELSE body[f]]
        PROVE  SlotsCover'
    <3>1. F \in SUBSET InUse
      BY DEF InUse, Present, FilesOf
    <3>2. \A f \in F : task[f] # "get"
      BY DEF Present, FilesOf, BodyFollows
    <3>3. InUse' \subseteq InUse \ F
      BY <2>1, <2>2, <3>2 DEF InUse
    <3> QED BY <2>1, <2>2, <3>1, <3>3, SlotsCoverKept
  <2>3. CASE Decode(w) \/ (DecodeFails(w) /\ ~ (body' = body /\ slots' = slots))
    BY <2>2, <2>3 DEF Decode, DecodeFails, FreeBodies, ReleaseSlots
  <2>4. CASE ReserveCancelled(w) /\ ~Read
    <3>1. wunit[w] \in 1 .. Units
      BY <2>4 DEF ReserveCancelled, Types, WorkerTypes, Busy
    <3>2. Cardinality(FilesOf(wunit[w])) = 1
      BY <2>4, <3>1, FilesOfUnit DEF Types, CallTypes
    <3>3. FilesOf(wunit[w]) \in SUBSET Present(wunit[w])
      BY <2>4 DEF ReserveCancelled, HeldOrRead, UnitHeld, Present
    <3> QED BY <2>2, <2>4, <3>2, <3>3 DEF ReserveCancelled, ReleaseSlots
  <2>5. CASE body' = body /\ slots' = slots
    BY <1>3, <1>4, <2>1, <2>5
  <2>6. CASE ~ (Decode(w) \/ DecodeFails(w) \/ (ReserveCancelled(w) /\ ~Read))
    <3>1. CASE TakeUnit(w) \/ WorkerFinishes(w) \/ WaitForBodies(w)
      BY <2>5, <3>1 DEF TakeUnit, WorkerFinishes, WaitForBodies
    <3>2. CASE ReserveBytes(w) \/ SendBatch(w)
      BY <2>5, <3>2 DEF ReserveBytes, SendBatch
    <3>3. CASE ReserveCancelled(w) /\ Read
      <4>1. UNCHANGED <<slots, body>>
        BY <3>3 DEF ReserveCancelled
      <4> QED BY <2>5, <4>1
    <3> QED BY <1>11, <2>6, <3>1, <3>2, <3>3 DEF WorkerStep
  <2> QED BY <2>3, <2>4, <2>5, <2>6
<1>12. CASE EmitStep \/ CallerCancels \/ UNCHANGED vars
  <2>1. UNCHANGED <<task, body, slots, fpc>>
    BY <1>12 DEF EmitStep, Receive, EmitOne, EmitEnds, EmitAborts, Return, CallerCancels,
      taskVars, fetchVars, vars
  <2> QED BY <1>3, <1>4, <2>1
<1> QED
  BY <1>6, <1>7, <1>8, <1>9, <1>10, <1>11, <1>12 DEF Next, FetcherStep, TaskStep

-----------------------------------------------------------------------------
(* Queues, and the emit loop.                                              *)

\* A worker whose queue and emit loop stand still keeps its queue in order, if
\* it is still done with what it was, and has sent nothing new.
LEMMA QueueKept ==
  ASSUME [Next]_vars, NEW w \in Workers, queue'[w] = queue[w], UNCHANGED <<epc, epos, item, result>>,
         QueueHolds(w), QueueSorted(w), result = "open" => QueueNext(w),
         \A u \in 1 .. Units : (Done(w, u) => Done(w, u)') /\ (SentBy(w, u)' => SentBy(w, u))
  PROVE  QueueHolds(w)' /\ QueueSorted(w)' /\ (result' = "open" => QueueNext(w)')
<1>1. \A u : FilesOf(u)' = FilesOf(u) /\ WorkerOf(u)' = WorkerOf(u) /\ Own(w, u)' = Own(w, u)
  BY Fixed
<1>2. Queued(w)' = Queued(w) /\ InHand(w)' = InHand(w) /\ Ahead(w)' = Ahead(w)
      /\ NextReceived' = NextReceived
  BY <1>1 DEF Queued, InHand, Ahead, NextReceived
<1>3. QueueHolds(w)'
  BY <1>1, <1>2 DEF QueueHolds
<1>4. QueueSorted(w)'
  BY DEF QueueSorted
<1>5. result' = "open" => QueueNext(w)'
  BY <1>1, <1>2 DEF QueueNext
<1> QED BY <1>3, <1>4, <1>5

\* The emit loop that stands still has the same units before it.
LEMMA EmitsKept ==
  ASSUME [Next]_vars, UNCHANGED emitVars, EmitsInOrder
  PROVE  EmitsInOrder'
BY Fixed DEF EmitsInOrder, emitVars

\* The steps that change a worker's place, or its queue, are its own: another
\* worker is done with what it was, and has sent nothing new.
LEMMA OthersStand ==
  ASSUME [Next]_vars, NEW v \in Workers, wpc'[v] = wpc[v], wunit'[v] = wunit[v]
  PROVE  \A u \in 1 .. Units : (Done(v, u) => Done(v, u)') /\ (SentBy(v, u)' => SentBy(v, u))
<1>1. \A u : Own(v, u)' = Own(v, u)
  BY Fixed
<1>2. Alive' => Alive
  BY Fixed
<1> QED BY <1>1, <1>2 DEF Done, SentBy, Sent

\* A worker's step that is not a send is no end of a unit, and no send.
LEMMA WorkerStands ==
  ASSUME Types, NEW w \in Workers, TakesInOrder(w), WorkerStep(w),
         wpc[w] = "send" => wpc'[w] = "exited" /\ ~Alive
  PROVE  \A u \in 1 .. Units : (Done(w, u) => Done(w, u)') /\ (SentBy(w, u)' => SentBy(w, u))
<1>1. [Next]_vars
  BY DEF Next
<1>2. (\A u : Own(w, u)' = Own(w, u)) /\ (Alive' => Alive)
  BY <1>1, Fixed
<1>3. wunit[w] \in Nat
  BY DEF Types, WorkerTypes
<1>4. CASE TakeUnit(w)
  <2>1. /\ wunit[w] < wunit'[w] /\ wunit'[w] \in Nat
        /\ \A u \in 1 .. Units : Own(w, u) /\ wunit[w] < u => wunit'[w] <= u
    BY <1>4, TakeUnitIsNext DEF Own
  <2>2. wpc[w] = "take" /\ wpc'[w] = "wait"
    BY <1>4 DEF TakeUnit, Step, Types, WorkerTypes
  <2>3. ASSUME NEW u \in 1 .. Units, Done(w, u) PROVE Done(w, u)'
    BY <1>2, <1>3, <2>1, <2>3 DEF Done
  <2>4. ASSUME NEW u \in 1 .. Units, SentBy(w, u)' PROVE SentBy(w, u)
    BY <1>2, <1>3, <2>1, <2>2, <2>4 DEF SentBy, Sent
  <2> QED BY <2>3, <2>4
<1>5. CASE ~ TakeUnit(w)
  <2>1. /\ wunit'[w] = wunit[w] /\ (wpc'[w] \in Busy => wpc[w] \in Busy)
        /\ wpc'[w] = "take" => wpc[w] = "send"
    <3>1. ~ (wpc[w] = "take" /\ wpc'[w] = "wait")
      BY <1>5, <1>3 DEF WorkerStep, WorkerFinishes, WaitForBodies, ReserveBytes, ReserveCancelled,
        Decode, DecodeFails, SendBatch, Step, Types, WorkerTypes
    <3> QED BY <3>1, WorkerMoves DEF Busy
  <2>2. wpc'[w] = "exited" /\ Alive' => wpc[w] = "take"
    <3>1. CASE WaitForBodies(w) \/ ReserveCancelled(w) \/ DecodeFails(w)
      BY <1>2, <3>1 DEF WaitForBodies, ReserveCancelled, DecodeFails, Step, RecordHardErr, Alive,
        Types, WorkerTypes
    <3>2. CASE ReserveBytes(w) \/ Decode(w) \/ WorkerFinishes(w)
      BY <3>2 DEF ReserveBytes, Decode, WorkerFinishes, Step, Types, WorkerTypes
    <3>3. CASE SendBatch(w)
      BY <1>2, <3>3 DEF SendBatch, Step
    <3> QED BY <1>5, <3>1, <3>2, <3>3 DEF WorkerStep
  <2>3. ASSUME NEW u \in 1 .. Units, Done(w, u) PROVE Done(w, u)'
    BY <1>2, <2>1, <2>3 DEF Done
  <2>4. Sent(w)' => Sent(w)
    BY <1>2, <2>1, <2>2 DEF Sent
  <2>5. ASSUME NEW u \in 1 .. Units, SentBy(w, u)' PROVE SentBy(w, u)
    BY <1>2, <2>1, <2>4, <2>5 DEF SentBy
  <2> QED BY <2>3, <2>5
<1> QED BY <1>4, <1>5

\* What is in a sequence with one more at its end.
LEMMA AppendRange ==
  ASSUME NEW S, NEW q \in Seq(S), NEW x
  PROVE  {Append(q, x)[i] : i \in 1 .. Len(Append(q, x))} = {q[i] : i \in 1 .. Len(q)} \cup {x}
<1>1. Len(Append(q, x)) = Len(q) + 1 /\ Len(q) \in Nat
  OBVIOUS
<1>2. \A i \in 1 .. Len(q) : i \in 1 .. Len(Append(q, x)) /\ Append(q, x)[i] = q[i]
  BY <1>1
<1>3. Len(q) + 1 \in 1 .. Len(Append(q, x)) /\ Append(q, x)[Len(q) + 1] = x
  BY <1>1
<1>4. \A i \in 1 .. Len(Append(q, x)) : i \in 1 .. Len(q) \/ i = Len(q) + 1
  BY <1>1
<1> QED BY <1>2, <1>3, <1>4

\* What is in a sequence is its head and what is in its tail.
LEMMA TailRange ==
  ASSUME NEW S, NEW q \in Seq(S), q # << >>
  PROVE  {q[i] : i \in 1 .. Len(q)} = {Head(q)} \cup {Tail(q)[i] : i \in 1 .. Len(Tail(q))}
<1>1. Len(q) \in Nat \ {0} /\ Len(Tail(q)) = Len(q) - 1 /\ Head(q) = q[1]
  BY TailAt
<1>2. \A i \in 1 .. Len(Tail(q)) : i + 1 \in 1 .. Len(q) /\ Tail(q)[i] = q[i + 1]
  BY TailAt
<1>3. ASSUME NEW i \in 1 .. Len(q), i # 1
      PROVE  i - 1 \in 1 .. Len(Tail(q)) /\ q[i] = Tail(q)[i - 1]
  BY <1>1, <1>3
<1>4. 1 \in 1 .. Len(q)
  BY <1>1
<1>5. ASSUME NEW i \in 1 .. Len(q)
      PROVE  q[i] \in {Head(q)} \cup {Tail(q)[j] : j \in 1 .. Len(Tail(q))}
  BY <1>1, <1>3
<1>6. ASSUME NEW i \in 1 .. Len(Tail(q)) PROVE Tail(q)[i] \in {q[j] : j \in 1 .. Len(q)}
  BY <1>2
<1> QED BY <1>1, <1>4, <1>5, <1>6

\* What a worker sends is its unit, whole, behind all that it sent before.
LEMMA SendInOrder ==
  ASSUME Types, InputsInOrder, BodiesFollow, QueuesInOrder, NEW w \in Workers, SendBatch(w),
         Len(queue[w]) < QueueCap
  PROVE  QueueHolds(w)' /\ QueueSorted(w)' /\ (result' = "open" => QueueNext(w)')
<1> DEFINE q == queue[w]
<1>1. [Next]_vars
  BY DEF Next, WorkerStep
<1>2. \A u : FilesOf(u)' = FilesOf(u) /\ WorkerOf(u)' = WorkerOf(u) /\ Own(w, u)' = Own(w, u)
  BY <1>1, Fixed
<1>3. QueueHolds(w) /\ QueueSorted(w) /\ (result = "open" => QueueNext(w)) /\ UnitHeld(w)
      /\ TakesInOrder(w)
  BY DEF QueuesInOrder, BodiesFollow, InputsInOrder
<1>4. q \in Seq(SUBSET Files) /\ Len(q) \in Nat
  BY DEF Types, EmitTypes
<1>5. PICK n \in 1 .. Units : n = wunit[w] /\ Own(w, n) /\ wpc[w] = "send"
  BY <1>3 DEF SendBatch, Types, WorkerTypes, Busy, TakesInOrder
<1>6. Decoded(n) = FilesOf(n) /\ FilesOf(n) \in SUBSET Files
  BY <1>3, <1>5 DEF Decoded, UnitHeld, FilesOf
<1>7. /\ queue' = [queue EXCEPT ![w] = Append(q, FilesOf(n))] /\ wpc' = [wpc EXCEPT ![w] = "take"]
      /\ wunit' = wunit /\ UNCHANGED <<epc, epos, item, result>>
  BY <1>3, <1>5, <1>6 DEF SendBatch, Step, emitVars
<1>8. queue'[w] = Append(q, FilesOf(n)) /\ wpc'[w] = "take" /\ wunit'[w] = n
  BY <1>5, <1>7 DEF Types, EmitTypes, WorkerTypes
<1> HIDE DEF q
<1>9. /\ Queued(w)' = Queued(w) \cup {FilesOf(n)}
      /\ Ahead(w)' = Ahead(w) \cup {FilesOf(n)} /\ NextReceived' = NextReceived
  <2>1. Queued(w)' = Queued(w) \cup {FilesOf(n)}
    BY <1>4, <1>8, AppendRange DEF Queued, q
  <2> QED BY <1>2, <1>7, <2>1 DEF Ahead, InHand, NextReceived
<1>10. \A u \in 1 .. Units : /\ Done(w, u)' <=> Own(w, u) /\ u <= n
                             /\ SentBy(w, u)' <=> Own(w, u) /\ u <= n
                             /\ Done(w, u) <=> Own(w, u) /\ u < n
  BY <1>2, <1>5, <1>8 DEF Done, SentBy, Sent, Busy
<1>11. QueueHolds(w)'
  <2>1. ASSUME NEW F \in Ahead(w)'
        PROVE  \E u \in 1 .. Units : F = FilesOf(u) /\ Done(w, u)'
    <3>1. CASE F \in Ahead(w)
      <4>1. PICK u \in 1 .. Units : F = FilesOf(u) /\ Done(w, u)
        BY <1>3, <3>1 DEF QueueHolds
      <4>2. Done(w, u)'
        BY <1>5, <1>10, <4>1
      <4> QED BY <4>1, <4>2
    <3>2. CASE F = FilesOf(n)
      <4>1. Done(w, n)'
        BY <1>5, <1>10
      <4> QED BY <1>5, <3>2, <4>1
    <3> QED BY <1>9, <3>1, <3>2
  <2> QED BY <1>2, <2>1 DEF QueueHolds
<1>12. QueueSorted(w)'
  <2>1. ASSUME NEW i \in 1 .. Len(q), NEW f \in q[i], NEW g \in FilesOf(n) PROVE f[1] < g[1]
    <3>1. q[i] \in Ahead(w)
      BY DEF Ahead, Queued, q
    <3>2. PICK u \in 1 .. Units : q[i] = FilesOf(u) /\ u < n
      BY <1>3, <1>10, <3>1 DEF QueueHolds
    <3> QED BY <3>2 DEF FilesOf
  <2>2. ASSUME NEW i \in 1 .. Len(queue'[w]), NEW j \in 1 .. Len(queue'[w]), i < j
        PROVE  \A f \in queue'[w][i], g \in queue'[w][j] : f[1] < g[1]
    <3>1. i \in 1 .. Len(q) /\ queue'[w][i] = q[i]
      BY <1>4, <1>6, <1>8, <2>2
    <3>2. CASE j = Len(q) + 1
      <4>1. queue'[w][j] = FilesOf(n)
        BY <1>4, <1>6, <1>8, <3>2
      <4> QED BY <2>1, <3>1, <4>1
    <3>3. CASE j # Len(q) + 1
      <4>1. j \in 1 .. Len(q) /\ queue'[w][j] = q[j]
        BY <1>4, <1>6, <1>8, <3>3
      <4> QED BY <1>3, <2>2, <3>1, <4>1 DEF QueueSorted, q
    <3> QED BY <3>2, <3>3
  <2> QED BY <2>2 DEF QueueSorted
<1>13. ASSUME result' = "open" PROVE QueueNext(w)'
  <2>1. QueueNext(w)
    BY <1>3, <1>7, <1>13
  <2>2. NextReceived <= n
    BY <1>5, <1>10, <2>1 DEF QueueNext
  <2>3. \A F \in Queued(w)' : \A f \in F : NextReceived <= f[1]
    BY <1>9, <2>1, <2>2 DEF QueueNext, FilesOf
  <2>4. ASSUME NEW u \in 1 .. Units, SentBy(w, u)', NextReceived <= u
        PROVE  FilesOf(u) \in Queued(w)'
    <3>1. CASE u = n
      BY <1>9, <3>1
    <3>2. CASE u # n
      <4>1. u < n /\ Own(w, u)
        BY <1>5, <1>10, <2>4, <3>2
      <4>2. SentBy(w, u)
        BY <1>5, <4>1 DEF SentBy
      <4> QED BY <1>9, <2>1, <2>4, <4>2 DEF QueueNext
    <3> QED BY <3>1, <3>2
  <2>5. \A u \in 1 .. Units : Own(w, u) /\ ~ Done(w, u)' => NextReceived <= u
    BY <1>5, <1>10, <2>1 DEF QueueNext
  <2> QED BY <1>2, <1>9, <2>3, <2>4, <2>5 DEF QueueNext
<1> QED BY <1>11, <1>12, <1>13

\* The head of the queue that the emit loop waits for is the unit that it
\* waits for.
LEMMA HeadIsNext ==
  ASSUME Types, QueuesInOrder, Receive
  PROVE  /\ epos \in 1 .. Units /\ Head(queue[WorkerOf(epos)]) = FilesOf(epos)
         /\ Done(WorkerOf(epos), epos) /\ result = "open"
<1> USE PipelineAssumption
<1> DEFINE w == WorkerOf(epos)
           q == queue[w]
<1>1. w \in Workers /\ epos \in Nat \ {0} /\ NextReceived = epos
  BY OwnUnits DEF Types, EmitTypes, Receive, NextReceived
<1>2. q \in Seq(SUBSET Files) /\ q # << >>
  BY <1>1 DEF Types, EmitTypes, Receive
<1>3. result = "open" /\ QueueHolds(w) /\ QueueSorted(w) /\ QueueNext(w)
  BY <1>1 DEF QueuesInOrder, EmitsInOrder, Receive
<1>4. 1 \in 1 .. Len(q) /\ Head(q) = q[1]
  BY <1>2
<1>5. q[1] \in Queued(w) /\ q[1] \in Ahead(w)
  BY <1>4 DEF Ahead, Queued
<1>6. PICK u \in 1 .. Units : q[1] = FilesOf(u) /\ Done(w, u)
  BY <1>3, <1>5 DEF QueueHolds
<1>7. <<u, 1>> \in FilesOf(u) /\ \A f \in FilesOf(u) : f[1] = u
  BY FilesOfUnit DEF Types
<1>8. epos <= u
  BY <1>1, <1>3, <1>5, <1>6, <1>7 DEF QueueNext
<1>9. epos \in 1 .. Units
  BY <1>1, <1>8
<1>10. ASSUME epos < u PROVE FALSE
  <2>1. Own(w, epos) /\ epos < wunit[w]
    BY <1>1, <1>6, <1>9, <1>10 DEF Own, Done, Types, WorkerTypes
  <2>2. FilesOf(epos) \in Queued(w)
    BY <1>1, <1>3, <1>9, <2>1 DEF QueueNext, SentBy
  <2>3. PICK j \in 1 .. Len(q) : q[j] = FilesOf(epos)
    BY <2>2 DEF Queued
  <2>4. <<epos, 1>> \in FilesOf(epos)
    BY <1>9, FilesOfUnit DEF Types
  <2>5. CASE j = 1
    BY <1>6, <1>7, <1>10, <2>3, <2>4, <2>5
  <2>6. CASE 1 < j
    <3>1. u < epos
      BY <1>3, <1>4, <1>6, <1>7, <2>3, <2>4, <2>6 DEF QueueSorted
    <3> QED BY <1>1, <1>10, <3>1
  <2> QED BY <2>5, <2>6
<1>11. epos = u
  BY <1>1, <1>8, <1>10
<1> QED BY <1>3, <1>4, <1>6, <1>9, <1>11

\* Receive takes the unit that the emit loop waits for: all queues go on behind it.
LEMMA ReceiveInOrder ==
  ASSUME Types, QueuesInOrder, Receive, NEW v \in Workers
  PROVE  QueueHolds(v)' /\ QueueSorted(v)' /\ (result' = "open" => QueueNext(v)')
<1> DEFINE w == WorkerOf(epos)
           q == queue[w]
<1>1. [Next]_vars
  BY DEF Next, EmitStep
<1>2. /\ \A u : FilesOf(u)' = FilesOf(u) /\ WorkerOf(u)' = WorkerOf(u)
      /\ \A x, u : Own(x, u)' = Own(x, u)
  BY <1>1, Fixed
<1>3. /\ w \in Workers /\ epos \in 1 .. Units /\ Head(q) = FilesOf(epos) /\ Done(w, epos)
      /\ result = "open"
  BY HeadIsNext, OwnUnits DEF Types, EmitTypes
<1>4. q \in Seq(SUBSET Files) /\ q # << >>
  BY <1>3 DEF Types, EmitTypes, Receive
<1>5. /\ queue' = [queue EXCEPT ![w] = Tail(q)] /\ epc = "receive" /\ epc' = "emit"
      /\ item' = FilesOf(epos) /\ UNCHANGED <<wpc, wunit, cause, epos, result>>
  BY <1>3 DEF Receive, workVars
<1>6. NextReceived = epos /\ NextReceived' = epos + 1
  BY <1>5 DEF NextReceived
<1>7. \A u \in 1 .. Units : (Done(v, u)' <=> Done(v, u)) /\ (SentBy(v, u)' <=> SentBy(v, u))
  BY <1>2, <1>5 DEF Done, SentBy, Sent, Alive
<1>8. QueueHolds(v) /\ QueueSorted(v) /\ QueueNext(v)
  BY <1>3 DEF QueuesInOrder
<1>9. \A F \in Queued(v) : \E u \in 1 .. Units : F = FilesOf(u) /\ Done(v, u)
  BY <1>8 DEF QueueHolds, Ahead
<1>10. ASSUME NEW u \in 1 .. Units PROVE <<u, 1>> \in FilesOf(u) /\ \A f \in FilesOf(u) : f[1] = u
  BY FilesOfUnit DEF Types
<1>11. \A u \in 1 .. Units : Own(v, u) /\ ~ Done(v, u) => epos + 1 <= u
  <2>1. ASSUME NEW u \in 1 .. Units, Own(v, u), ~ Done(v, u), u = epos PROVE FALSE
    BY <1>3, <2>1 DEF Own
  <2>2. \A u \in 1 .. Units : Own(v, u) /\ ~ Done(v, u) => epos <= u
    BY <1>6, <1>8 DEF QueueNext
  <2> QED BY <1>3, <2>1, <2>2
<1> HIDE DEF w, q
<1>12. CASE v # w
  <2>1. queue'[v] = queue[v]
    BY <1>5, <1>12 DEF Types, EmitTypes
  <2>2. Queued(v)' = Queued(v) /\ InHand(v)' = {}
    <3>1. WorkerOf(epos)' # v
      BY <1>2, <1>5, <1>12 DEF w
    <3> QED BY <2>1, <3>1 DEF Queued, InHand
  <2>3. QueueHolds(v)'
    BY <1>2, <1>7, <1>9, <2>2 DEF QueueHolds, Ahead
  <2>4. QueueSorted(v)'
    BY <1>8, <2>1 DEF QueueSorted
  <2>5. ASSUME NEW F \in Queued(v), NEW f \in F PROVE epos + 1 <= f[1]
    <3>1. PICK u \in 1 .. Units : F = FilesOf(u) /\ Done(v, u)
      BY <1>9
    <3>2. f[1] = u /\ epos <= u
      BY <1>6, <1>8, <1>10, <3>1 DEF QueueNext
    <3>3. u # epos
      BY <1>12, <3>1 DEF Done, Own, w
    <3> QED BY <1>3, <3>2, <3>3
  <2>6. \A u \in 1 .. Units : SentBy(v, u) /\ epos + 1 <= u => FilesOf(u) \in Queued(v)
    BY <1>3, <1>6, <1>8 DEF QueueNext
  <2> QED BY <1>2, <1>6, <1>7, <1>11, <2>2, <2>3, <2>4, <2>5, <2>6 DEF QueueNext
<1>13. CASE v = w
  <2>1. queue'[v] = Tail(q) /\ q = queue[v]
    BY <1>3, <1>5, <1>13 DEF Types, EmitTypes, q
  <2>2. /\ Len(queue'[v]) = Len(q) - 1 /\ Len(q) \in Nat \ {0}
        /\ \A i \in 1 .. Len(queue'[v]) : i + 1 \in 1 .. Len(q) /\ queue'[v][i] = q[i + 1]
        /\ q[1] = FilesOf(epos)
    BY <1>3, <1>4, <2>1, TailAt
  <2>3. \A i, j \in 1 .. Len(q) : i < j => \A f \in q[i], g \in q[j] : f[1] < g[1]
    BY <1>8, <2>1 DEF QueueSorted
  <2>4. QueueSorted(v)'
    <3>1. ASSUME NEW i \in 1 .. Len(queue'[v]), NEW j \in 1 .. Len(queue'[v]), i < j
          PROVE  \A f \in queue'[v][i], g \in queue'[v][j] : f[1] < g[1]
      <4>1. i + 1 < j + 1 /\ i + 1 \in 1 .. Len(q) /\ j + 1 \in 1 .. Len(q)
        BY <2>2, <3>1
      <4> QED BY <2>2, <2>3, <4>1
    <3> QED BY <3>1 DEF QueueSorted
  <2>5. Queued(v)' \subseteq Queued(v)
    BY <2>1, <2>2 DEF Queued
  <2>6. FilesOf(epos) \in Queued(v)
    <3>1. 1 \in 1 .. Len(q)
      BY <2>2
    <3> QED BY <2>1, <2>2, <3>1 DEF Queued
  <2>7. InHand(v)' \subseteq {FilesOf(epos)}
    BY <1>5 DEF InHand
  <2>8. QueueHolds(v)'
    BY <1>2, <1>7, <1>9, <2>5, <2>6, <2>7 DEF QueueHolds, Ahead
  <2>9. ASSUME NEW F \in Queued(v)', NEW f \in F PROVE epos + 1 <= f[1]
    <3>1. PICK i \in 1 .. Len(queue'[v]) : F = queue'[v][i]
      BY <2>9 DEF Queued
    <3>2. 1 \in 1 .. Len(q) /\ i + 1 \in 1 .. Len(q) /\ 1 < i + 1 /\ F = q[i + 1]
      BY <2>2, <3>1
    <3>3. <<epos, 1>>[1] < f[1]
      BY <1>3, <1>10, <2>2, <2>3, <3>2
    <3>4. PICK u \in 1 .. Units : F = FilesOf(u)
      BY <1>9, <2>5
    <3>5. f[1] = u
      BY <1>10, <3>4
    <3> QED BY <1>3, <3>3, <3>5
  <2>10. ASSUME NEW u \in 1 .. Units, SentBy(v, u), epos + 1 <= u
         PROVE  FilesOf(u) \in Queued(v)'
    <3>1. FilesOf(u) \in Queued(v)
      BY <1>3, <1>6, <1>8, <2>10 DEF QueueNext
    <3>2. PICK i \in 1 .. Len(q) : FilesOf(u) = q[i]
      BY <2>1, <3>1 DEF Queued
    <3>3. i # 1
      <4>1. ASSUME i = 1 PROVE FALSE
        <5>1. <<u, 1>> \in FilesOf(epos)
          BY <1>10, <2>2, <3>2, <4>1
        <5>2. <<u, 1>>[1] = epos
          BY <1>3, <1>10, <5>1
        <5> QED BY <1>3, <2>10, <5>2
      <4> QED BY <4>1
    <3>4. i - 1 \in 1 .. Len(queue'[v]) /\ queue'[v][i - 1] = q[i]
      BY <2>2, <3>3
    <3> QED BY <3>2, <3>4 DEF Queued
  <2> QED BY <1>2, <1>6, <1>7, <1>11, <2>4, <2>8, <2>9, <2>10 DEF QueueNext
<1> QED BY <1>12, <1>13

\* The consumer is handed the unit behind those it has.
LEMMA EmitInOrder ==
  ASSUME Types, QueuesInOrder, EmitOne
  PROVE  /\ EmitsInOrder'
         /\ \A v \in Workers :
              QueueHolds(v)' /\ QueueSorted(v)' /\ (result' = "open" => QueueNext(v)')
<1>1. [Next]_vars
  BY DEF Next, EmitStep
<1>2. /\ \A u : FilesOf(u)' = FilesOf(u) /\ WorkerOf(u)' = WorkerOf(u)
      /\ \A x, u : Own(x, u)' = Own(x, u)
  BY <1>1, Fixed
<1>3. /\ epos \in 1 .. Units /\ item = FilesOf(epos) /\ result = "open" /\ epc = "emit"
      /\ Len(delivered) = epos - 1 /\ \A i \in 1 .. epos - 1 : delivered[i] = FilesOf(i)
  BY DEF EmitOne, QueuesInOrder, EmitsInOrder, Types, EmitTypes
<1>4. /\ delivered' = Append(delivered, FilesOf(epos)) /\ item' = {}
      /\ UNCHANGED <<queue, wpc, wunit>>
      /\ \/ epc' = "receive" /\ epos' = epos + 1 /\ UNCHANGED <<result, cause>>
         \/ epc' = "closing" /\ epos' = epos /\ result' = "broke"
  BY <1>3 DEF EmitOne, Yield, CloseWith, workVars
<1>5. EmitsInOrder'
  <2>1. delivered \in Seq(SUBSET Files) /\ FilesOf(epos) \in SUBSET Files
    BY DEF Types, EmitTypes, FilesOf
  <2>2. /\ Len(delivered') = epos
        /\ \A i \in 1 .. epos : delivered'[i] = FilesOf(i)
    <3>1. Len(delivered') = epos
      BY <1>3, <1>4, <2>1
    <3>2. ASSUME NEW i \in 1 .. epos PROVE delivered'[i] = FilesOf(i)
      <4>1. CASE i = epos
        BY <1>3, <1>4, <2>1, <4>1
      <4>2. CASE i # epos
        <5>1. i \in 1 .. epos - 1 /\ i \in 1 .. Len(delivered)
          BY <1>3, <4>2
        <5> QED BY <1>3, <1>4, <2>1, <5>1
      <4> QED BY <4>1, <4>2
    <3> QED BY <3>1, <3>2
  <2>3. CASE epc' = "receive" /\ epos' = epos + 1 /\ UNCHANGED <<result, cause>>
    BY PipelineAssumption, <1>2, <1>3, <2>2, <2>3 DEF EmitsInOrder
  <2>4. CASE epc' = "closing" /\ epos' = epos /\ result' = "broke"
    BY PipelineAssumption, <1>3, <2>4 DEF EmitsInOrder
  <2> QED BY <1>4, <2>3, <2>4
<1>6. ASSUME NEW v \in Workers
      PROVE  QueueHolds(v)' /\ QueueSorted(v)' /\ (result' = "open" => QueueNext(v)')
  <2>1. QueueHolds(v) /\ QueueSorted(v) /\ QueueNext(v)
    BY <1>3 DEF QueuesInOrder
  <2>2. Queued(v)' = Queued(v) /\ InHand(v)' = {}
    BY <1>4 DEF Queued, InHand
  <2>3. \A u \in 1 .. Units : Done(v, u)' <=> Done(v, u)
    BY <1>2, <1>4 DEF Done
  <2>4. QueueHolds(v)'
    BY <1>2, <2>1, <2>2, <2>3 DEF QueueHolds, Ahead
  <2>5. QueueSorted(v)'
    BY <1>4, <2>1 DEF QueueSorted
  <2>6. ASSUME result' = "open" PROVE QueueNext(v)'
    <3>1. NextReceived' = NextReceived /\ cause' = cause
      BY <1>3, <1>4, <2>6 DEF NextReceived
    <3>2. \A u \in 1 .. Units : SentBy(v, u)' <=> SentBy(v, u)
      BY <1>2, <1>4, <3>1 DEF SentBy, Sent, Alive
    <3> QED BY <1>2, <2>1, <2>2, <2>3, <3>1, <3>2 DEF QueueNext
  <2> QED BY <2>4, <2>5, <2>6
<1> QED BY <1>5, <1>6

\* The emit loop that leaves takes nothing with it.
LEMMA LeaveInOrder ==
  ASSUME Types, QueuesInOrder, EmitEnds \/ EmitAborts \/ Return
  PROVE  /\ EmitsInOrder'
         /\ \A v \in Workers : QueueHolds(v)' /\ QueueSorted(v)' /\ result' # "open"
<1>1. [Next]_vars
  BY DEF Next, EmitStep
<1>2. /\ \A u : FilesOf(u)' = FilesOf(u) /\ WorkerOf(u)' = WorkerOf(u)
      /\ \A x, u : Own(x, u)' = Own(x, u)
  BY <1>1, Fixed
<1>3. /\ epc # "emit" /\ epc' \in {"closing", "returned"} /\ result' # "open"
      /\ UNCHANGED <<queue, wpc, wunit, epos, item, delivered>>
  <2>1. CASE EmitEnds
    BY <2>1 DEF EmitEnds, CloseWith, workVars
  <2>2. CASE EmitAborts
    <3>1. cause # "open"
      BY DEF Types, CallTypes, Causes
    <3> QED BY <2>2, <3>1 DEF EmitAborts, CloseWith, workVars
  <2>3. CASE Return
    BY <2>3 DEF Return, workVars, QueuesInOrder, EmitsInOrder
  <2> QED BY <2>1, <2>2, <2>3
<1>4. EmitsInOrder'
  BY <1>2, <1>3 DEF QueuesInOrder, EmitsInOrder
<1>5. ASSUME NEW v \in Workers PROVE QueueHolds(v)' /\ QueueSorted(v)'
  <2>1. QueueHolds(v) /\ QueueSorted(v)
    BY DEF QueuesInOrder
  <2>2. Ahead(v)' \subseteq Ahead(v)
    BY <1>3 DEF Ahead, Queued, InHand
  <2>3. \A u \in 1 .. Units : Done(v, u)' <=> Done(v, u)
    BY <1>2, <1>3 DEF Done
  <2> QED BY <1>2, <1>3, <2>1, <2>2, <2>3 DEF QueueHolds, QueueSorted
<1> QED BY <1>3, <1>4, <1>5

\* Units reach the consumer whole and in order.
LEMMA QueuesInOrderStep ==
  ASSUME Types, InputsInOrder, BodiesFollow, QueuesInOrder, [Next]_vars
  PROVE  QueuesInOrder'
<1>1. Workers' = Workers
  BY Fixed
<1>2. ASSUME UNCHANGED <<queue, wpc, wunit, emitVars>> PROVE QueuesInOrder'
  <2>1. EmitsInOrder'
    BY <1>2, EmitsKept DEF QueuesInOrder
  <2>2. ASSUME NEW v \in Workers
        PROVE  QueueHolds(v)' /\ QueueSorted(v)' /\ (result' = "open" => QueueNext(v)')
    <3>1. queue'[v] = queue[v] /\ wpc'[v] = wpc[v] /\ wunit'[v] = wunit[v]
          /\ UNCHANGED <<epc, epos, item, result>>
      BY <1>2 DEF emitVars
    <3>2. QueueHolds(v) /\ QueueSorted(v) /\ (result = "open" => QueueNext(v))
      BY DEF QueuesInOrder
    <3> QED BY <3>1, <3>2, OthersStand, QueueKept
  <2> QED BY <1>1, <2>1, <2>2 DEF QueuesInOrder
<1>3. CASE FetcherStep \/ SourceStops \/ CallerCancels \/ UNCHANGED vars
  BY <1>2, <1>3 DEF FetcherStep, AcquireSlot, SubmitTask, HandOver, FetcherStops, FetcherCloses,
    SourceStops, CallerCancels, workVars, vars
<1>4. ASSUME NEW f \in Files, TaskStep(f) PROVE QueuesInOrder'
  BY <1>2, <1>4 DEF TaskStep, GetSucceeds, GetFails, MarkFailed, TaskEnds, workVars
<1>5. ASSUME NEW w \in Workers, WorkerStep(w) PROVE QueuesInOrder'
  <2>1. UNCHANGED emitVars
    BY <1>5 DEF WorkerStep, TakeUnit, WorkerFinishes, WaitForBodies, ReserveBytes,
      ReserveCancelled, Decode, DecodeFails, SendBatch
  <2>2. EmitsInOrder' /\ UNCHANGED <<epc, epos, item, result>>
    BY <2>1, EmitsKept DEF QueuesInOrder, emitVars
  <2>3. TakesInOrder(w)
    BY DEF InputsInOrder
  <2>4. \A v \in Workers \ {w} : queue'[v] = queue[v] /\ wpc'[v] = wpc[v] /\ wunit'[v] = wunit[v]
    <3>1. \A v \in Workers \ {w} : wpc'[v] = wpc[v] /\ wunit'[v] = wunit[v]
      BY <1>5, <2>3, WorkerMoves
    <3>2. \A v \in Workers \ {w} : queue'[v] = queue[v]
      BY <1>5 DEF WorkerStep, TakeUnit, WorkerFinishes, WaitForBodies, ReserveBytes,
        ReserveCancelled, Decode, DecodeFails, SendBatch, Types, EmitTypes
    <3> QED BY <3>1, <3>2
  <2>5. ASSUME NEW v \in Workers
        PROVE  QueueHolds(v)' /\ QueueSorted(v)' /\ (result' = "open" => QueueNext(v)')
    <3>1. QueueHolds(v) /\ QueueSorted(v) /\ (result = "open" => QueueNext(v))
      BY DEF QueuesInOrder
    <3>2. CASE v # w
      BY <2>2, <2>4, <3>1, <3>2, OthersStand, QueueKept
    <3>3. CASE v = w /\ SendBatch(w) /\ Len(queue[w]) < QueueCap
      BY <3>3, SendInOrder
    <3>4. CASE v = w /\ ~ (SendBatch(w) /\ Len(queue[w]) < QueueCap)
      <4>1. queue'[w] = queue[w]
        BY <1>5, <3>4 DEF WorkerStep, TakeUnit, WorkerFinishes, WaitForBodies, ReserveBytes,
          ReserveCancelled, Decode, DecodeFails, SendBatch
      <4>2. wpc[w] = "send" => wpc'[w] = "exited" /\ ~Alive
        BY <1>5, <3>4 DEF WorkerStep, TakeUnit, WorkerFinishes, WaitForBodies, ReserveBytes,
          ReserveCancelled, Decode, DecodeFails, SendBatch, Step, Types, WorkerTypes
      <4>3. \A u \in 1 .. Units : (Done(w, u) => Done(w, u)') /\ (SentBy(w, u)' => SentBy(w, u))
        BY <1>5, <2>3, <4>2, WorkerStands
      <4> QED BY <2>2, <3>1, <3>4, <4>1, <4>3, QueueKept
    <3> QED BY <3>2, <3>3, <3>4
  <2> QED BY <1>1, <2>2, <2>5 DEF QueuesInOrder
<1>6. CASE Receive
  <2>1. EmitsInOrder'
    <3>1. epos \in 1 .. Units /\ item' = FilesOf(epos) /\ result = "open"
      BY <1>6, HeadIsNext DEF Receive
    <3>2. epc' = "emit" /\ UNCHANGED <<epos, delivered, result>> /\ epc = "receive"
      BY <1>6 DEF Receive
    <3> QED BY <3>1, <3>2, Fixed DEF QueuesInOrder, EmitsInOrder
  <2> QED BY <1>1, <1>6, <2>1, ReceiveInOrder DEF QueuesInOrder
<1>7. CASE EmitOne
  BY <1>1, <1>7, EmitInOrder DEF QueuesInOrder
<1>8. CASE EmitEnds \/ EmitAborts \/ Return
  BY <1>1, <1>8, LeaveInOrder DEF QueuesInOrder
<1> QED BY <1>3, <1>4, <1>5, <1>6, <1>7, <1>8 DEF Next, EmitStep

-----------------------------------------------------------------------------
(* Reserved bytes.                                                         *)

\* A unit adds its bytes to those of other units.
LEMMA UnitAdds ==
  ASSUME Types, NEW n \in 1 .. Units, NEW R,
         \A F \in R : \E u \in 1 .. Units : F = FilesOf(u) /\ u # n
  PROVE  /\ Cardinality(UNION R) \in Nat /\ Bytes(n) \in Nat
         /\ Cardinality(UNION (R \cup {FilesOf(n)})) = Cardinality(UNION R) + Bytes(n)
         /\ Cardinality(UNION R) = 0 => R = {}
<1>1. /\ IsFiniteSet(FilesOf(n)) /\ Cardinality(FilesOf(n)) = Bytes(n) /\ Bytes(n) \in Nat
      /\ \A f \in FilesOf(n) : f[1] = n
  BY FilesOfUnit DEF Types, Bytes
<1>2. \A F \in R : F \subseteq Files /\ F # {} /\ \A f \in F : f[1] # n
  <2>1. \A u \in 1 .. Units : FilesOf(u) \subseteq Files /\ <<u, 1>> \in FilesOf(u)
                              /\ \A f \in FilesOf(u) : f[1] = u
    BY FilesOfUnit DEF Types
  <2>2. ASSUME NEW F \in R PROVE F \subseteq Files /\ F # {} /\ \A f \in F : f[1] # n
    <3>1. PICK u \in 1 .. Units : F = FilesOf(u) /\ u # n
      OBVIOUS
    <3> QED BY <2>1, <3>1
  <2> QED BY <2>2
<1>3. IsFiniteSet(UNION R) /\ Cardinality(UNION R) \in Nat
  <2>1. UNION R \subseteq Files
    BY <1>2
  <2> QED BY <2>1, FilesFinite, PartOf
<1>4. (UNION R) \cap FilesOf(n) = {}
  BY <1>1, <1>2
<1>5. UNION (R \cup {FilesOf(n)}) = (UNION R) \cup FilesOf(n)
  OBVIOUS
<1>6. Cardinality((UNION R) \cup FilesOf(n)) = Cardinality(UNION R) + Cardinality(FilesOf(n))
  <2>1. /\ Cardinality((UNION R) \cup FilesOf(n))
             = Cardinality(UNION R) + Cardinality(FilesOf(n)) - Cardinality((UNION R) \cap FilesOf(n))
    BY <1>1, <1>3, FS_Union
  <2>2. Cardinality((UNION R) \cap FilesOf(n)) = 0
    BY <1>4, FS_EmptySet
  <2> QED BY <1>1, <1>3, <2>1, <2>2
<1>7. Cardinality(UNION R) = 0 => R = {}
  <2>1. Cardinality(UNION R) = 0 => UNION R = {}
    BY <1>3, FS_EmptySet
  <2> QED BY <1>2, <2>1
<1> QED BY <1>1, <1>3, <1>5, <1>6, <1>7

\* Nothing reserved, nothing given back.
LEMMA BytesKept ==
  ASSUME NEW w \in Workers, BytesOf(w), Reserved(w)' = Reserved(w), buffered'[w] = buffered[w]
  PROVE  BytesOf(w)'
BY DEF BytesOf

\* The bytes of a unit are given back.
LEMMA BytesGiven ==
  ASSUME Types, BytesCounted, NEW w \in Workers, NEW n \in 1 .. Units, NEW R,
         \A F \in R : \E u \in 1 .. Units : F = FilesOf(u) /\ u # n,
         Reserved(w) = R \cup {FilesOf(n)}, Reserved(w)' = R, Unreserve(w, n)
  PROVE  BytesOf(w)' /\ buffered'[w] \in Nat
<1> USE PipelineAssumption
<1>1. /\ buffered \in [Workers -> Nat] /\ BytesOf(w)
  BY DEF BytesCounted
<1>2. buffered'[w] = buffered[w] - (IF ByteCap = 0 THEN 0 ELSE Bytes(n))
  BY <1>1 DEF Unreserve, ReleaseBytes
<1>3. /\ Cardinality(UNION R) \in Nat /\ Bytes(n) \in Nat
      /\ Cardinality(UNION Reserved(w)) = Cardinality(UNION R) + Bytes(n)
  BY UnitAdds
<1>4. buffered'[w] = IF ByteCap = 0 THEN 0 ELSE Cardinality(UNION R)
  BY <1>1, <1>2, <1>3 DEF BytesOf
<1>5. buffered'[w] <= buffered[w] /\ buffered[w] \in Nat /\ buffered'[w] \in Nat
  BY <1>1, <1>2, <1>3, <1>4
<1>6. buffered'[w] <= ByteCap \/ \A F, G \in R : F = G
  BY <1>1, <1>5 DEF BytesOf
<1> QED BY <1>4, <1>5, <1>6 DEF BytesOf

\* The bytes of a unit are reserved: within the budget, or where there are none.
LEMMA BytesTaken ==
  ASSUME Types, BytesCounted, NEW w \in Workers, NEW n \in 1 .. Units, NEW R,
         \A F \in R : \E u \in 1 .. Units : F = FilesOf(u) /\ u # n,
         Reserved(w) = R, Reserved(w)' = R \cup {FilesOf(n)},
         IF ByteCap = 0 THEN UNCHANGED buffered
         ELSE Fits(w, n) /\ buffered' = [buffered EXCEPT ![w] = @ + Bytes(n)]
  PROVE  BytesOf(w)' /\ buffered'[w] \in Nat
<1> USE PipelineAssumption
<1>1. /\ buffered \in [Workers -> Nat] /\ BytesOf(w)
  BY DEF BytesCounted
<1>2. /\ Cardinality(UNION R) \in Nat /\ Bytes(n) \in Nat
      /\ Cardinality(UNION (R \cup {FilesOf(n)})) = Cardinality(UNION R) + Bytes(n)
      /\ Cardinality(UNION R) = 0 => R = {}
  BY UnitAdds
<1>3. CASE ByteCap = 0
  BY <1>1, <1>3 DEF BytesOf
<1>4. CASE ByteCap # 0
  <2>1. buffered'[w] = buffered[w] + Bytes(n) /\ buffered[w] = Cardinality(UNION R)
    BY <1>1, <1>4 DEF BytesOf
  <2>2. buffered'[w] <= ByteCap \/ \A F, G \in R \cup {FilesOf(n)} : F = G
    <3>1. CASE buffered[w] = 0
      <4>1. R = {}
        BY <1>2, <2>1, <3>1
      <4> QED BY <4>1
    <3>2. CASE buffered[w] + Bytes(n) <= ByteCap
      BY <2>1, <3>2
    <3> QED BY <1>4, <3>1, <3>2 DEF Fits
  <2>3. Reserved(w)' = R \cup {FilesOf(n)}
    OBVIOUS
  <2> QED BY <1>2, <1>4, <2>1, <2>2, <2>3 DEF BytesOf
<1> QED BY <1>3, <1>4

\* A worker at a unit has only units ahead of it that are others.
LEMMA AheadAreOthers ==
  ASSUME Types, QueuesInOrder, NEW w \in Workers, wpc[w] \in Busy
  PROVE  \A F \in Ahead(w) : \E u \in 1 .. Units : F = FilesOf(u) /\ u # wunit[w]
<1>1. wunit[w] \in Nat /\ QueueHolds(w)
  BY DEF Types, WorkerTypes, QueuesInOrder
<1> QED BY <1>1 DEF QueueHolds, Done

\* What a worker's step reserves and gives back.
LEMMA WorkerCounts ==
  ASSUME Types, InputsInOrder, BodiesFollow, QueuesInOrder, BytesCounted,
         NEW w \in Workers, WorkerStep(w)
  PROVE  BytesOf(w)' /\ buffered' = [buffered EXCEPT ![w] = buffered'[w]] /\ buffered'[w] \in Nat
<1> USE PipelineAssumption
<1>1. [Next]_vars
  BY DEF Next
<1>2. \A u : FilesOf(u)' = FilesOf(u) /\ WorkerOf(u)' = WorkerOf(u)
  BY <1>1, Fixed
<1>3. /\ buffered \in [Workers -> Nat] /\ BytesOf(w) /\ wpc \in [Workers -> {"take", "exited"} \cup Busy]
  BY DEF BytesCounted, Types, WorkerTypes
<1>4. UNCHANGED emitVars
  BY DEF WorkerStep, TakeUnit, WorkerFinishes, WaitForBodies, ReserveBytes, ReserveCancelled,
    Decode, DecodeFails, SendBatch
<1>5. ASSUME queue'[w] = queue[w] PROVE Ahead(w)' = Ahead(w)
  BY <1>2, <1>4, <1>5 DEF Ahead, Queued, InHand, emitVars
<1>6. wpc[w] \in Busy => wunit[w] \in 1 .. Units
  BY DEF Types, WorkerTypes
<1>7. CASE TakeUnit(w) \/ WorkerFinishes(w) \/ WaitForBodies(w) \/ ReserveCancelled(w)
  <2>1. UNCHANGED <<queue, buffered>>
    BY <1>7 DEF TakeUnit, WorkerFinishes, WaitForBodies, ReserveCancelled
  <2>2. wpc[w] \notin {"decode", "send"} /\ wpc'[w] \notin {"decode", "send"}
    BY <1>3, <1>7 DEF TakeUnit, WorkerFinishes, WaitForBodies, ReserveCancelled, Step
  <2>3. Reserved(w)' = Reserved(w)
    BY <1>5, <2>1, <2>2 DEF Reserved
  <2> QED BY <1>3, <2>1, <2>3, BytesKept
<1>8. CASE ReserveBytes(w)
  <2>1. /\ wpc[w] = "reserve" /\ wpc'[w] = "decode" /\ wunit' = wunit /\ queue' = queue
        /\ IF ByteCap = 0 THEN UNCHANGED buffered
           ELSE /\ Fits(w, wunit[w])
                /\ buffered' = [buffered EXCEPT ![w] = @ + Bytes(wunit[w])]
    BY <1>3, <1>8 DEF ReserveBytes, Step
  <2>2. Reserved(w) = Ahead(w) /\ Reserved(w)' = Ahead(w) \cup {FilesOf(wunit[w])}
    BY <1>2, <1>5, <2>1 DEF Reserved
  <2>3. \A F \in Ahead(w) : \E u \in 1 .. Units : F = FilesOf(u) /\ u # wunit[w]
    BY <2>1, AheadAreOthers DEF Busy
  <2>4. wunit[w] \in 1 .. Units
    BY <1>6, <2>1 DEF Busy
  <2>5. BytesOf(w)' /\ buffered'[w] \in Nat
    BY <2>1, <2>2, <2>3, <2>4, BytesTaken
  <2> QED BY <1>3, <2>1, <2>5
<1>9. CASE Decode(w)
  <2>1. /\ wpc[w] = "decode" /\ wpc'[w] = "send" /\ UNCHANGED <<wunit, queue, buffered>>
    BY <1>3, <1>9 DEF Decode, Step
  <2>2. Reserved(w)' = Reserved(w)
    BY <1>2, <1>5, <2>1 DEF Reserved
  <2> QED BY <1>3, <2>1, <2>2, BytesKept
<1>10. ASSUME wpc[w] \in {"decode", "send"}, wpc'[w] = "exited", UNCHANGED <<wunit, queue>>,
              Unreserve(w, wunit[w])
       PROVE  BytesOf(w)' /\ buffered' = [buffered EXCEPT ![w] = buffered'[w]]
              /\ buffered'[w] \in Nat
  <2>1. Reserved(w) = Ahead(w) \cup {FilesOf(wunit[w])} /\ Reserved(w)' = Ahead(w)
    BY <1>5, <1>10 DEF Reserved
  <2>2. \A F \in Ahead(w) : \E u \in 1 .. Units : F = FilesOf(u) /\ u # wunit[w]
    BY <1>10, AheadAreOthers DEF Busy
  <2>3. wunit[w] \in 1 .. Units
    BY <1>6, <1>10 DEF Busy
  <2>4. BytesOf(w)' /\ buffered'[w] \in Nat
    BY <1>10, <2>1, <2>2, <2>3, BytesGiven
  <2> QED BY <1>3, <1>10, <2>4 DEF Unreserve, ReleaseBytes
<1>11. CASE DecodeFails(w)
  <2>1. wpc[w] = "decode" /\ wpc'[w] = "exited" /\ UNCHANGED <<wunit, queue>>
    BY <1>3, <1>11 DEF DecodeFails, Step
  <2>2. Present(wunit[w]) # {}
    <3>1. wunit[w] \in 1 .. Units
      BY <1>6, <2>1 DEF Busy
    <3>2. <<wunit[w], 1>> \in FilesOf(wunit[w])
      BY <3>1, FilesOfUnit DEF Types
    <3> QED BY <2>1, <3>2 DEF BodiesFollow, UnitHeld, Present
  <2>3. Unreserve(w, wunit[w])
    BY <1>11, <2>2 DEF DecodeFails
  <2> QED BY <1>10, <2>1, <2>3
<1>12. CASE SendBatch(w) /\ Len(queue[w]) < QueueCap
  <2>1. /\ wpc[w] = "send" /\ wpc'[w] = "take" /\ UNCHANGED <<wunit, buffered>>
        /\ queue' = [queue EXCEPT ![w] = Append(queue[w], Decoded(wunit[w]))]
    BY <1>3, <1>12 DEF SendBatch, Step, Types, EmitTypes
  <2>2. Decoded(wunit[w]) = FilesOf(wunit[w])
    BY <2>1 DEF BodiesFollow, UnitHeld, Decoded
  <2>3. queue'[w] = Append(queue[w], FilesOf(wunit[w])) /\ queue[w] \in Seq(SUBSET Files)
    BY <2>1, <2>2 DEF Types, EmitTypes
  <2>4. Queued(w)' = Queued(w) \cup {FilesOf(wunit[w])}
    BY <2>3, AppendRange DEF Queued
  <2>5. InHand(w)' = InHand(w)
    BY <1>2, <1>4 DEF InHand, emitVars
  <2>6. Reserved(w)' = Reserved(w)
    BY <2>1, <2>4, <2>5 DEF Reserved, Ahead
  <2> QED BY <1>3, <2>1, <2>6, BytesKept
<1>13. CASE SendBatch(w) /\ ~ (Len(queue[w]) < QueueCap)
  BY <1>3, <1>10, <1>13 DEF SendBatch, Step
<1> QED BY <1>7, <1>8, <1>9, <1>11, <1>12, <1>13 DEF WorkerStep

\* What the consumer is done with is given back.
LEMMA EmitCounts ==
  ASSUME Types, QueuesInOrder, BytesCounted, EmitOne, NEW w \in Workers, w = WorkerOf(epos)
  PROVE  BytesOf(w)' /\ buffered'[w] \in Nat
<1> DEFINE R == Queued(w) \cup (IF wpc[w] \in {"decode", "send"} THEN {FilesOf(wunit[w])} ELSE {})
<1>1. [Next]_vars
  BY DEF Next, EmitStep
<1>2. \A u : FilesOf(u)' = FilesOf(u) /\ WorkerOf(u)' = WorkerOf(u)
  BY <1>1, Fixed
<1>3. /\ epc = "emit" /\ epos \in 1 .. Units /\ item = FilesOf(epos) /\ result = "open"
      /\ QueueHolds(w) /\ QueueNext(w)
  BY DEF EmitOne, QueuesInOrder, EmitsInOrder, Types, EmitTypes
<1>4. UNCHANGED <<queue, wpc, wunit>> /\ epc' # "emit" /\ Unreserve(w, epos)
  BY DEF EmitOne, CloseWith, workVars
<1>5. Reserved(w) = R \cup {FilesOf(epos)} /\ Reserved(w)' = R
  <2>1. InHand(w) = {FilesOf(epos)} /\ InHand(w)' = {} /\ Queued(w)' = Queued(w)
    BY <1>3, <1>4 DEF InHand, Queued
  <2> QED BY <1>2, <1>4, <2>1 DEF Reserved, Ahead
<1>6. \A u \in 1 .. Units : <<u, 1>> \in FilesOf(u) /\ \A f \in FilesOf(u) : f[1] = u
  BY FilesOfUnit DEF Types
<1>7. ASSUME NEW F \in Queued(w) PROVE \E u \in 1 .. Units : F = FilesOf(u) /\ u # epos
  <2>1. PICK u \in 1 .. Units : F = FilesOf(u)
    BY <1>3 DEF QueueHolds, Ahead
  <2>2. epos + 1 <= <<u, 1>>[1]
    BY <1>3, <1>6, <2>1 DEF QueueNext, NextReceived
  <2>3. u # epos
    BY <1>3, <2>2
  <2> QED BY <2>1, <2>3
<1>8. ASSUME wpc[w] \in {"decode", "send"} PROVE wunit[w] \in 1 .. Units /\ wunit[w] # epos
  <2>1. wunit[w] \in 1 .. Units
    BY <1>8 DEF Types, WorkerTypes, Busy
  <2>2. FilesOf(epos) \in Ahead(w)
    BY <1>3 DEF Ahead, InHand
  <2>3. PICK u \in 1 .. Units : FilesOf(epos) = FilesOf(u) /\ Done(w, u)
    BY <1>3, <2>2 DEF QueueHolds
  <2>4. <<u, 1>>[1] = epos
    BY <1>3, <1>6, <2>3
  <2>5. u < wunit[w] /\ u = epos
    BY <1>8, <2>3, <2>4 DEF Done, Busy
  <2> QED BY <1>3, <2>1, <2>5
<1>9. \A F \in R : \E u \in 1 .. Units : F = FilesOf(u) /\ u # epos
  BY <1>7, <1>8
<1> HIDE DEF R
<1> QED BY <1>3, <1>4, <1>5, <1>9, BytesGiven

\* Every worker stays within its budget.
LEMMA BytesCountedStep ==
  ASSUME Types, InputsInOrder, BodiesFollow, QueuesInOrder, BytesCounted, [Next]_vars
  PROVE  BytesCounted'
<1>1. Workers' = Workers /\ \A u : FilesOf(u)' = FilesOf(u) /\ WorkerOf(u)' = WorkerOf(u)
  BY Fixed
<1>2. buffered \in [Workers -> Nat] /\ \A w \in Workers : BytesOf(w)
  BY DEF BytesCounted
<1>3. ASSUME NEW v \in Workers, wpc'[v] = wpc[v], wunit'[v] = wunit[v], Ahead(v)' = Ahead(v),
             buffered'[v] = buffered[v]
      PROVE  BytesOf(v)'
  <2>1. Reserved(v)' = Reserved(v)
    BY <1>1, <1>3 DEF Reserved
  <2> QED BY <1>2, <1>3, <2>1, BytesKept
<1>4. ASSUME NEW v \in Workers, queue'[v] = queue[v], UNCHANGED <<epc, epos, item>>
      PROVE  Ahead(v)' = Ahead(v)
  BY <1>1, <1>4 DEF Ahead, Queued, InHand
<1>5. ASSUME UNCHANGED <<queue, wpc, wunit, buffered, epc, epos, item>> PROVE BytesCounted'
  BY <1>1, <1>2, <1>3, <1>4, <1>5 DEF BytesCounted
<1>6. CASE FetcherStep \/ SourceStops \/ CallerCancels \/ UNCHANGED vars
  BY <1>5, <1>6 DEF FetcherStep, AcquireSlot, SubmitTask, HandOver, FetcherStops, FetcherCloses,
    SourceStops, CallerCancels, workVars, emitVars, vars
<1>7. ASSUME NEW f \in Files, TaskStep(f) PROVE BytesCounted'
  BY <1>5, <1>7 DEF TaskStep, GetSucceeds, GetFails, MarkFailed, TaskEnds, workVars, emitVars
<1>8. ASSUME NEW w \in Workers, WorkerStep(w) PROVE BytesCounted'
  <2>1. BytesOf(w)' /\ buffered' = [buffered EXCEPT ![w] = buffered'[w]] /\ buffered'[w] \in Nat
    BY <1>8, WorkerCounts
  <2>2. UNCHANGED emitVars /\ \A v \in Workers \ {w} : queue'[v] = queue[v]
    BY <1>8 DEF WorkerStep, TakeUnit, WorkerFinishes, WaitForBodies, ReserveBytes,
      ReserveCancelled, Decode, DecodeFails, SendBatch, Types, EmitTypes
  <2>3. \A v \in Workers \ {w} : wpc'[v] = wpc[v] /\ wunit'[v] = wunit[v]
    BY <1>8, WorkerMoves DEF InputsInOrder
  <2>4. \A v \in Workers \ {w} : BytesOf(v)'
    BY <1>2, <1>3, <1>4, <2>1, <2>2, <2>3 DEF emitVars
  <2>5. buffered' \in [Workers -> Nat]
    BY <1>2, <2>1
  <2> QED BY <1>1, <2>1, <2>4, <2>5 DEF BytesCounted
<1>9. CASE Receive
  <2>0. PICK w \in Workers : w = WorkerOf(epos)
    <3> WorkerOf(epos) \in Workers
      BY OwnUnits DEF Types, EmitTypes
    <3> QED OBVIOUS
  <2>1. epc = "receive" /\ queue[w] # << >>
    BY <1>9, <2>0 DEF Receive
  <2>2. /\ queue' = [queue EXCEPT ![w] = Tail(queue[w])] /\ epc' = "emit"
        /\ item' = Head(queue[w]) /\ UNCHANGED <<epos, wpc, wunit, buffered>>
    BY <1>9, <2>0 DEF Receive, workVars
  <2>3. WorkerOf(epos)' = w
    BY <1>1, <2>0, <2>2
  <2>4. ASSUME NEW v \in Workers PROVE Ahead(v)' = Ahead(v)
    <3>1. CASE v # w
      <4>1. queue'[v] = queue[v]
        BY <2>2, <3>1 DEF Types, EmitTypes
      <4>2. InHand(v)' = {} /\ InHand(v) = {}
        BY <2>1, <2>3, <3>1 DEF InHand
      <4> QED BY <4>1, <4>2 DEF Ahead, Queued
    <3>2. CASE v = w
      <4>1. queue[w] \in Seq(SUBSET Files) /\ queue'[w] = Tail(queue[w])
        BY <2>1, <2>2 DEF Types, EmitTypes
      <4>2. Queued(w) = {Head(queue[w])} \cup Queued(w)'
        BY <2>1, <4>1, TailRange DEF Queued
      <4>3. InHand(w)' = {Head(queue[w])} /\ InHand(w) = {}
        BY <2>1, <2>2, <2>3 DEF InHand
      <4> QED BY <3>2, <4>2, <4>3 DEF Ahead
    <3> QED BY <3>1, <3>2
  <2> QED BY <1>1, <1>2, <1>3, <2>2, <2>4 DEF BytesCounted
<1>10. CASE EmitOne
  <2>1. PICK w \in Workers : w = WorkerOf(epos)
    <3> WorkerOf(epos) \in Workers
      BY OwnUnits DEF Types, EmitTypes
    <3> QED OBVIOUS
  <2>2. BytesOf(w)' /\ buffered'[w] \in Nat
    BY <1>10, <2>1, EmitCounts
  <2>3. /\ buffered' = [buffered EXCEPT ![w] = buffered'[w]]
        /\ UNCHANGED <<queue, wpc, wunit>> /\ epc' # "emit"
    BY <1>2, <1>10, <2>1 DEF EmitOne, Unreserve, ReleaseBytes, CloseWith, workVars
  <2>4. ASSUME NEW v \in Workers, v # w PROVE BytesOf(v)'
    <3>1. buffered'[v] = buffered[v]
      BY <1>2, <2>3, <2>4
    <3>2. InHand(v)' = {} /\ InHand(v) = {} /\ Queued(v)' = Queued(v)
      BY <2>1, <2>3, <2>4 DEF InHand, Queued
    <3>3. Ahead(v)' = Ahead(v)
      BY <3>2 DEF Ahead
    <3> QED BY <1>3, <2>3, <3>1, <3>3
  <2>5. buffered' \in [Workers -> Nat]
    BY <1>2, <2>2, <2>3
  <2> QED BY <1>1, <2>2, <2>4, <2>5 DEF BytesCounted
<1>11. CASE EmitEnds \/ EmitAborts \/ Return
  <2>1. UNCHANGED <<queue, wpc, wunit, buffered>> /\ epc # "emit" /\ epc' # "emit"
    BY <1>11 DEF EmitEnds, EmitAborts, Return, CloseWith, workVars
  <2>2. \A v \in Workers : Ahead(v)' = Ahead(v)
    BY <2>1 DEF Ahead, Queued, InHand
  <2> QED BY <1>1, <1>2, <1>3, <2>1, <2>2 DEF BytesCounted
<1> QED BY <1>6, <1>7, <1>8, <1>9, <1>10, <1>11 DEF Next, EmitStep

-----------------------------------------------------------------------------
(* The invariant, and what follows from it.                                *)

\* A call starts in the types,
LEMMA InitTypes ==
  ASSUME Init
  PROVE  Types
<1> USE PipelineAssumption
<1>1. CallTypes
  <2>1. \A u \in 1 .. Units : shape[u] \in 1 .. MaxFiles /\ (~Read => shape[u] = 1)
    BY DEF Init
  <2> QED BY <2>1 DEF Init, CallTypes
<1>2. FetcherTypes
  <2>1. SlotCap \in Nat \ {0}
    BY <1>1, SlotCapType
  <2>2. <<1, 1>> \in Files /\ 1 \in 1 .. Units
    BY DEF Files
  <2>3. <<1, 1>> \in FilesOf(1)
    BY <1>1, <2>2 DEF FilesOf, CallTypes
  <2> QED BY <2>1, <2>2, <2>3 DEF Init, FetcherTypes, Closed
<1>3. TaskTypes
  BY DEF Init, TaskTypes
<1>4. WorkerTypes
  BY DEF Init, WorkerTypes, Busy
<1>5. EmitTypes
  BY DEF Init, EmitTypes
<1> QED BY <1>1, <1>2, <1>3, <1>4, <1>5 DEF Types

\* and in all layers.
LEMMA InitInv ==
  ASSUME Init
  PROVE  IInv
<1> USE PipelineAssumption
<1>1. Types
  BY InitTypes
<1>2. CauseFirst
  BY DEF Init, CauseFirst, Marked
<1>3. InputsInOrder
  <2>1. ~Exhausted /\ NextUnit = 1 /\ fpc = "next"
    BY DEF Init, Exhausted, NextUnit
  <2>2. ASSUME NEW w \in Workers PROVE TakesInOrder(w)
    <3>1. input[w] = << >> /\ wunit[w] = 0 /\ wpc[w] = "take"
      BY DEF Init
    <3>2. \A u : ~ HasInput(w, u)
      BY <3>1 DEF HasInput
    <3> QED BY <2>1, <3>1, <3>2 DEF TakesInOrder
  <2> QED BY <2>1, <2>2 DEF InputsInOrder, Closed
<1>4. BodiesFollow
  <2>1. FilesAhead
    BY DEF Init, FilesAhead
  <2>2. \A f \in Files : BodyFollows(f)
    BY DEF Init, BodyFollows
  <2>3. \A w \in Workers : UnitHeld(w)
    BY DEF Init, UnitHeld
  <2> QED BY <2>1, <2>2, <2>3 DEF BodiesFollow
<1>5. SlotsCover
  <2>1. InUse = {}
    BY DEF Init, InUse
  <2> QED BY <2>1, FS_EmptySet DEF Init, SlotsCover
<1>6. \A w \in Workers : Queued(w) = {} /\ Ahead(w) = {} /\ Reserved(w) = {}
  BY DEF Init, Queued, Ahead, InHand, Reserved
<1>7. QueuesInOrder
  <2>1. EmitsInOrder
    BY DEF Init, EmitsInOrder
  <2>2. ASSUME NEW w \in Workers PROVE QueueHolds(w) /\ QueueSorted(w) /\ QueueNext(w)
    <3>1. queue[w] = << >> /\ wunit[w] = 0 /\ NextReceived = 1
      BY DEF Init, NextReceived
    <3>2. \A u \in 1 .. Units : ~ SentBy(w, u)
      BY <3>1 DEF SentBy
    <3> QED BY <1>6, <3>1, <3>2 DEF QueueHolds, QueueSorted, QueueNext
  <2> QED BY <2>1, <2>2 DEF QueuesInOrder
<1>8. BytesCounted
  <2>1. Cardinality(UNION {}) = 0
    <3> UNION {} = {}
      OBVIOUS
    <3> QED BY FS_EmptySet
  <2>2. ASSUME NEW w \in Workers PROVE BytesOf(w)
    <3>1. buffered[w] = 0
      BY DEF Init
    <3> QED BY <1>6, <2>1, <3>1 DEF BytesOf
  <2> QED BY <2>2 DEF Init, BytesCounted
<1> QED BY <1>1, <1>2, <1>3, <1>4, <1>5, <1>7, <1>8 DEF IInv

\* Every layer is kept.
LEMMA InvStep ==
  ASSUME CtxLikeErrors = FALSE, IInv, [Next]_vars
  PROVE  IInv'
<1>1. /\ Types /\ CauseFirst /\ InputsInOrder /\ BodiesFollow /\ SlotsCover /\ QueuesInOrder
      /\ BytesCounted
  BY DEF IInv
<1>2. Types' /\ CauseFirst' /\ InputsInOrder'
  BY <1>1, TypesStep, CauseFirstStep, InputsInOrderStep
<1>3. BodiesFollow' /\ SlotsCover'
  BY <1>1, BodiesFollowStep, SlotsCoverStep DEF BodiesFollow, HeldOrRead
<1>4. QueuesInOrder' /\ BytesCounted'
  BY <1>1, QueuesInOrderStep, BytesCountedStep
<1> QED BY <1>2, <1>3, <1>4 DEF IInv

\* If no GET fails with a context error while state.ctx is alive, the layers
\* hold in every state of every call.
THEOREM PipelineInvariant ==
  ASSUME CtxLikeErrors = FALSE
  PROVE  Spec => []IInv
<1>1. Init => IInv
  BY InitInv
<1>2. IInv /\ [Next]_vars => IInv'
  BY InvStep
<1> QED BY <1>1, <1>2, PTL DEF Spec

\* The variables stay in their types: slots between none and the bound, queues
\* within their capacity, and no byte count below zero.
THEOREM PipelineTypes ==
  ASSUME CtxLikeErrors = FALSE
  PROVE  Spec => []TypeOK
<1>1. IInv => TypeOK
  <2> SUFFICES ASSUME IInv PROVE TypeOK
    OBVIOUS
  <2>1. Types /\ buffered \in [Workers -> Nat] /\ epos <= Units + 1
    BY DEF IInv, BytesCounted, QueuesInOrder, EmitsInOrder
  <2>2. epos \in 1 .. Units + 1
    BY <2>1, PipelineAssumption DEF Types, EmitTypes
  <2> QED BY <2>1, <2>2 DEF Types, CallTypes, FetcherTypes, TaskTypes, WorkerTypes, EmitTypes,
        TypeOK, Closed, Busy
<1> QED BY <1>1, PipelineInvariant, PTL

\* Every call is a read where there are no polls.
LEMMA OnlyReads ==
  ASSUME "poll" \notin Kinds, Types
  PROVE  Read
BY PipelineAssumption DEF Types, CallTypes, Read

\* The layers that a read keeps whatever its errors look like.
LEMMA ReadInvStep ==
  ASSUME ReadInv, [Next]_vars
  PROVE  ReadInv'
<1>1. /\ Read /\ Types /\ (\A w \in Workers : TakesInOrder(w)) /\ FilesAhead
      /\ (\A f \in Files : BodyFollows(f)) /\ SlotsCover /\ HeldOrRead
  BY DEF ReadInv, HeldOrRead
<1>2. Types' /\ Read' /\ Workers' = Workers
  BY <1>1, TypesStep, Fixed
<1>3. \A w \in Workers : TakesInOrder(w)'
  BY <1>1, ReadTakesInOrder
<1>4. FilesAhead'
  BY <1>1, FilesAheadStep
<1>5. \A f \in Files : BodyFollows(f)'
  BY <1>1, BodyFollowsStep
<1>6. SlotsCover'
  BY <1>1, SlotsCoverStep
<1>7. Files' = Files
  BY DEF Files
<1> QED BY <1>2, <1>3, <1>4, <1>5, <1>6, <1>7 DEF ReadInv

\* Compressed bodies, and the downloads that will become some, never exceed the
\* body slots that are held, whatever fails and whenever the call is cancelled.
\* In a read that is so whatever the errors look like: its decoder skips a body
\* that is missing, and only gives back the slots of those that are there.
THEOREM BodiesAreBounded ==
  ASSUME CtxLikeErrors = FALSE \/ "poll" \notin Kinds
  PROVE  Spec => []BodiesBounded
<1>1. ASSUME Types, SlotsCover PROVE BodiesBounded
  <2>1. IsFiniteSet(InUse) /\ Cardinality(InUse) \in Nat
    <3> InUse \subseteq Files
      BY DEF InUse
    <3> QED BY FilesFinite, PartOf
  <2> QED BY <1>1, <2>1 DEF SlotsCover, BodiesBounded, InUse, Types, FetcherTypes
<1>2. CASE CtxLikeErrors = FALSE
  <2>1. IInv => BodiesBounded
    BY <1>1 DEF IInv
  <2>2. Spec => []IInv
    BY <1>2, PipelineInvariant
  <2> QED BY <2>1, <2>2, PTL
<1>3. CASE "poll" \notin Kinds
  <2>1. Init => ReadInv
    <3> SUFFICES ASSUME Init PROVE ReadInv
      OBVIOUS
    <3>1. IInv
      BY InitInv
    <3> QED BY <1>3, <3>1, OnlyReads DEF ReadInv, IInv, InputsInOrder, BodiesFollow
  <2>2. ReadInv /\ [Next]_vars => ReadInv'
    BY ReadInvStep
  <2>3. ReadInv => BodiesBounded
    BY <1>1 DEF ReadInv
  <2> QED BY <2>1, <2>2, <2>3, PTL DEF Spec
<1> QED BY <1>2, <1>3

\* What a worker has decoded, and the consumer is not done with, stays within
\* WithDecodeAheadBytes, or is one unit that is larger than the budget.
THEOREM BudgetsHold ==
  ASSUME CtxLikeErrors = FALSE
  PROVE  Spec => []BudgetHolds
<1> USE PipelineAssumption
<1>1. IInv => BudgetHolds
  <2> SUFFICES ASSUME IInv, ByteCap # 0, NEW w \in Workers
               PROVE  \/ Cardinality(UNION DecodedAhead(w)) <= ByteCap
                      \/ Cardinality(DecodedAhead(w)) <= 1
    BY DEF BudgetHolds
  <2>1. Types /\ UnitHeld(w) /\ QueueHolds(w) /\ BytesOf(w) /\ buffered \in [Workers -> Nat]
    BY DEF IInv, BodiesFollow, QueuesInOrder, BytesCounted
  <2>2. DecodedAhead(w) \subseteq Reserved(w)
    <3>1. wpc[w] = "send" => Decoded(wunit[w]) = FilesOf(wunit[w])
      BY <2>1 DEF UnitHeld, Decoded
    <3> QED BY <3>1 DEF DecodedAhead, Reserved, Ahead, Queued, InHand
  <2>3. UNION Reserved(w) \subseteq Files
    <3>1. \A F \in Ahead(w) : F \subseteq Files
      BY <2>1 DEF QueueHolds, FilesOf
    <3>2. FilesOf(wunit[w]) \subseteq Files
      BY DEF FilesOf
    <3> QED BY <3>1, <3>2 DEF Reserved
  <2>4. CASE buffered[w] <= ByteCap
    <3>1. IsFiniteSet(UNION Reserved(w)) /\ Cardinality(UNION Reserved(w)) \in Nat
      BY <2>3, FilesFinite, PartOf
    <3>2. UNION DecodedAhead(w) \subseteq UNION Reserved(w)
      BY <2>2
    <3>3. /\ Cardinality(UNION DecodedAhead(w)) <= Cardinality(UNION Reserved(w))
          /\ Cardinality(UNION DecodedAhead(w)) \in Nat
      BY <3>1, <3>2, PartOf
    <3>4. Cardinality(UNION Reserved(w)) <= ByteCap
      BY <2>1, <2>4 DEF BytesOf
    <3> QED BY <3>1, <3>3, <3>4
  <2>5. CASE \A F, G \in Reserved(w) : F = G
    <3>1. CASE DecodedAhead(w) = {}
      BY <3>1, FS_EmptySet
    <3>2. CASE DecodedAhead(w) # {}
      <4>1. PICK F \in DecodedAhead(w) : TRUE
        BY <3>2
      <4>2. DecodedAhead(w) = {F}
        BY <2>2, <2>5, <4>1
      <4>3. Cardinality({F}) = 1
        BY FS_Singleton
      <4> QED BY <4>2, <4>3
    <3> QED BY <3>1, <3>2
  <2> QED BY <2>1, <2>4, <2>5 DEF BytesOf
<1> QED BY <1>1, PipelineInvariant, PTL

-----------------------------------------------------------------------------
(* The pipeline implements RecordStream.                                   *)

\* A loop that ends without an error has delivered the last unit: read counts
\* to it, and poll sees the queue of a worker that left with nothing to send.
LEMMA EndsBehindLast ==
  ASSUME IInv, EmitEnds
  PROVE  epos = Units + 1
<1> USE PipelineAssumption
<1>1. Types /\ InputsInOrder /\ QueuesInOrder
  BY DEF IInv
<1>2. epos \in Nat \ {0} /\ epos <= Units + 1 /\ result = "open" /\ epc = "receive" /\ Alive
  BY <1>1 DEF Types, EmitTypes, QueuesInOrder, EmitsInOrder, EmitEnds
<1>3. CASE Read
  <2>1. epos > Units
    BY <1>3 DEF EmitEnds
  <2> QED BY <1>2, <2>1
<1>4. CASE ~Read /\ epos <= Units
  <2>1. PICK w \in Workers : w = WorkerOf(epos)
    <3> WorkerOf(epos) \in Workers
      BY <1>1, <1>2, OwnUnits
    <3> QED OBVIOUS
  <2>2. queue[w] = << >> /\ wpc[w] = "exited"
    BY <1>4, <2>1 DEF EmitEnds
  <2>3. epos \in 1 .. Units /\ Own(w, epos) /\ wunit[w] \in Nat
    BY <1>1, <1>2, <1>4, <2>1 DEF Own, Types, WorkerTypes
  <2>4. epos <= wunit[w]
    BY <1>1, <1>2, <2>2, <2>3 DEF InputsInOrder, TakesInOrder
  <2>5. SentBy(w, epos)
    BY <1>2, <2>2, <2>3, <2>4 DEF SentBy, Sent
  <2>6. FilesOf(epos) \in Queued(w)
    <3>1. QueueNext(w) /\ NextReceived = epos
      BY <1>1, <1>2 DEF QueuesInOrder, NextReceived
    <3> QED BY <1>2, <2>3, <2>5, <3>1 DEF QueueNext
  <2>7. Queued(w) = {}
    BY <2>2 DEF Queued
  <2> QED BY <2>6, <2>7
<1> QED BY <1>2, <1>3, <1>4

\* A step of the pipeline is a step of the stream, or none.
LEMMA StreamStep ==
  ASSUME IInv, [Next]_vars
  PROVE  [Stream!Next]_(Stream!vars)
<1> USE PipelineAssumption
<1> DEFINE content == [u \in 1 .. Units |-> FilesOf(u)]
<1>1. content' = content
  BY Fixed
<1>2. Types /\ EmitsInOrder
  BY DEF IInv, QueuesInOrder
<1>3. /\ Len(content) = Units /\ \A u \in 1 .. Units : content[u] = FilesOf(u)
      /\ content \in Seq(SUBSET Files)
  <2>1. \A u \in 1 .. Units : FilesOf(u) \in SUBSET Files
    BY DEF FilesOf
  <2> QED BY <2>1
<1> HIDE DEF content
<1>4. ASSUME UNCHANGED <<delivered, result>> PROVE UNCHANGED Stream!vars
  BY <1>1, <1>4 DEF Stream!vars, content
<1>5. ASSUME result = "open", epos = Units + 1 PROVE delivered = content
  <2>1. /\ delivered \in Seq(SUBSET Files) /\ Len(delivered) = Units
        /\ \A i \in 1 .. Units : delivered[i] = FilesOf(i)
    BY <1>2, <1>5 DEF Types, EmitTypes, EmitsInOrder
  <2> QED BY <1>3, <2>1
<1>6. CASE EmitOne
  <2>1. /\ epos \in 1 .. Units /\ item = FilesOf(epos) /\ result = "open"
        /\ Len(delivered) = epos - 1
    BY <1>2, <1>6 DEF EmitOne, EmitsInOrder, Types, EmitTypes
  <2>2. /\ Len(delivered) < Len(content) /\ delivered' = Append(delivered, content[Len(delivered) + 1])
    BY <1>3, <1>6, <2>1 DEF EmitOne, Yield
  <2>3. result' = result \/ result' = "broke"
    BY <1>6 DEF EmitOne, CloseWith
  <2>4. Stream!Deliver \/ Stream!Break
    BY <1>1, <2>1, <2>2, <2>3 DEF Stream!Deliver, Stream!Break, content
  <2> QED BY <2>4 DEF Stream!Next
<1>7. CASE EmitEnds \/ EmitAborts
  <2>1. result = "open" /\ delivered' = delivered
    BY <1>2, <1>7 DEF EmitEnds, EmitAborts, EmitsInOrder
  <2>2. \/ delivered = content /\ result' = "end"
        \/ result' \in Causes
    <3>1. CASE EmitEnds
      BY <1>5, <2>1, <3>1, EndsBehindLast DEF EmitEnds, CloseWith
    <3>2. CASE EmitAborts /\ Read /\ epos > Units
      <4>1. epos = Units + 1
        BY <1>2, <3>2 DEF Types, EmitTypes, EmitsInOrder
      <4> QED BY <1>5, <2>1, <3>2, <4>1 DEF EmitAborts, CloseWith
    <3>3. CASE EmitAborts /\ ~ (Read /\ epos > Units)
      BY <1>2, <3>3 DEF EmitAborts, CloseWith, Alive, Types, CallTypes
    <3> QED BY <1>7, <3>1, <3>2, <3>3
  <2>3. Stream!Close
    BY <1>1, <2>1, <2>2 DEF Stream!Close, content
  <2> QED BY <2>3 DEF Stream!Next
<1>8. CASE \/ FetcherStep \/ SourceStops \/ Receive \/ Return \/ CallerCancels \/ UNCHANGED vars
  BY <1>4, <1>8 DEF FetcherStep, AcquireSlot, SubmitTask, HandOver, FetcherStops, FetcherCloses,
    SourceStops, Receive, Return, CallerCancels, emitVars, vars
<1>9. ASSUME NEW f \in Files, TaskStep(f) PROVE UNCHANGED Stream!vars
  BY <1>4, <1>9 DEF TaskStep, GetSucceeds, GetFails, MarkFailed, TaskEnds, emitVars
<1>10. ASSUME NEW w \in Workers, WorkerStep(w) PROVE UNCHANGED Stream!vars
  BY <1>4, <1>10 DEF WorkerStep, TakeUnit, WorkerFinishes, WaitForBodies, ReserveBytes,
    ReserveCancelled, Decode, DecodeFails, SendBatch, emitVars
<1> QED BY <1>6, <1>7, <1>8, <1>9, <1>10 DEF Next, EmitStep

\* The consumer of either pipeline sees RecordStream: the units in order, each
\* one whole, and no end without an error before the last of them.
THEOREM PipelineIsStream ==
  ASSUME CtxLikeErrors = FALSE
  PROVE  Spec => StreamsWhole
<1>1. Init => Stream!Init
  BY DEF Init, Stream!Init
<1>2. IInv /\ [Next]_vars => [Stream!Next]_(Stream!vars)
  BY StreamStep
<1> QED BY <1>1, <1>2, PipelineInvariant, PTL DEF Spec, StreamsWhole, Stream!Spec

=============================================================================
