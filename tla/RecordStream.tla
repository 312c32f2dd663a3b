---------------------------- MODULE RecordStream ----------------------------
(***************************************************************************)
(* What a read promises its consumer, without workers, buffers or          *)
(* cancellation: the units of the result (partitions of Read, files of     *)
(* PollRecords) arrive one by one, in order and whole, until the stream    *)
(* closes.  It closes without an error only behind the last unit.          *)
(***************************************************************************)
EXTENDS Naturals, Sequences

CONSTANT Incomplete     \* the closings that leave units undelivered

VARIABLES
  content,      \* the units of the result, in order, each a set of files
  out,          \* what the consumer has been handed
  closing       \* "open", "end", or why the stream stopped short

vars == <<content, out, closing>>

Init == out = << >> /\ closing = "open"

Deliver ==
  /\ closing = "open"
  /\ Len(out) < Len(content)
  /\ out' = Append(out, content[Len(out) + 1])
  /\ UNCHANGED <<content, closing>>

Close ==
  /\ closing = "open"
  /\ \/ out = content /\ closing' = "end"
     \/ closing' \in Incomplete
  /\ UNCHANGED <<content, out>>

\* The consumer leaves the loop while it holds a unit.
Break ==
  /\ closing = "open" /\ Len(out) < Len(content)
  /\ out' = Append(out, content[Len(out) + 1])
  /\ closing' = "broke"
  /\ UNCHANGED content

Next == Deliver \/ Close \/ Break

Spec == Init /\ [][Next]_vars

=============================================================================
