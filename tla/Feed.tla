-------------------------------- MODULE Feed --------------------------------
(***************************************************************************)
(* What the sequencer promises the readers of the feed: one log of files,  *)
(* written only at its end.  A reader that has consumed the log up to some *)
(* offset has seen every file that will ever be there: later extensions    *)
(* lie above, nothing is moved, and no offset is skipped.                  *)
(***************************************************************************)
EXTENDS Integers, Sequences, FiniteSets

CONSTANT FileIds

VARIABLES
  ready,    \* files whose write has committed
  log       \* the feed: the i-th element is the file at offset i

vars == <<ready, log>>

Logged == {log[i] : i \in 1 .. Len(log)}

Init == ready = {} /\ log = << >>

Publish(f) ==
  /\ f \notin ready
  /\ ready' = ready \cup {f}
  /\ UNCHANGED log

\* Some ready files that are not in the log yet go to its end, each once.
Extend ==
  LET waiting == ready \ Logged IN
    \E n \in 1 .. Cardinality(waiting) :
      \E batch \in [1 .. n -> waiting] :
        /\ \A i, j \in 1 .. n : i # j => batch[i] # batch[j]
        /\ log' = log \o batch
        /\ UNCHANGED ready

Next == (\E f \in FileIds : Publish(f)) \/ Extend

Spec == Init /\ [][Next]_vars

=============================================================================
