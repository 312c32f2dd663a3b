---------------------------- MODULE VersionedLog ----------------------------
(***************************************************************************)
(* What the write path promises a caller, without transactions, locks, S3  *)
(* or failures: each partition is a log, a write appends one entry to it   *)
(* in one atomic step, and its position is the version of the write.       *)
(*   - A write that expects version N is appended only as entry N + 1.     *)
(*   - A token occurs at most once in a partition's log; a call with a     *)
(*     token that is in the log is answered with the entry that has it.    *)
(*   - A call may be left without an answer whether its entry is in the    *)
(*     log or not.                                                         *)
(***************************************************************************)
EXTENDS Integers, Sequences

CONSTANTS Partitions, Tokens, NoToken, Expected, NoExpect

VARIABLES
  log,      \* for each partition, the token of each entry, in version order
  answers   \* the calls answered, with the version they were told

vars == <<log, answers>>

Ops == [part : Partitions, token : Tokens \cup {NoToken},
        expect : Expected \cup {NoExpect}]

HasToken(p, t, i) == i \in 1 .. Len(log[p]) /\ log[p][i] = t /\ t # NoToken

Answer(o, v) == answers' = answers \cup {[op |-> o, version |-> v]}

Init ==
  /\ log = [p \in Partitions |-> << >>]
  /\ answers = {}

\* The one step in which a write happens, seen by its caller or not.
Append1(o) ==
  LET p == o.part IN
    /\ o.expect \in {NoExpect, Len(log[p])}
    /\ \A i \in 1 .. Len(log[p]) : ~HasToken(p, o.token, i)
    /\ log' = [log EXCEPT ![p] = Append(@, o.token)]
    /\ Answer(o, Len(log[p]) + 1) \/ UNCHANGED answers

\* A retry is told the version of the original.
AnswerAgain(o) ==
  \E i \in 1 .. Len(log[o.part]) :
    /\ HasToken(o.part, o.token, i)
    /\ Answer(o, i)
    /\ UNCHANGED log

Next == \E o \in Ops : Append1(o) \/ AnswerAgain(o)

Spec == Init /\ [][Next]_vars

=============================================================================
