---------------------------- MODULE BlockPipeline ----------------------------
(***************************************************************************)
(* What the live pipeline promises between the subscriber's send and the   *)
(* database (processor/collector.go with the channel of emitBlockEvents):  *)
(* batches of events are stored in the order in which they were sent, from *)
(* the first one on, in transactions that each hold one or more batches of *)
(* one height; until it ends.  How they are gathered, when they are        *)
(* flushed and what ends it is left to the module Collector.               *)
(***************************************************************************)
EXTENDS Integers, Sequences

CONSTANT Heights    \* heights of the batches

VARIABLES
  sent,             \* batches the subscriber has sent
  stored,           \* batches in the database
  ended             \* the collector has returned

Init == sent = <<>> /\ stored = <<>> /\ ended = FALSE

Send == \E h \in Heights : sent' = Append(sent, h) /\ UNCHANGED <<stored, ended>>

\* one transaction; that of the final flush is the last thing done
Store ==
  /\ ~ended
  /\ \E n \in Len(stored) + 1..Len(sent) :
       /\ \A i, j \in Len(stored) + 1..n : sent[i] = sent[j]
       /\ stored' = SubSeq(sent, 1, n)
  /\ ended' \in BOOLEAN
  /\ UNCHANGED sent

End == ~ended /\ ended' = TRUE /\ UNCHANGED <<sent, stored>>

Next == Send \/ Store \/ End

Spec == Init /\ [][Next]_<<sent, stored, ended>>

=============================================================================
