----------------------------- MODULE MetricLog -----------------------------
(***************************************************************************)
(* What the metrics store promises: every bucket (one metric key, one      *)
(* minute, of one transformer) is a log of readings.  A reading is added   *)
(* at the end, whole or not at all; nothing is rewritten; everything goes  *)
(* when the transformer is deleted.                                        *)
(***************************************************************************)
EXTENDS Naturals, Sequences

CONSTANTS
  Bucket,
  Value,
  MaxCount   \* Int.MAX_VALUE in the program

VARIABLE log

TypeOK == log \in [Bucket -> Seq(Value)]

Init == log \in [Bucket -> {<<>>}]

Record(b, v) ==
  /\ Len(log[b]) < MaxCount
  /\ log' = [log EXCEPT ![b] = Append(@, v)]

Erase == log' = [b \in Bucket |-> <<>>]

Next == Erase \/ \E b \in Bucket, v \in Value : Record(b, v)

Spec == Init /\ [][Next]_log
=============================================================================
