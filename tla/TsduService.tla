----------------------------- MODULE TsduService -----------------------------
(***************************************************************************)
(* What a pair of open connections promises the users at its two ends, in  *)
(* one direction: TSDUs come out of ReadTSDU whole, in the order WriteTSDU *)
(* accepted them, each once.  Nothing is promised about how many of the    *)
(* accepted ones arrive once an end is down: Class 0 has no acknowledgment. *)
(***************************************************************************)
EXTENDS Naturals, Sequences

CONSTANT TsduLengths    \* lengths a TSDU can have

VARIABLES
  accepted,       \* lengths of the TSDUs WriteTSDU returned nil for
  delivered,      \* delivered[i]: the TSDU the i-th successful ReadTSDU returned
  up              \* neither end has ended

vars == <<accepted, delivered, up>>

\* The i-th TSDU, whole.
Whole(i) == [tsdu |-> i, len |-> accepted[i]]

Init == accepted = <<>> /\ delivered = <<>> /\ up = TRUE

Accept ==
  /\ \E n \in TsduLengths : accepted' = Append(accepted, n)
  /\ UNCHANGED <<delivered, up>>

Deliver ==
  /\ Len(delivered) < Len(accepted)
  /\ delivered' = Append(delivered, Whole(Len(delivered) + 1))
  /\ UNCHANGED <<accepted, up>>

Down == up /\ up' = FALSE /\ UNCHANGED <<accepted, delivered>>

Next == Accept \/ Deliver \/ Down

Spec == Init /\ [][Next]_vars
=============================================================================
