------------------------ MODULE MCDirectionDeadline ------------------------
(* TLC instance of DirectionDeadline: the handshake and two operations of  *)
(* one direction, so that callbacks of two earlier operations, on two      *)
(* objects, may run late.                                                  *)
EXTENDS DirectionDeadline

CONSTANTS h, a, b

MCHandshakeOps == {h}
MCReadOps == {a, b}
=============================================================================
