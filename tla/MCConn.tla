------------------------------- MODULE MCConn -------------------------------
(* TLC instances of Conn.  Goroutines that call the same method are alike. *)
EXTENDS Conn, TLC

Symmetry == Permutations(Readers) \cup Permutations(Writers) \cup Permutations(Closers)
=============================================================================
