------------------------- MODULE ReferenceAllocator -------------------------
(***************************************************************************)
(* The process-wide source-reference allocator (reference_allocator.go)    *)
(* and the life of the references it hands out: taken by Connect or        *)
(* Accept, given back by the handshake's deferred release when it fails,   *)
(* or passed on to the Conn, whose finish gives it back once.  Allocate    *)
(* and Release run under the allocator's mutex, so each is one step.       *)
(***************************************************************************)
EXTENDS Naturals, FiniteSets

CONSTANTS
  M,      \* the references are 0 .. M-1; 65536 in the code
  Conns   \* connection attempts of the process

ASSUME MAssumption == M \in Nat /\ M >= 2

VARIABLES
  next,    \* next
  active,  \* the keys of active
  phase,   \* "none", "handshake", "failed", "open", "finished", "refused"
  ref,     \* localRef, 0 before Allocate
  held     \* refHeld in the handshake; in a Conn, refOnce has not fired

vars == <<next, active, phase, ref, held>>

Refs == 1 .. M - 1

Init ==
  /\ next = 1
  /\ active = {}
  /\ phase = [c \in Conns |-> "none"]
  /\ ref = [c \in Conns |-> 0]
  /\ held = [c \in Conns |-> FALSE]

-----------------------------------------------------------------------------
\* The candidate after k increments of the uint16 counter.
Cand(k) == (next + k) % M

\* Mutants: zero is not skipped; references in use are not skipped.
UsableWithZero(k) == Cand(k) \notin active
UsableInUse(k) == Cand(k) # 0

Usable(k) == Cand(k) # 0 /\ Cand(k) \notin active

\* Mutant: the loop stops one value short of a full turn.
TriesShort == 0 .. M - 2

\* Iterations of the loop: every value of the counter once.
Tries == 0 .. M - 1

Full == Cardinality(active) >= M - 1

\* Allocate finds the first usable candidate and leaves next behind it.
Allocate(c) ==
  /\ phase[c] = "none"
  /\ ~Full
  /\ \E k \in Tries :
       /\ Usable(k)
       /\ \A j \in 0 .. k - 1 : ~Usable(j)
       /\ active' = active \cup {Cand(k)}
       /\ next' = (next + k + 1) % M
       /\ ref' = [ref EXCEPT ![c] = Cand(k)]
  /\ phase' = [phase EXCEPT ![c] = "handshake"]
  /\ held' = [held EXCEPT ![c] = TRUE]

\* Allocate fails: the set is full, or the loop came round without a result.
Refuse(c) ==
  /\ phase[c] = "none"
  /\ Full \/ \A k \in Tries : ~Usable(k)
  /\ phase' = [phase EXCEPT ![c] = "refused"]
  /\ UNCHANGED <<next, active, ref, held>>

Release(r) == active' = IF r = 0 THEN active ELSE active \ {r}

\* A failing exit of Connect or Accept: the deferred release.
HandshakeFails(c) ==
  /\ phase[c] = "handshake"
  /\ IF held[c] THEN Release(ref[c]) ELSE UNCHANGED active
  /\ held' = [held EXCEPT ![c] = FALSE]
  /\ phase' = [phase EXCEPT ![c] = "failed"]
  /\ UNCHANGED <<next, ref>>

\* newOpenConn: refHeld = false, and the Conn owns the reference.
Opens(c) ==
  /\ phase[c] = "handshake"
  /\ phase' = [phase EXCEPT ![c] = "open"]
  /\ UNCHANGED <<next, active, ref, held>>

\* Mutant: no refOnce, every finish releases.
FinishReleasingAgain(c) ==
  /\ phase[c] \in {"open", "finished"}
  /\ Release(ref[c])
  /\ held' = [held EXCEPT ![c] = FALSE]
  /\ phase' = [phase EXCEPT ![c] = "finished"]
  /\ UNCHANGED <<next, ref>>

\* finish reaches releaseRef: by Close or abort, any number of times.
Finish(c) ==
  /\ phase[c] \in {"open", "finished"}
  /\ IF held[c] THEN Release(ref[c]) ELSE UNCHANGED active
  /\ held' = [held EXCEPT ![c] = FALSE]
  /\ phase' = [phase EXCEPT ![c] = "finished"]
  /\ UNCHANGED <<next, ref>>

\* The caller drops what is left of the attempt and may start another.
Forget(c) ==
  /\ phase[c] \in {"failed", "finished", "refused"}
  /\ phase' = [phase EXCEPT ![c] = "none"]
  /\ ref' = [ref EXCEPT ![c] = 0]
  /\ UNCHANGED <<next, active, held>>

Next ==
  \E c \in Conns :
    Allocate(c) \/ Refuse(c) \/ HandshakeFails(c) \/ Opens(c) \/ Finish(c) \/ Forget(c)

Spec == Init /\ [][Next]_vars

-----------------------------------------------------------------------------
TypeOK ==
  /\ next \in 0 .. M - 1
  /\ active \subseteq Refs
  /\ phase \in [Conns -> {"none", "handshake", "failed", "open", "finished", "refused"}]
  /\ ref \in [Conns -> 0 .. M - 1]
  /\ held \in [Conns -> BOOLEAN]

\* A connection on its way or open.
Live(c) == phase[c] \in {"handshake", "open"}

\* Live connections have non-zero references, no two the same, also after the
\* counter has wrapped (X.224 6.5: not zero, not in use).
LiveRefsUnique ==
  \A c \in Conns : Live(c) =>
    ref[c] # 0 /\ \A d \in Conns \ {c} : Live(d) => ref[d] # ref[c]

\* The allocator's set is exactly the references of the live connections: a
\* failed handshake leaks none, and a second release never frees a reference
\* that another connection was given in between.
ActiveIsLive == active = {ref[c] : c \in {d \in Conns : Live(d)}}

\* Allocate fails only when every reference is in use by a live connection.
RefusedOnlyWhenFull ==
  [][\A c \in Conns : phase[c] = "none" /\ phase'[c] = "refused" =>
       \A r \in Refs : \E d \in Conns : Live(d) /\ ref[d] = r]_vars
=============================================================================
