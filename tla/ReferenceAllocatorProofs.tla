---------------------- MODULE ReferenceAllocatorProofs ----------------------
(***************************************************************************)
(* For any number of references and any set of connections, finite or not: *)
(* the references of live connections are distinct and non-zero, and the   *)
(* allocator's set is exactly those references.                            *)
(***************************************************************************)
EXTENDS ReferenceAllocator, FiniteSetTheorems, TLAPS

\* A connection counts on the allocator's account exactly while it is live.
HeldIsLive == \A c \in Conns : held[c] <=> Live(c)

IInv == TypeOK /\ HeldIsLive /\ LiveRefsUnique /\ ActiveIsLive

\* The first state satisfies the invariant.
LEMMA InitIInv == Init => IInv
  BY MAssumption DEF Init, IInv, TypeOK, HeldIsLive, LiveRefsUnique, ActiveIsLive, Live

\* What the loop of Allocate picks is a non-zero reference that is not active.
LEMMA CandIsFree ==
  ASSUME TypeOK, NEW k \in Tries, Usable(k)
  PROVE  Cand(k) \in Refs \ active
  BY MAssumption DEF TypeOK, Tries, Usable, Cand, Refs

\* Every operation preserves the invariant.
LEMMA StepIInv == IInv /\ [Next]_vars => IInv'
<1> SUFFICES ASSUME IInv, [Next]_vars PROVE IInv'
  OBVIOUS
<1> USE DEF IInv
<1>1. CASE UNCHANGED vars
  BY <1>1 DEF vars, TypeOK, HeldIsLive, LiveRefsUnique, ActiveIsLive, Live
<1>2. ASSUME NEW c \in Conns, Allocate(c) PROVE IInv'
  <2>1. PICK k \in Tries : /\ Usable(k)
                           /\ active' = active \cup {Cand(k)}
                           /\ next' = (next + k + 1) % M
                           /\ ref' = [ref EXCEPT ![c] = Cand(k)]
    BY <1>2 DEF Allocate
  <2>2. Cand(k) \in Refs \ active
    BY <2>1, CandIsFree
  <2>3. next' \in 0 .. M - 1
    BY <2>1, MAssumption DEF TypeOK, Tries
  <2>4. TypeOK'
    <3>1. active' \subseteq Refs
      BY <2>1, <2>2 DEF TypeOK
    <3>2. Cand(k) \in 0 .. M - 1
      BY <2>2, MAssumption DEF Refs
    <3>3. ref' \in [Conns -> 0 .. M - 1]
      BY <2>1, <3>2 DEF TypeOK
    <3>4. /\ phase' \in [Conns -> {"none", "handshake", "failed", "open", "finished", "refused"}]
          /\ held' \in [Conns -> BOOLEAN]
      BY <1>2 DEF Allocate, TypeOK
    <3> QED BY <2>3, <3>1, <3>3, <3>4 DEF TypeOK
  <2>5. HeldIsLive'
    BY <1>2 DEF Allocate, TypeOK, HeldIsLive, Live
  <2>6. /\ \A d \in Conns \ {c} : Live(d)' = Live(d) /\ ref'[d] = ref[d]
        /\ ~Live(c) /\ Live(c)' /\ ref'[c] = Cand(k)
    BY <1>2, <2>1 DEF Allocate, TypeOK, Live
  <2>7. \A d \in Conns : Live(d) => ref[d] \in active
    BY DEF ActiveIsLive
  <2>8. LiveRefsUnique'
    BY <2>2, <2>6, <2>7, MAssumption DEF LiveRefsUnique, Refs
  <2>9. ActiveIsLive'
    BY <2>1, <2>6 DEF ActiveIsLive
  <2> QED BY <2>4, <2>5, <2>8, <2>9
<1>3. ASSUME NEW c \in Conns, Refuse(c) PROVE IInv'
  BY <1>3 DEF Refuse, TypeOK, HeldIsLive, LiveRefsUnique, ActiveIsLive, Live
<1>4. ASSUME NEW c \in Conns, HandshakeFails(c) \/ Finish(c) PROVE IInv'
  <2>1. /\ active' = IF held[c] THEN active \ {ref[c]} ELSE active
        /\ held' = [held EXCEPT ![c] = FALSE]
        /\ ref' = ref
        /\ next' = next
        /\ phase' \in {[phase EXCEPT ![c] = "failed"], [phase EXCEPT ![c] = "finished"]}
    BY <1>4 DEF HandshakeFails, Finish, Release, HeldIsLive, LiveRefsUnique
  <2>2. TypeOK'
    BY <2>1 DEF TypeOK
  <2>3. /\ \A d \in Conns \ {c} : Live(d)' = Live(d)
        /\ ~Live(c)'
    BY <2>1 DEF TypeOK, Live
  <2>4. HeldIsLive'
    BY <2>1, <2>3 DEF TypeOK, HeldIsLive
  <2>5. LiveRefsUnique'
    BY <2>1, <2>3 DEF LiveRefsUnique
  <2>6. ActiveIsLive'
    <3>1. CASE held[c]
      BY <3>1, <2>1, <2>3 DEF ActiveIsLive, LiveRefsUnique, HeldIsLive
    <3>2. CASE ~held[c]
      BY <3>2, <2>1, <2>3 DEF ActiveIsLive, HeldIsLive
    <3> QED BY <3>1, <3>2
  <2> QED BY <2>2, <2>4, <2>5, <2>6
<1>5. ASSUME NEW c \in Conns, Opens(c) PROVE IInv'
  <2>1. TypeOK' /\ ref' = ref /\ active' = active /\ held' = held /\ \A d \in Conns : Live(d)' = Live(d)
    BY <1>5 DEF Opens, TypeOK, Live
  <2> QED BY <2>1 DEF HeldIsLive, LiveRefsUnique, ActiveIsLive
<1>6. ASSUME NEW c \in Conns, Forget(c) PROVE IInv'
  <2>1. TypeOK' /\ active' = active /\ held' = held
    BY <1>6, MAssumption DEF Forget, TypeOK
  <2>2. /\ \A d \in Conns \ {c} : Live(d)' = Live(d) /\ ref'[d] = ref[d]
        /\ ~Live(c) /\ ~Live(c)'
    BY <1>6 DEF Forget, TypeOK, Live
  <2> QED BY <2>1, <2>2 DEF HeldIsLive, LiveRefsUnique, ActiveIsLive
<1> QED BY <1>1, <1>2, <1>3, <1>4, <1>5, <1>6 DEF Next

\* The allocator and the life of its references keep the invariant for ever.
THEOREM IInvHolds == Spec => []IInv
  BY InitIInv, StepIInv, PTL DEF Spec

\* Every variable keeps its type: in particular next stays in the counter's
\* range and zero is never in the set.
THEOREM TypeCorrect == Spec => []TypeOK
<1>1. IInv => TypeOK
  BY DEF IInv
<1> QED BY <1>1, IInvHolds, PTL

\* No two live connections of the process have the same reference, and none
\* has reference zero (X.224 6.5), however often the counter wraps.
THEOREM RefsUnique == Spec => []LiveRefsUnique
<1>1. IInv => LiveRefsUnique
  BY DEF IInv
<1> QED BY <1>1, IInvHolds, PTL

\* Nothing is leaked by failing handshakes and nothing is freed twice.
THEOREM NoLeakNoDoubleFree == Spec => []ActiveIsLive
<1>1. IInv => ActiveIsLive
  BY DEF IInv
<1> QED BY <1>1, IInvHolds, PTL

\* A full set, or a loop that came round, means that every reference is in
\* the set: one turn of the counter visits each of them.
LEMMA RefusedMeansAllActive ==
  ASSUME TypeOK, Full \/ \A k \in Tries : ~Usable(k)
  PROVE  Refs \subseteq active
<1>1. CASE Full
  <2>1. IsFiniteSet(Refs) /\ Cardinality(Refs) = M - 1
    BY FS_Interval, MAssumption DEF Refs
  <2>2. active \subseteq Refs
    BY DEF TypeOK
  <2>3. IsFiniteSet(active) /\ Cardinality(active) <= M - 1
    BY <2>1, <2>2, FS_Subset
  <2>4. Cardinality(active) = Cardinality(Refs)
    BY <1>1, <2>1, <2>3, FS_CardinalityType, MAssumption DEF Full
  <2> QED BY <2>1, <2>2, <2>4, FS_Subset
<1>2. CASE \A k \in Tries : ~Usable(k)
  <2> SUFFICES ASSUME NEW r \in Refs PROVE r \in active
    OBVIOUS
  <2> DEFINE k == IF r >= next THEN r - next ELSE r - next + M
  <2>1. k \in Tries /\ (next + k) % M = r
    BY MAssumption DEF TypeOK, Refs, Tries
  <2>2. ~Usable(k)
    BY <1>2, <2>1
  <2> HIDE DEF k
  <2> QED BY <2>1, <2>2, MAssumption DEF Usable, Cand, Refs
<1> QED BY <1>1, <1>2

\* Connect and Accept are refused a reference only when live connections use
\* all of them.
THEOREM NoFalseExhaustion == Spec => RefusedOnlyWhenFull
<1> DEFINE A == \A c \in Conns : phase[c] = "none" /\ phase'[c] = "refused" =>
                   \A r \in Refs : \E d \in Conns : Live(d) /\ ref[d] = r
<1>1. ASSUME IInv, [Next]_vars PROVE A
  <2> SUFFICES ASSUME NEW c \in Conns, phase[c] = "none", phase'[c] = "refused",
                      NEW r \in Refs
               PROVE  \E d \in Conns : Live(d) /\ ref[d] = r
    OBVIOUS
  <2>1. PICK d \in Conns : Allocate(d) \/ Refuse(d) \/ HandshakeFails(d) \/ Opens(d) \/ Finish(d) \/ Forget(d)
    BY <1>1 DEF Next, vars
  <2>2. Refuse(d)
    BY <1>1, <2>1 DEF IInv, TypeOK, Allocate, HandshakeFails, Opens, Finish, Forget
  <2>3. Refs \subseteq active
    BY <1>1, <2>2, RefusedMeansAllActive DEF IInv, Refuse
  <2> QED BY <1>1, <2>3 DEF IInv, ActiveIsLive
<1>2. IInv /\ [Next]_vars => [A]_vars
  BY <1>1
<1> QED BY <1>2, IInvHolds, PTL DEF Spec, RefusedOnlyWhenFull
=============================================================================
