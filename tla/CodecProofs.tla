----------------------------- MODULE CodecProofs -----------------------------
(***************************************************************************)
(* The codec, for every TPDU and every sequence of octets of any length.   *)
(*                                                                         *)
(* The parsers and encoders are recursive functions and folds.  Before one *)
(* can be unfolded, a function that solves its equation must be shown to   *)
(* exist; what it computes is then shown by induction.  Both rest on the   *)
(* first lemma, where a set stands for the predicate: the provers can      *)
(* instantiate a set.                                                      *)
(***************************************************************************)
EXTENDS CodecExchange, SequenceTheorems, WellFoundedInduction, TLAPS

-----------------------------------------------------------------------------
(* Induction                                                               *)

\* Induction up to n over the members of a set.
LEMMA Induction ==
  ASSUME NEW S, NEW n \in Nat, 0 \in S, \A k \in 1 .. n : k - 1 \in S => k \in S
  PROVE  \A k \in 0 .. n : k \in S
<1> DEFINE T == {k \in 0 .. n : k \notin S}
           Less == {ss \in Nat \X Nat : ss[1] < ss[2]}
<1> SUFFICES ASSUME T # {} PROVE FALSE
  OBVIOUS
<1>1. IsWellFoundedOn(Less, Nat)
  BY NatLessThanWellFounded DEF OpToRel
<1>2. T \subseteq Nat
  OBVIOUS
<1>3. \E k \in T : \A m \in T : ~(<<m, k>> \in Less)
  <2> HIDE DEF Less, T
  <2> QED BY <1>1, <1>2, WFMin
<1>4. PICK k \in T : \A m \in T : ~(<<m, k>> \in Less)
  BY <1>3
<1>5. k \in 1 .. n /\ k - 1 \in 0 .. n
  OBVIOUS
<1>6. k - 1 \notin T
  <2>1. <<k - 1, k>> \in Less
    BY <1>5
  <2> QED BY <1>4, <2>1
<1> QED BY <1>5, <1>6

\* The greatest of the first k numbers, or of some of them with k among them.
LEMMA MaxOfRange ==
  ASSUME NEW k \in Nat, NEW t \in SUBSET (1 .. k), k \in t
  PROVE  Max(t) = k
<1>1. k \in t /\ \A y \in t : k >= y
  OBVIOUS
<1>2. \A x \in t : (\A y \in t : x >= y) => x = k
  OBVIOUS
<1> QED BY <1>1, <1>2 DEF Max

\* A fold to the left over s, from base, of the function h, and its equation.
IsFold(V, P, base, s, h) == base \in V /\ s \in Seq(P) /\ h \in [V \X P -> V]

HasSolution(V, base, s, h) ==
  \E g \in [SUBSET (1 .. Len(s)) -> V] : \A t \in SUBSET (1 .. Len(s)) :
    g[t] = IF t = {} THEN base ELSE h[<<g[t \ {Max(t)}], s[Max(t)]>>]

\* The equation has a solution.
LEMMA FoldSolution ==
  ASSUME NEW V, NEW P, NEW base, NEW s, NEW h, IsFold(V, P, base, s, h)
  PROVE  HasSolution(V, base, s, h)
<1> USE DEF IsFold
<1> DEFINE Solves(g, k) ==
      \A t \in SUBSET (1 .. k) : g[t] = IF t = {} THEN base ELSE h[<<g[t \ {Max(t)}], s[Max(t)]>>]
           S == {k \in 0 .. Len(s) : \E g \in [SUBSET (1 .. k) -> V] : Solves(g, k)}
<1>1. 0 \in S
  <2> DEFINE g == [t \in SUBSET (1 .. 0) |-> base]
  <2>1. g \in [SUBSET (1 .. 0) -> V]
    OBVIOUS
  <2>2. Solves(g, 0)
    OBVIOUS
  <2> HIDE DEF Solves, g
  <2>3. \E f \in [SUBSET (1 .. 0) -> V] : Solves(f, 0)
    BY <2>1, <2>2
  <2>4. 0 \in 0 .. Len(s)
    OBVIOUS
  <2> QED BY <2>3, <2>4
<1>2. ASSUME NEW k \in 1 .. Len(s), k - 1 \in S PROVE k \in S
  <2>1. PICK g \in [SUBSET (1 .. k - 1) -> V] : Solves(g, k - 1)
    BY <1>2
  <2> DEFINE f == [t \in SUBSET (1 .. k) |-> IF k \in t THEN h[<<g[t \ {k}], s[k]>>] ELSE g[t]]
  <2>2. \A t \in SUBSET (1 .. k) : t \ {k} \in SUBSET (1 .. k - 1)
    OBVIOUS
  <2>3. \A t \in SUBSET (1 .. k) : k \notin t => t \in SUBSET (1 .. k - 1)
    OBVIOUS
  <2>4. f \in [SUBSET (1 .. k) -> V]
    BY <2>2, <2>3
  <2>5. ASSUME NEW t \in SUBSET (1 .. k)
        PROVE  f[t] = IF t = {} THEN base ELSE h[<<f[t \ {Max(t)}], s[Max(t)]>>]
    <3>1. CASE k \in t
      <4>1. Max(t) = k
        BY <3>1, MaxOfRange
      <4>2. t \ {k} \in SUBSET (1 .. k) /\ k \notin t \ {k}
        OBVIOUS
      <4>3. f[t \ {k}] = g[t \ {k}]
        BY <4>2
      <4> QED BY <3>1, <4>1, <4>3
    <3>2. CASE k \notin t
      <4>1. t \in SUBSET (1 .. k - 1) /\ f[t] = g[t]
        BY <2>3, <3>2
      <4>2. t \ {Max(t)} \in SUBSET (1 .. k) /\ k \notin t \ {Max(t)}
        BY <3>2
      <4>3. f[t \ {Max(t)}] = g[t \ {Max(t)}]
        BY <4>2
      <4>4. g[t] = IF t = {} THEN base ELSE h[<<g[t \ {Max(t)}], s[Max(t)]>>]
        BY <2>1, <4>1
      <4> QED BY <4>1, <4>3, <4>4
    <3> QED BY <3>1, <3>2
  <2>6. Solves(f, k)
    BY <2>5
  <2> HIDE DEF Solves, f
  <2>7. \E g1 \in [SUBSET (1 .. k) -> V] : Solves(g1, k)
    BY <2>4, <2>6
  <2> QED BY <2>7
<1>3. Len(s) \in S
  <2>1. Len(s) \in Nat /\ Len(s) \in 0 .. Len(s)
    OBVIOUS
  <2> HIDE DEF S
  <2> QED BY <1>1, <1>2, <2>1, Induction
<1> QED BY <1>3 DEF HasSolution

\* A nonempty set of numbers up to n has a greatest.
LEMMA MaxExists ==
  ASSUME NEW n \in Nat, NEW t \in SUBSET (1 .. n), t # {}
  PROVE  Max(t) \in t
<1> DEFINE S == {k \in 0 .. n : \A u \in SUBSET (1 .. k) : u # {} => \E x \in u : \A y \in u : x >= y}
<1>1. 0 \in S
  <2>1. \A u \in SUBSET (1 .. 0) : u = {}
    OBVIOUS
  <2>2. \A u \in SUBSET (1 .. 0) : u # {} => \E x \in u : \A y \in u : x >= y
    BY <2>1
  <2>3. 0 \in 0 .. n
    OBVIOUS
  <2> QED BY <2>2, <2>3
<1>2. ASSUME NEW k \in 1 .. n, k - 1 \in S PROVE k \in S
  <2> SUFFICES ASSUME NEW u \in SUBSET (1 .. k), u # {} PROVE \E x \in u : \A y \in u : x >= y
    OBVIOUS
  <2>1. CASE k \in u
    BY <2>1
  <2>2. CASE k \notin u
    <3>1. u \in SUBSET (1 .. k - 1)
      BY <2>2
    <3> QED BY <1>2, <3>1
  <2> QED BY <2>1, <2>2
<1>3. n \in S
  <2>1. n \in 0 .. n
    OBVIOUS
  <2> HIDE DEF S
  <2> QED BY <1>1, <1>2, <2>1, Induction
<1>4. \E x \in t : \A y \in t : x >= y
  BY <1>3
<1> QED BY <1>4 DEF Max

-----------------------------------------------------------------------------
(* The three loops                                                         *)

\* A variable part under construction.
Wires == [err : {nil, "ErrUnexpectedParameterLength"}, octets : Seq(Octet)]

\* What parseCRCCVariablePart has found so far.
Found == [err : {nil, "ErrUnexpectedParameterLength"}, calling : Seq(Seq(Octet)), called : Seq(Seq(Octet)),
          size : Octet \cup {None}, pref : {decodePreferredMaxUnits(v) : v \in Seq(Octet)} \cup {None},
          params : Seq(Parameters)]

\* One more parameter is appended, or none is.
LEMMA AppendTypes ==
  ASSUME NEW w \in Wires, NEW p \in Parameters
  PROVE  appendParameter(w, p) \in Wires /\ appendUnknown(w, p) \in Wires
<1>1. appendParameter(w, p) \in Wires
  <2>1. /\ w.err \in {nil, "ErrUnexpectedParameterLength"} /\ w.octets \in Seq(Octet)
        /\ p.code \in Octet /\ p.value \in Seq(Octet) /\ Len(p.value) \in Nat
    BY DEF Wires, Parameters, OctetString
  <2>2. CASE w.err # nil \/ Len(p.value) > 255
    <3>1. Wire("ErrUnexpectedParameterLength", <<>>) \in Wires
      BY DEF Wires, Wire
    <3> QED BY <2>2, <3>1 DEF appendParameter, MaxParameterValueLength
  <2>3. CASE ~(w.err # nil \/ Len(p.value) > 255)
    <3>1. Len(p.value) \in Octet
      <4>1. Len(p.value) \in Nat /\ Len(p.value) <= 255
        BY <2>1, <2>3
      <4>2. \A n \in Nat : n <= 255 => n \in Octet
        BY DEF Octet
      <4> QED BY <4>1, <4>2
    <3>4. <<p.code, Len(p.value)>> \in Seq(Octet)
      BY <2>1, <3>1
    <3>2. w.octets \o <<p.code, Len(p.value)>> \o p.value \in Seq(Octet)
      BY <2>1, <3>4
    <3>3. appendParameter(w, p) = Wire(nil, w.octets \o <<p.code, Len(p.value)>> \o p.value)
      BY <2>3 DEF appendParameter, MaxParameterValueLength
    <3> QED BY <3>2, <3>3 DEF Wire, Wires
  <2> QED BY <2>2, <2>3
<1> QED BY <1>1 DEF appendUnknown

\* One more parameter is taken.
LEMMA ApplyTypes ==
  ASSUME NEW r \in Found, NEW p \in Parameters
  PROVE  applyParameter(r, p) \in Found
<1>1. p.code \in Octet /\ p.value \in Seq(Octet) /\ Len(p.value) \in Nat
  BY DEF Parameters, OctetString
<1>2. <<p.value>> \in Seq(Seq(Octet)) /\ Append(r.params, p) \in Seq(Parameters)
  BY <1>1 DEF Found
<1>3. Len(p.value) = 1 => p.value[1] \in Octet
  BY <1>1
<1>4. decodePreferredMaxUnits(p.value) \in {decodePreferredMaxUnits(v) : v \in Seq(Octet)}
  BY <1>1
<1> HIDE DEF decodePreferredMaxUnits
<1>5. \/ applyParameter(r, p) = r
      \/ applyParameter(r, p) = [r EXCEPT !.calling = <<p.value>>]
      \/ applyParameter(r, p) = [r EXCEPT !.called = <<p.value>>]
      \/ applyParameter(r, p) = [r EXCEPT !.err = "ErrUnexpectedParameterLength"]
      \/ applyParameter(r, p) = [r EXCEPT !.size = p.value[1]] /\ Len(p.value) = 1
      \/ applyParameter(r, p) = [r EXCEPT !.pref = decodePreferredMaxUnits(p.value)]
      \/ applyParameter(r, p) = [r EXCEPT !.params = Append(@, p)]
  BY DEF applyParameter
<1> QED BY <1>2, <1>3, <1>4, <1>5 DEF Found

\* The loop of encodeVariablePart, parameter by parameter.
LEMMA AppendFold ==
  ASSUME NEW base \in Wires, NEW s \in Seq(Parameters)
  PROVE  \E f \in [0 .. Len(s) -> Wires] :
           /\ f[0] = base /\ \A k \in 1 .. Len(s) : f[k] = appendParameter(f[k - 1], s[k])
           /\ FoldLeft(appendParameter, base, s) = f[Len(s)]
<1> DEFINE D == 1 .. Len(s)
           Body(g) == [t \in SUBSET (DOMAIN s) |->
             IF t = {} THEN base ELSE appendParameter(g[t \ {Max(t)}], s[Max(t)])]
           iter == CHOOSE g : g = Body(g)
           h == [q \in Wires \X Parameters |-> appendParameter(q[1], q[2])]
<1>1. h \in [Wires \X Parameters -> Wires] /\ \A v \in Wires, p \in Parameters : h[<<v, p>>] = appendParameter(v, p)
  BY AppendTypes
<1>2. DOMAIN s = D /\ Len(s) \in Nat /\ \A i \in D : s[i] \in Parameters
  OBVIOUS
<1>3. PICK g \in [SUBSET D -> Wires] : \A t \in SUBSET D :
        g[t] = IF t = {} THEN base ELSE h[<<g[t \ {Max(t)}], s[Max(t)]>>]
  <2> HIDE DEF h
  <2>1. IsFold(Wires, Parameters, base, s, h)
    BY <1>1 DEF IsFold
  <2>2. HasSolution(Wires, base, s, h)
    BY <2>1, FoldSolution
  <2> QED BY <2>2 DEF HasSolution
<1>4. g = Body(g)
  <2>1. ASSUME NEW t \in SUBSET D, t # {}
        PROVE  g[t] = appendParameter(g[t \ {Max(t)}], s[Max(t)])
    <3>1. Max(t) \in t
      BY <1>2, <2>1, MaxExists
    <3>2. s[Max(t)] \in Parameters /\ g[t \ {Max(t)}] \in Wires
      BY <1>2, <3>1
    <3> HIDE DEF h
    <3> QED BY <1>1, <1>3, <2>1, <3>2
  <2> QED BY <1>2, <1>3, <2>1
<1>5. iter = Body(iter)
  <2> HIDE DEF Body
  <2> QED BY <1>4
<1> DEFINE f == [k \in 0 .. Len(s) |-> iter[1 .. k]]
<1>6. f[0] = base
  <2> HIDE DEF iter
  <2>1. iter[{}] = base
    BY <1>5
  <2> QED BY <1>2, <2>1
<1>7. ASSUME NEW k \in 1 .. Len(s) PROVE f[k] = appendParameter(f[k - 1], s[k])
  <2> HIDE DEF iter
  <2>1. /\ 1 .. k \in SUBSET (DOMAIN s) /\ 1 .. k # {} /\ (1 .. k) \ {k} = 1 .. k - 1
        /\ k \in 0 .. Len(s) /\ k - 1 \in 0 .. Len(s)
    BY <1>2
  <2>2. Max(1 .. k) = k
    BY <1>2, MaxOfRange
  <2>3. iter[1 .. k] = appendParameter(iter[(1 .. k) \ {k}], s[k])
    BY <1>5, <2>1, <2>2
  <2> QED BY <2>1, <2>3
<1>8. FoldLeft(appendParameter, base, s) = f[Len(s)]
  <2>1. FoldLeft(appendParameter, base, s) = iter[DOMAIN s]
    BY DEF FoldLeft, MapThenFoldSet
  <2> HIDE DEF iter
  <2> QED BY <1>2, <2>1
<1> HIDE DEF f
<1>9. \A k \in 0 .. Len(s) : f[k] \in Wires
  <2> DEFINE S == {k \in 0 .. Len(s) : f[k] \in Wires}
  <2>1. 0 \in S
    BY <1>2, <1>6
  <2>2. \A k \in 1 .. Len(s) : k - 1 \in S => k \in S
    BY <1>2, <1>7, AppendTypes
  <2> HIDE DEF S
  <2>3. \A k \in 0 .. Len(s) : k \in S
    BY <1>2, <2>1, <2>2, Induction
  <2> QED BY <2>3 DEF S
<1>10. f \in [0 .. Len(s) -> Wires]
  BY <1>9 DEF f
<1> QED BY <1>6, <1>7, <1>8, <1>10

\* The last loop of encodeCRCCVariablePart.
LEMMA UnknownFold ==
  ASSUME NEW base \in Wires, NEW s \in Seq(Parameters)
  PROVE  \E f \in [0 .. Len(s) -> Wires] :
           /\ f[0] = base /\ \A k \in 1 .. Len(s) : f[k] = appendUnknown(f[k - 1], s[k])
           /\ FoldLeft(appendUnknown, base, s) = f[Len(s)]
<1> DEFINE D == 1 .. Len(s)
           Body(g) == [t \in SUBSET (DOMAIN s) |->
             IF t = {} THEN base ELSE appendUnknown(g[t \ {Max(t)}], s[Max(t)])]
           iter == CHOOSE g : g = Body(g)
           h == [q \in Wires \X Parameters |-> appendUnknown(q[1], q[2])]
<1>1. h \in [Wires \X Parameters -> Wires] /\ \A v \in Wires, p \in Parameters : h[<<v, p>>] = appendUnknown(v, p)
  BY AppendTypes
<1>2. DOMAIN s = D /\ Len(s) \in Nat /\ \A i \in D : s[i] \in Parameters
  OBVIOUS
<1>3. PICK g \in [SUBSET D -> Wires] : \A t \in SUBSET D :
        g[t] = IF t = {} THEN base ELSE h[<<g[t \ {Max(t)}], s[Max(t)]>>]
  <2> HIDE DEF h
  <2>1. IsFold(Wires, Parameters, base, s, h)
    BY <1>1 DEF IsFold
  <2>2. HasSolution(Wires, base, s, h)
    BY <2>1, FoldSolution
  <2> QED BY <2>2 DEF HasSolution
<1>4. g = Body(g)
  <2>1. ASSUME NEW t \in SUBSET D, t # {}
        PROVE  g[t] = appendUnknown(g[t \ {Max(t)}], s[Max(t)])
    <3>1. Max(t) \in t
      BY <1>2, <2>1, MaxExists
    <3>2. s[Max(t)] \in Parameters /\ g[t \ {Max(t)}] \in Wires
      BY <1>2, <3>1
    <3> HIDE DEF h
    <3> QED BY <1>1, <1>3, <2>1, <3>2
  <2> QED BY <1>2, <1>3, <2>1
<1>5. iter = Body(iter)
  <2> HIDE DEF Body
  <2> QED BY <1>4
<1> DEFINE f == [k \in 0 .. Len(s) |-> iter[1 .. k]]
<1>6. f[0] = base
  <2> HIDE DEF iter
  <2>1. iter[{}] = base
    BY <1>5
  <2> QED BY <1>2, <2>1
<1>7. ASSUME NEW k \in 1 .. Len(s) PROVE f[k] = appendUnknown(f[k - 1], s[k])
  <2> HIDE DEF iter
  <2>1. /\ 1 .. k \in SUBSET (DOMAIN s) /\ 1 .. k # {} /\ (1 .. k) \ {k} = 1 .. k - 1
        /\ k \in 0 .. Len(s) /\ k - 1 \in 0 .. Len(s)
    BY <1>2
  <2>2. Max(1 .. k) = k
    BY <1>2, MaxOfRange
  <2>3. iter[1 .. k] = appendUnknown(iter[(1 .. k) \ {k}], s[k])
    BY <1>5, <2>1, <2>2
  <2> QED BY <2>1, <2>3
<1>8. FoldLeft(appendUnknown, base, s) = f[Len(s)]
  <2>1. FoldLeft(appendUnknown, base, s) = iter[DOMAIN s]
    BY DEF FoldLeft, MapThenFoldSet
  <2> HIDE DEF iter
  <2> QED BY <1>2, <2>1
<1> HIDE DEF f
<1>9. \A k \in 0 .. Len(s) : f[k] \in Wires
  <2> DEFINE S == {k \in 0 .. Len(s) : f[k] \in Wires}
  <2>1. 0 \in S
    BY <1>2, <1>6
  <2>2. \A k \in 1 .. Len(s) : k - 1 \in S => k \in S
    BY <1>2, <1>7, AppendTypes
  <2> HIDE DEF S
  <2>3. \A k \in 0 .. Len(s) : k \in S
    BY <1>2, <2>1, <2>2, Induction
  <2> QED BY <2>3 DEF S
<1>10. f \in [0 .. Len(s) -> Wires]
  BY <1>9 DEF f
<1> QED BY <1>6, <1>7, <1>8, <1>10

\* The loop of parseCRCCVariablePart.
LEMMA ApplyFold ==
  ASSUME NEW base \in Found, NEW s \in Seq(Parameters)
  PROVE  \E f \in [0 .. Len(s) -> Found] :
           /\ f[0] = base /\ \A k \in 1 .. Len(s) : f[k] = applyParameter(f[k - 1], s[k])
           /\ FoldLeft(applyParameter, base, s) = f[Len(s)]
<1> DEFINE D == 1 .. Len(s)
           Body(g) == [t \in SUBSET (DOMAIN s) |->
             IF t = {} THEN base ELSE applyParameter(g[t \ {Max(t)}], s[Max(t)])]
           iter == CHOOSE g : g = Body(g)
           h == [q \in Found \X Parameters |-> applyParameter(q[1], q[2])]
<1>1. h \in [Found \X Parameters -> Found] /\ \A v \in Found, p \in Parameters : h[<<v, p>>] = applyParameter(v, p)
  BY ApplyTypes
<1>2. DOMAIN s = D /\ Len(s) \in Nat /\ \A i \in D : s[i] \in Parameters
  OBVIOUS
<1>3. PICK g \in [SUBSET D -> Found] : \A t \in SUBSET D :
        g[t] = IF t = {} THEN base ELSE h[<<g[t \ {Max(t)}], s[Max(t)]>>]
  <2> HIDE DEF h
  <2>1. IsFold(Found, Parameters, base, s, h)
    BY <1>1 DEF IsFold
  <2>2. HasSolution(Found, base, s, h)
    BY <2>1, FoldSolution
  <2> QED BY <2>2 DEF HasSolution
<1>4. g = Body(g)
  <2>1. ASSUME NEW t \in SUBSET D, t # {}
        PROVE  g[t] = applyParameter(g[t \ {Max(t)}], s[Max(t)])
    <3>1. Max(t) \in t
      BY <1>2, <2>1, MaxExists
    <3>2. s[Max(t)] \in Parameters /\ g[t \ {Max(t)}] \in Found
      BY <1>2, <3>1
    <3> HIDE DEF h
    <3> QED BY <1>1, <1>3, <2>1, <3>2
  <2> QED BY <1>2, <1>3, <2>1
<1>5. iter = Body(iter)
  <2> HIDE DEF Body
  <2> QED BY <1>4
<1> DEFINE f == [k \in 0 .. Len(s) |-> iter[1 .. k]]
<1>6. f[0] = base
  <2> HIDE DEF iter
  <2>1. iter[{}] = base
    BY <1>5
  <2> QED BY <1>2, <2>1
<1>7. ASSUME NEW k \in 1 .. Len(s) PROVE f[k] = applyParameter(f[k - 1], s[k])
  <2> HIDE DEF iter
  <2>1. /\ 1 .. k \in SUBSET (DOMAIN s) /\ 1 .. k # {} /\ (1 .. k) \ {k} = 1 .. k - 1
        /\ k \in 0 .. Len(s) /\ k - 1 \in 0 .. Len(s)
    BY <1>2
  <2>2. Max(1 .. k) = k
    BY <1>2, MaxOfRange
  <2>3. iter[1 .. k] = applyParameter(iter[(1 .. k) \ {k}], s[k])
    BY <1>5, <2>1, <2>2
  <2> QED BY <2>1, <2>3
<1>8. FoldLeft(applyParameter, base, s) = f[Len(s)]
  <2>1. FoldLeft(applyParameter, base, s) = iter[DOMAIN s]
    BY DEF FoldLeft, MapThenFoldSet
  <2> HIDE DEF iter
  <2> QED BY <1>2, <2>1
<1> HIDE DEF f
<1>9. \A k \in 0 .. Len(s) : f[k] \in Found
  <2> DEFINE S == {k \in 0 .. Len(s) : f[k] \in Found}
  <2>1. 0 \in S
    BY <1>2, <1>6
  <2>2. \A k \in 1 .. Len(s) : k - 1 \in S => k \in S
    BY <1>2, <1>7, ApplyTypes
  <2> HIDE DEF S
  <2>3. \A k \in 0 .. Len(s) : k \in S
    BY <1>2, <2>1, <2>2, Induction
  <2> QED BY <2>3 DEF S
<1>10. f \in [0 .. Len(s) -> Found]
  BY <1>9 DEF f
<1> QED BY <1>6, <1>7, <1>8, <1>10

-----------------------------------------------------------------------------
(* The loop of the parsers                                                 *)

\* What scan has found from a position to the end.
Outcomes == [err : {nil, "ErrMalformedParameter"}, params : Seq(Parameters)]

Finished == [err |-> nil, params |-> <<>>]
Malformed == [err |-> "ErrMalformedParameter", params |-> <<>>]

\* Where the parameter at pos of v ends, whether it fits, and what it is.
NextPos(v, pos) == pos + 2 + v[pos + 1]
Overruns(v, pos) == pos + 1 > Len(v) \/ NextPos(v, pos) > Len(v) + 1
ParamAt(v, pos) == [code |-> v[pos], value |-> SubSeq(v, pos + 2, NextPos(v, pos) - 1)]

\* One turn of the loop, where f knows the rest.
Turn(v, f, pos) ==
  IF pos > Len(v) THEN Finished
  ELSE IF Overruns(v, pos) THEN Malformed
  ELSE [f[NextPos(v, pos)] EXCEPT !.params = <<ParamAt(v, pos)>> \o @]

\* A parameter that fits lies within the octets, and the next is further on.
LEMMA ParamFits ==
  ASSUME NEW v \in Seq(Octet), NEW pos \in 1 .. Len(v), ~Overruns(v, pos)
  PROVE  /\ NextPos(v, pos) \in pos + 2 .. Len(v) + 1
         /\ v[pos + 1] \in Octet /\ pos + 1 <= Len(v)
         /\ ParamAt(v, pos) \in Parameters
<1>1. Len(v) \in Nat /\ pos + 1 \in 1 .. Len(v)
  BY DEF Overruns
<1>2. v[pos] \in Octet /\ v[pos + 1] \in Octet
  BY <1>1
<1>3. NextPos(v, pos) \in pos + 2 .. Len(v) + 1
  <2>1. PICK n \in Octet : n = v[pos + 1]
    BY <1>2
  <2>2. ~(pos + 2 + n > Len(v) + 1)
    BY <2>1 DEF Overruns, NextPos
  <2>3. pos + 2 + n \in pos + 2 .. Len(v) + 1
    BY <1>1, <2>2 DEF Octet
  <2> QED BY <2>1, <2>3 DEF NextPos
<1>4. SubSeq(v, pos + 2, NextPos(v, pos) - 1) \in Seq(Octet)
  <2>1. PICK n \in Nat : n = NextPos(v, pos) - 1 /\ n <= Len(v)
    BY <1>1, <1>3
  <2> QED BY <2>1
<1> QED BY <1>1, <1>2, <1>3, <1>4 DEF ParamAt, Parameters, OctetString

\* A turn finds something, if the rest has.
LEMMA TurnTypes ==
  ASSUME NEW v \in Seq(Octet), NEW pos \in 1 .. Len(v) + 1, NEW f,
         \A i \in pos + 1 .. Len(v) + 1 : f[i] \in Outcomes
  PROVE  Turn(v, f, pos) \in Outcomes
<1>1. CASE pos > Len(v) \/ Overruns(v, pos)
  <2>1. Finished \in Outcomes /\ Malformed \in Outcomes
    BY DEF Finished, Malformed, Outcomes
  <2> QED BY <1>1, <2>1 DEF Turn
<1>2. CASE ~(pos > Len(v) \/ Overruns(v, pos))
  <2>1. pos \in 1 .. Len(v) /\ Len(v) \in Nat
    BY <1>2
  <2>2. NextPos(v, pos) \in pos + 1 .. Len(v) + 1 /\ ParamAt(v, pos) \in Parameters
    BY <1>2, <2>1, ParamFits
  <2>3. f[NextPos(v, pos)] \in Outcomes
    BY <2>2
  <2>4. <<ParamAt(v, pos)>> \o f[NextPos(v, pos)].params \in Seq(Parameters)
    BY <2>2, <2>3 DEF Outcomes
  <2>5. Turn(v, f, pos) = [f[NextPos(v, pos)] EXCEPT !.params = <<ParamAt(v, pos)>> \o @]
    BY <1>2 DEF Turn
  <2> QED BY <2>3, <2>4, <2>5 DEF Outcomes
<1> QED BY <1>1, <1>2

\* The rest is all a turn looks at.
LEMMA TurnLocal ==
  ASSUME NEW v \in Seq(Octet), NEW pos \in 1 .. Len(v) + 1, NEW f, NEW g,
         \A i \in pos + 1 .. Len(v) + 1 : f[i] = g[i]
  PROVE  Turn(v, f, pos) = Turn(v, g, pos)
<1>1. CASE pos > Len(v) \/ Overruns(v, pos)
  BY <1>1 DEF Turn
<1>2. CASE ~(pos > Len(v) \/ Overruns(v, pos))
  <2>1. pos \in 1 .. Len(v) /\ Len(v) \in Nat
    BY <1>2
  <2>2. NextPos(v, pos) \in pos + 1 .. Len(v) + 1
    BY <1>2, <2>1, ParamFits
  <2>3. f[NextPos(v, pos)] = g[NextPos(v, pos)]
    BY <2>2
  <2> QED BY <1>2, <2>3 DEF Turn
<1> QED BY <1>1, <1>2

\* scan, turn by turn.
LEMMA ScanTurns ==
  ASSUME NEW v \in Seq(Octet)
  PROVE  \E f \in [1 .. Len(v) + 1 -> Outcomes] :
           scan(v) = f[1] /\ \A pos \in 1 .. Len(v) + 1 : f[pos] = Turn(v, f, pos)
<1> DEFINE N == Len(v) + 1
           Solves(g, lo) == \A pos \in lo .. N : g[pos] \in Outcomes /\ g[pos] = Turn(v, g, pos)
           S == {k \in 0 .. Len(v) : \E g : DOMAIN g = N - k .. N /\ Solves(g, N - k)}
<1>1. Len(v) \in Nat
  OBVIOUS
<1>2. 0 \in S
  <2> DEFINE g == [pos \in N .. N |-> Finished]
  <2>1. Solves(g, N)
    BY <1>1 DEF Turn, Finished, Outcomes
  <2>2. DOMAIN g = N - 0 .. N /\ N - 0 = N /\ 0 \in 0 .. Len(v)
    BY <1>1
  <2> HIDE DEF g, Solves
  <2> QED BY <2>1, <2>2
<1>3. ASSUME NEW k \in 1 .. Len(v), k - 1 \in S PROVE k \in S
  <2>1. PICK g : DOMAIN g = N - (k - 1) .. N /\ Solves(g, N - (k - 1))
    BY <1>3
  <2> DEFINE lo == N - k
             f == [pos \in lo .. N |-> IF pos = lo THEN Turn(v, g, lo) ELSE g[pos]]
  <2>2. lo \in 1 .. N /\ N - (k - 1) = lo + 1 /\ N \in Nat
    BY <1>1
  <2> HIDE DEF lo, N
  <2>3. \A pos \in lo + 1 .. N : f[pos] = g[pos] /\ g[pos] \in Outcomes /\ g[pos] = Turn(v, g, pos)
    BY <2>1, <2>2
  <2>4. f[lo] = Turn(v, g, lo) /\ Turn(v, g, lo) \in Outcomes
    <3>1. f[lo] = Turn(v, g, lo)
      BY <2>2
    <3>2. lo \in 1 .. Len(v) + 1 /\ \A i \in lo + 1 .. Len(v) + 1 : g[i] \in Outcomes
      BY <2>2, <2>3 DEF N
    <3> HIDE DEF f
    <3> QED BY <3>1, <3>2, TurnTypes
  <2> HIDE DEF f
  <2>5. \A pos \in lo .. N : Turn(v, f, pos) = Turn(v, g, pos)
    <3> TAKE pos \in lo .. N
    <3>1. pos \in 1 .. N /\ \A i \in pos + 1 .. N : f[i] = g[i]
      BY <2>2, <2>3
    <3> QED BY <3>1, TurnLocal DEF N
  <2>6. Solves(f, lo)
    BY <2>2, <2>3, <2>4, <2>5
  <2>7. DOMAIN f = lo .. N
    BY DEF f
  <2> HIDE DEF Solves
  <2> QED BY <2>6, <2>7 DEF lo
<1>4. Len(v) \in S
  <2>1. Len(v) \in 0 .. Len(v)
    BY <1>1
  <2> HIDE DEF S
  <2> QED BY <1>1, <1>2, <1>3, <2>1, Induction
<1>5. PICK g : DOMAIN g = 1 .. N /\ Solves(g, 1)
  <2>1. N - Len(v) = 1
    BY <1>1
  <2> QED BY <1>4, <2>1
<1> DEFINE Body(f) == [pos \in 1 .. Len(v) + 1 |->
             LET next == pos + 2 + v[pos + 1]
             IN IF pos > Len(v) THEN [err |-> nil, params |-> <<>>]
                ELSE IF pos + 1 > Len(v) \/ next > Len(v) + 1
                  THEN [err |-> "ErrMalformedParameter", params |-> <<>>]
                ELSE [f[next] EXCEPT !.params =
                        <<[code |-> v[pos], value |-> SubSeq(v, pos + 2, next - 1)]>> \o @]]
           from == CHOOSE f : f = Body(f)
<1>6. \A f : Body(f) = [pos \in 1 .. N |-> Turn(v, f, pos)]
  BY DEF Turn, Finished, Malformed, Overruns, NextPos, ParamAt
<1>7. scan(v) = from[1]
  BY DEF scan
<1> HIDE DEF Body
<1>8. \E f : f = Body(f)
  <2> DEFINE f == [pos \in 1 .. N |-> g[pos]]
  <2>1. \A pos \in 1 .. N : Turn(v, f, pos) = Turn(v, g, pos)
    <3> TAKE pos \in 1 .. N
    <3>1. \A i \in pos + 1 .. N : f[i] = g[i]
      BY <1>1
    <3> HIDE DEF f
    <3> QED BY <3>1, TurnLocal
  <2>2. f = [pos \in 1 .. N |-> Turn(v, f, pos)]
    BY <1>5, <2>1
  <2> HIDE DEF f
  <2> QED BY <1>6, <2>2
<1>9. from = Body(from)
  BY <1>8
<1> HIDE DEF from
<1>10. DOMAIN from = 1 .. N /\ \A pos \in 1 .. N : from[pos] = Turn(v, from, pos)
  BY <1>6, <1>9
<1>11. \A pos \in 1 .. N : from[pos] \in Outcomes
  <2> DEFINE D == {k \in 0 .. Len(v) : \A pos \in N - k .. N : from[pos] \in Outcomes}
  <2>1. 0 \in D
    <3>1. \A pos \in N - 0 .. N : pos \in 1 .. N /\ pos > Len(v)
      BY <1>1
    <3>2. Finished \in Outcomes
      BY DEF Finished, Outcomes
    <3>3. \A pos \in N - 0 .. N : from[pos] = Finished
      BY <1>10, <3>1 DEF Turn
    <3>4. 0 \in 0 .. Len(v)
      BY <1>1
    <3> QED BY <3>2, <3>3, <3>4
  <2>2. ASSUME NEW k \in 1 .. Len(v), k - 1 \in D PROVE k \in D
    <3>1. N - k \in 1 .. N /\ \A i \in (N - k) + 1 .. N : from[i] \in Outcomes
      BY <1>1, <2>2
    <3>2. from[N - k] \in Outcomes
      <4>1. PICK pos \in 1 .. N : pos = N - k
        BY <3>1
      <4> QED BY <1>10, <3>1, <4>1, TurnTypes
    <3>3. \A i \in N - k .. N : i = N - k \/ i \in (N - k) + 1 .. N
      BY <1>1
    <3>4. k \in 0 .. Len(v)
      BY <1>1
    <3> QED BY <3>1, <3>2, <3>3, <3>4
  <2>3. Len(v) \in 0 .. Len(v) /\ N - Len(v) = 1
    BY <1>1
  <2> HIDE DEF D
  <2>4. Len(v) \in D
    BY <1>1, <2>1, <2>2, <2>3, Induction
  <2> QED BY <2>3, <2>4 DEF D
<1>12. from \in [1 .. Len(v) + 1 -> Outcomes]
  BY <1>9, <1>11 DEF Body
<1> QED BY <1>7, <1>10, <1>12

-----------------------------------------------------------------------------
(* What MarshalBinary makes is octets                                      *)

\* The fields of a TPDU.
LEMMA TPDUFields ==
  ASSUME NEW t \in TPDU
  PROVE  /\ t.type \in Types /\ t.eot \in BOOLEAN
         /\ t.calling \in Selector /\ t.called \in Selector
         /\ t.params \in ParameterList /\ t.data \in OctetString
  BY DEF TPDU

\* The numbers of a TPDU, where they are there, have the width of their Go type.
LEMMA TPDUNumbers ==
  ASSUME NEW t \in TPDU
  PROVE  /\ t.cdt # None => t.cdt \in Octet
         /\ t.dst # None => t.dst \in Uint16s
         /\ t.src # None => t.src \in Uint16s
         /\ t.opt # None => t.opt \in Octet
         /\ t.nr # None => t.nr \in Octet
         /\ t.size # None => t.size \in Octet
         /\ t.pref # None => t.pref \in Nat
<1>1. /\ t.cdt \in Opt(Octet) /\ t.dst \in Opt(Uint16s) /\ t.src \in Opt(Uint16s)
      /\ t.opt \in Opt(Octet) /\ t.nr \in Opt(Octet)
      /\ t.size \in Opt(Octet) /\ t.pref \in Opt(Nat)
  BY DEF TPDU
<1>2. \A S, x : x \in Opt(S) /\ x # None => x \in S
  BY DEF Opt
<1> HIDE DEF Opt
<1>3. t.cdt # None => t.cdt \in Octet
  BY <1>1, <1>2, Zenon
<1>4. (t.dst # None => t.dst \in Uint16s) /\ (t.src # None => t.src \in Uint16s)
  BY <1>1, <1>2, Zenon
<1>5. (t.opt # None => t.opt \in Octet) /\ (t.nr # None => t.nr \in Octet)
  BY <1>1, <1>2, Zenon
<1>6. (t.size # None => t.size \in Octet) /\ (t.pref # None => t.pref \in Nat)
  BY <1>1, <1>2, Zenon
<1> QED BY <1>3, <1>4, <1>5, <1>6, Zenon

\* A field that its Go type holds by value is always there.
LEMMA TPDURequired ==
  ASSUME NEW t \in TPDU
  PROVE  /\ t.type \in HasCDT => t.cdt # None
         /\ t.type \in HasSource => t.src # None
         /\ t.type \in HasOption => t.opt # None
         /\ t.dst = None => t.type \in {"DT", "ED"}
  BY SMT DEF TPDU

\* PreferredMaxTPDUSize is a uint32.
LEMMA TPDUPreferred ==
  ASSUME NEW t \in TPDU
  PROVE  t.pref # None => t.pref \div 16777216 <= 255
  BY SMT DEF TPDU

\* encodeVariablePart gives octets or an error.
LEMMA EncodeTypes ==
  ASSUME NEW params \in Seq(Parameters)
  PROVE  encodeVariablePart(params) \in Wires
<1>1. Wire(nil, <<>>) \in Wires
  BY DEF Wire, Wires
<1>2. PICK f \in [0 .. Len(params) -> Wires] : FoldLeft(appendParameter, Wire(nil, <<>>), params) = f[Len(params)]
  BY <1>1, AppendFold
<1>3. Len(params) \in 0 .. Len(params)
  OBVIOUS
<1> QED BY <1>2, <1>3 DEF encodeVariablePart

\* The shortest octets of a preferred maximum, which is a uint32 and not zero.
LEMMA PreferredTypes ==
  ASSUME NEW units \in Nat, units # 0, units \div 16777216 <= 255
  PROVE  encodePreferredMaxUnits(units) \in Seq(Octet)
<1> DEFINE octets == <<units \div 16777216, (units \div 65536) % 256, (units \div 256) % 256, units % 256>>
           Leads(i) == octets[i] # 0 /\ \A j \in 1 .. i - 1 : octets[j] = 0
           lead == CHOOSE i \in 1 .. 4 : Leads(i)
<1>1. octets \in Seq(Octet) /\ Len(octets) = 4
  BY DEF Octet
<1>2. \E i \in 1 .. 4 : Leads(i)
  <2>1. octets[1] # 0 \/ octets[2] # 0 \/ octets[3] # 0 \/ octets[4] # 0
    OBVIOUS
  <2>2. \/ Leads(1) \/ Leads(2) \/ Leads(3) \/ Leads(4)
    BY <2>1
  <2> HIDE DEF Leads
  <2> QED BY <2>2
<1>3. lead \in 1 .. 4
  <2> HIDE DEF Leads
  <2> QED BY <1>2
<1>4. encodePreferredMaxUnits(units) = SubSeq(octets, lead, 4)
  BY DEF encodePreferredMaxUnits
<1> HIDE DEF octets, lead
<1>5. PICK i \in 1 .. 4 : i = lead
  BY <1>3, SMT
<1>6. SubSeq(octets, i, 4) \in Seq(Octet)
  BY <1>1, SMT
<1> QED BY <1>4, <1>5, <1>6, SMT

\* encodeCRCCVariablePart gives octets or an error.
LEMMA EncodeCRCCTypes ==
  ASSUME NEW t \in TPDU
  PROVE  encodeCRCCVariablePart(t) \in Wires
<1> DEFINE selector(code, s) == IF s = Absent THEN <<>> ELSE <<[code |-> code, value |-> s[1]]>>
           calling == selector(ParamCallingSelector, t.calling)
           called == selector(ParamCalledSelector, t.called)
           size == IF t.size = None THEN <<>> ELSE <<[code |-> ParamTPDUSize, value |-> <<t.size>>]>>
           pref == IF t.pref = None THEN <<>>
                   ELSE <<[code |-> ParamPreferredMaxTPDUSize, value |-> encodePreferredMaxUnits(t.pref)]>>
<1>1. ASSUME NEW code \in Octet, NEW s \in Seq(Seq(Octet)) PROVE selector(code, s) \in Seq(Parameters)
  <2>1. CASE s = Absent
    BY <2>1
  <2>2. CASE s # Absent
    <3>1. s[1] \in Seq(Octet)
      BY <2>2 DEF Absent
    <3>2. [code |-> code, value |-> s[1]] \in Parameters
      BY <3>1 DEF Parameters, OctetString
    <3> QED BY <2>2, <3>2
  <2> QED BY <2>1, <2>2
<1>2. calling \in Seq(Parameters) /\ called \in Seq(Parameters)
  <2>1. /\ ParamCallingSelector \in Octet /\ ParamCalledSelector \in Octet
        /\ t.calling \in Seq(Seq(Octet)) /\ t.called \in Seq(Seq(Octet))
    BY TPDUFields DEF ParamCallingSelector, ParamCalledSelector, Octet, Selector, OctetString
  <2> HIDE DEF selector
  <2> QED BY <1>1, <2>1
<1>3. size \in Seq(Parameters)
  <2>1. CASE t.size = None
    BY <2>1
  <2>2. CASE t.size # None
    <3>1. <<t.size>> \in Seq(Octet) /\ ParamTPDUSize \in Octet
      BY <2>2, TPDUNumbers DEF ParamTPDUSize, Octet
    <3>2. [code |-> ParamTPDUSize, value |-> <<t.size>>] \in Parameters
      BY <3>1 DEF Parameters, OctetString
    <3> QED BY <2>2, <3>2
  <2> QED BY <2>1, <2>2
<1>4. ASSUME t.pref # 0 PROVE pref \in Seq(Parameters)
  <2>1. CASE t.pref = None
    BY <2>1
  <2>2. CASE t.pref # None
    <3>1. t.pref \in Nat /\ ParamPreferredMaxTPDUSize \in Octet
      BY <2>2, TPDUNumbers DEF ParamPreferredMaxTPDUSize, Octet
    <3>2. encodePreferredMaxUnits(t.pref) \in Seq(Octet)
      BY <1>4, <2>2, <3>1, TPDUPreferred, PreferredTypes, SMT
    <3>3. [code |-> ParamPreferredMaxTPDUSize, value |-> encodePreferredMaxUnits(t.pref)] \in Parameters
      BY <3>1, <3>2 DEF Parameters, OctetString
    <3> QED BY <2>2, <3>3
  <2> QED BY <2>1, <2>2
<1>5. encodeCRCCVariablePart(t) = IF t.pref = 0 THEN Wire("ErrUnexpectedParameterLength", <<>>)
        ELSE FoldLeft(appendUnknown, encodeVariablePart(calling \o called \o size \o pref), t.params)
  BY DEF encodeCRCCVariablePart
<1> HIDE DEF calling, called, size, pref
<1>6. CASE t.pref = 0
  BY <1>5, <1>6 DEF Wire, Wires
<1>7. CASE t.pref # 0
  <2>1. calling \o called \o size \o pref \in Seq(Parameters)
    BY <1>2, <1>3, <1>4, <1>7
  <2>2. PICK base \in Wires : base = encodeVariablePart(calling \o called \o size \o pref)
    BY <2>1, EncodeTypes
  <2>3. PICK ps \in Seq(Parameters) : ps = t.params
    <3>1. t.params \in ParameterList
      BY TPDUFields
    <3> QED BY <3>1 DEF ParameterList
  <2>4. PICK f \in [0 .. Len(ps) -> Wires] : FoldLeft(appendUnknown, base, ps) = f[Len(ps)]
    BY UnknownFold
  <2>5. Len(ps) \in 0 .. Len(ps)
    OBVIOUS
  <2> QED BY <1>5, <1>7, <2>2, <2>3, <2>4, <2>5
<1> QED BY <1>6, <1>7

\* The ten types and their codes.
LEMMA TypeTable ==
  /\ Types = {"CR", "CC", "DR", "DC", "DT", "ER", "ED", "AK", "EA", "RJ"}
  /\ \A t \in Types : TPDUType[t] \in 16 .. 240 /\ (t \in HasCDT => TPDUType[t] <= 224)
<1>1. Types = {"CR", "CC", "DR", "DC", "DT", "ER", "ED", "AK", "EA", "RJ"}
  BY DEF Types, TPDUType
<1> QED BY <1>1 DEF TPDUType, HasCDT

\* The octets of a number of two.
LEMMA OctetsTypes ==
  ASSUME NEW u \in Uint16s
  PROVE  Octets(u) \in Seq(Octet) /\ Len(Octets(u)) = 2
<1>1. u \in Int /\ 0 <= u /\ u <= 65535
  BY SMT DEF Uint16s
<1>2. u \div 256 \in Int /\ 0 <= u \div 256 /\ u \div 256 <= 255
  BY <1>1, SMT
<1>3. u % 256 \in 0 .. 255
  BY <1>1, SMT
<1>4. u \div 256 \in Octet /\ u % 256 \in Octet
  BY <1>2, <1>3 DEF Octet
<1> QED BY <1>4 DEF Octets

\* TPDU-NR and EOT in one octet.
LEMMA NrTypes ==
  ASSUME NEW nr \in Octet, NEW eot \in BOOLEAN
  PROVE  (nr % 128) + (IF eot THEN 128 ELSE 0) \in Octet
<1>1. nr % 128 \in 0 .. 127
  BY DEF Octet
<1>2. CASE eot
  BY <1>1, <1>2 DEF Octet
<1>3. CASE ~eot
  BY <1>1, <1>3 DEF Octet
<1> QED BY <1>2, <1>3

\* The fixed part of every type but DT.
LEMMA FixedTypes ==
  ASSUME NEW t \in TPDU, t.dst # None, t.type = "ED" => t.nr # None
  PROVE  fixedPart(t) \in Seq(Octet)
<1> DEFINE code == TPDUType[t.type] + (IF t.type \in HasCDT THEN t.cdt % 16 ELSE 0)
           src == IF t.type \in HasSource THEN Octets(t.src) ELSE <<>>
           nr == (t.nr % 128) + (IF t.eot THEN 128 ELSE 0)
           last == IF t.type \in HasOption THEN <<t.opt>> ELSE IF t.type = "ED" THEN <<nr>> ELSE <<>>
<1>1. code \in Octet
  <2>1. TPDUType[t.type] \in 16 .. 240 /\ (t.type \in HasCDT => TPDUType[t.type] <= 224)
    BY TypeTable, TPDUFields
  <2>2. CASE t.type \in HasCDT
    <3>1. t.cdt \in Octet
      BY <2>2, TPDUNumbers, TPDURequired
    <3>2. t.cdt % 16 \in 0 .. 15
      BY <3>1 DEF Octet
    <3> QED BY <2>1, <2>2, <3>2, SMTT(40) DEF Octet
  <2>3. CASE t.type \notin HasCDT
    BY <2>1, <2>3 DEF Octet
  <2> QED BY <2>2, <2>3
<1>2. Octets(t.dst) \in Seq(Octet)
  BY TPDUNumbers, OctetsTypes
<1>3. src \in Seq(Octet)
  <2>1. CASE t.type \in HasSource
    BY <2>1, TPDUNumbers, TPDURequired, OctetsTypes
  <2>2. CASE t.type \notin HasSource
    BY <2>2
  <2> QED BY <2>1, <2>2
<1>4. last \in Seq(Octet)
  <2>1. CASE t.type \in HasOption
    <3>1. t.opt \in Octet
      BY <2>1, TPDUNumbers, TPDURequired
    <3> QED BY <2>1, <3>1
  <2>2. CASE t.type \notin HasOption /\ t.type = "ED"
    <3>1. t.nr \in Octet /\ t.eot \in BOOLEAN
      BY <2>2, TPDUNumbers, TPDUFields
    <3>2. nr \in Octet
      BY <3>1, NrTypes
    <3> HIDE DEF nr
    <3> QED BY <2>2, <3>2
  <2>3. CASE t.type \notin HasOption /\ t.type # "ED"
    BY <2>3
  <2> QED BY <2>1, <2>2, <2>3
<1>5. fixedPart(t) = <<code>> \o Octets(t.dst) \o src \o last
  BY DEF fixedPart
<1> HIDE DEF code, src, last
<1> QED BY <1>1, <1>2, <1>3, <1>4, <1>5

\* What a marshalling method returns: octets, unless it is an error.
IsWire(w) == w.err = nil => w.octets \in Seq(Octet)

\* The common end of the MarshalBinary methods makes octets: the LI fits one.
LEMMA AssembleTypes ==
  ASSUME NEW fixed \in Seq(Octet), NEW var \in Wires, NEW data \in Seq(Octet)
  PROVE  IsWire(assemble(fixed, var, data))
<1> DEFINE li == Len(fixed) + Len(var.octets)
<1>1. var.octets \in Seq(Octet) /\ li \in Nat
  BY DEF Wires
<1>2. CASE var.err # nil
  BY <1>2 DEF assemble, IsWire
<1>3. CASE var.err = nil /\ li > MaxLI
  <2>1. assemble(fixed, var, data) = Wire("ErrInvalidLI", <<>>)
    BY <1>3 DEF assemble
  <2> QED BY <2>1 DEF Wire, IsWire, nil
<1>4. CASE var.err = nil /\ ~(li > MaxLI)
  <2>1. li \in Octet
    <3>1. PICK n \in Nat : n = li
      BY <1>1
    <3>2. ~(n > 254)
      BY <1>4, <3>1 DEF MaxLI
    <3>3. n \in Octet
      BY <3>2 DEF Octet
    <3> QED BY <3>1, <3>3
  <2>2. assemble(fixed, var, data) = Wire(nil, <<li>> \o fixed \o var.octets \o data)
    BY <1>4 DEF assemble
  <2> HIDE DEF li
  <2>3. <<li>> \o fixed \o var.octets \o data \in Seq(Octet)
    BY <1>1, <2>1
  <2> QED BY <2>2, <2>3 DEF Wire, IsWire
<1> QED BY <1>2, <1>3, <1>4

\* MarshalBinary of every type makes octets or reports an error.
LEMMA MarshalTypes ==
  ASSUME NEW t \in TPDU
  PROVE  IsWire(Marshal(t))
<1>1. t.data \in Seq(Octet) /\ t.params \in Seq(Parameters) /\ t.type \in Types
  <2>1. t.data \in OctetString /\ t.params \in ParameterList /\ t.type \in Types
    BY TPDUFields
  <2> QED BY <2>1 DEF OctetString, ParameterList
<1>2. /\ encodeVariablePart(t.params) \in Wires /\ encodeCRCCVariablePart(t) \in Wires
      /\ Wire(nil, <<>>) \in Wires /\ <<>> \in Seq(Octet)
  BY <1>1, EncodeTypes, EncodeCRCCTypes DEF Wire, Wires
<1>3. ASSUME t.dst # None, t.type = "ED" => t.nr # None,
             NEW var \in Wires, NEW data \in Seq(Octet)
      PROVE  IsWire(assemble(fixedPart(t), var, data))
  BY <1>3, FixedTypes, AssembleTypes
<1>4. t.type \notin {"DT", "ED"} => t.dst # None
  BY TPDURequired
<1>5. CASE t.type = "CR"
  <2>1. IsWire(assemble(fixedPart(t), encodeCRCCVariablePart(t), t.data))
    BY <1>1, <1>2, <1>3, <1>4, <1>5
  <2>2. IsWire(Wire("ErrLengthMismatch", <<>>))
    BY DEF IsWire, Wire, nil
  <2>3. IsWire(MarshalCR(t))
    BY <2>1, <2>2 DEF MarshalCR
  <2> QED BY <1>5, <2>3 DEF Marshal
<1>6. CASE t.type = "CC"
  BY <1>1, <1>2, <1>3, <1>4, <1>6 DEF Marshal, MarshalCC
<1>7. CASE t.type = "DR"
  BY <1>1, <1>2, <1>3, <1>4, <1>7 DEF Marshal, MarshalDR
<1>8. CASE t.type \in {"DC", "ER", "AK", "EA"}
  <2>1. IsWire(assemble(fixedPart(t), encodeVariablePart(t.params), <<>>))
    <3>1. PICK data \in Seq(Octet) : data = <<>>
      BY <1>2
    <3>2. t.dst # None /\ t.type # "ED"
      BY <1>4, <1>8
    <3> QED BY <1>2, <1>3, <3>1, <3>2
  <2> QED BY <1>8, <2>1 DEF Marshal, MarshalDC, MarshalER, MarshalAK, MarshalEA
<1>9. CASE t.type = "RJ"
  <2>1. PICK data \in Seq(Octet) : data = <<>>
    BY <1>2
  <2>2. t.dst # None /\ t.type # "ED"
    BY <1>4, <1>9
  <2>3. IsWire(assemble(fixedPart(t), Wire(nil, <<>>), <<>>))
    BY <1>2, <1>3, <2>1, <2>2
  <2> QED BY <1>9, <2>3 DEF Marshal, MarshalRJ
<1>10. CASE t.type = "ED"
  <2>1. IsWire(Wire("ErrMissingRequiredField", <<>>)) /\ IsWire(Wire("ErrInvalidEDUserDataLength", <<>>))
    BY DEF IsWire, Wire, nil
  <2>2. t.dst # None /\ t.nr # None => IsWire(assemble(fixedPart(t), encodeVariablePart(t.params), t.data))
    BY <1>1, <1>2, <1>3
  <2>3. IsWire(MarshalED(t))
    BY <2>1, <2>2 DEF MarshalED
  <2> QED BY <1>10, <2>3 DEF Marshal
<1>11. CASE t.type = "DT"
  <2> DEFINE nr == (IF t.nr = None THEN 0 ELSE (t.nr % 128)) + (IF t.eot THEN 128 ELSE 0)
             fixed == IF t.dst = None THEN <<240, nr>> ELSE <<240>> \o Octets(t.dst) \o <<nr>>
  <2>1. nr \in Octet
    <3>1. t.eot \in BOOLEAN
      BY TPDUFields
    <3>2. CASE t.nr # None
      <4>1. t.nr \in Octet
        BY <3>2, TPDUNumbers
      <4> QED BY <3>1, <3>2, <4>1, NrTypes
    <3>3. CASE t.nr = None
      <4>1. CASE t.eot
        BY <3>3, <4>1 DEF Octet
      <4>2. CASE ~t.eot
        BY <3>3, <4>2 DEF Octet
      <4> QED BY <4>1, <4>2
    <3> QED BY <3>2, <3>3
  <2>2. MarshalDT(t) = assemble(fixed, encodeVariablePart(t.params), t.data)
    BY DEF MarshalDT
  <2> HIDE DEF nr
  <2>3. fixed \in Seq(Octet)
    <3>1. 240 \in Octet
      BY DEF Octet
    <3>2. CASE t.dst = None
      BY <2>1, <3>1, <3>2
    <3>3. CASE t.dst # None
      <4>1. Octets(t.dst) \in Seq(Octet)
        BY <3>3, TPDUNumbers, OctetsTypes
      <4> QED BY <2>1, <3>1, <3>3, <4>1
    <3> QED BY <3>2, <3>3
  <2> HIDE DEF fixed
  <2>4. IsWire(MarshalDT(t))
    BY <1>1, <1>2, <2>2, <2>3, AssembleTypes
  <2> QED BY <1>11, <2>4 DEF Marshal
<1>12. t.type \in {"CR", "CC", "DR", "DC", "DT", "ER", "ED", "AK", "EA", "RJ"}
  BY <1>1, TypeTable
<1> QED BY <1>5, <1>6, <1>7, <1>8, <1>9, <1>10, <1>11, <1>12

-----------------------------------------------------------------------------
(* What Decode accepts                                                     *)

\* The parsers refuse for two reasons, and what they return are parameters.
LEMMA ScanTypes ==
  ASSUME NEW v \in Seq(Octet)
  PROVE  scan(v) \in Outcomes
<1>1. PICK f \in [1 .. Len(v) + 1 -> Outcomes] : scan(v) = f[1]
  BY ScanTurns
<1>2. 1 \in 1 .. Len(v) + 1
  OBVIOUS
<1> QED BY <1>1, <1>2

\* parseVariablePart returns parameters, or none with its error.
LEMMA ParseTypes ==
  ASSUME NEW v \in Seq(Octet)
  PROVE  parseVariablePart(v) \in Outcomes
<1>1. scan(v) \in Outcomes
  BY ScanTypes
<1>2. [scan(v) EXCEPT !.params = <<>>] \in Outcomes
  <2>1. PICK r \in Outcomes : r = scan(v)
    BY <1>1
  <2>2. PICK none \in Seq(Parameters) : none = <<>>
    <3>1. <<>> \in Seq(Parameters)
      OBVIOUS
    <3> QED BY <3>1
  <2>3. [r EXCEPT !.params = none] \in Outcomes
    BY DEF Outcomes
  <2> QED BY <2>1, <2>2, <2>3
<1> QED BY <1>1, <1>2 DEF parseVariablePart

\* The two parsers agree on what is malformed, and parseCRCCVariablePart takes
\* the parameters that parseVariablePart returns.
LEMMA ParseCRCC ==
  ASSUME NEW v \in Seq(Octet)
  PROVE  /\ parseCRCCVariablePart(v).err \in {nil, "ErrMalformedParameter", "ErrUnexpectedParameterLength"}
         /\ parseCRCCVariablePart(v).err = nil =>
              /\ parseVariablePart(v).err = nil
              /\ FoldLeft(applyParameter, NoCRCC, parseVariablePart(v).params).err = nil
              /\ parseCRCCVariablePart(v) = FoldLeft(applyParameter, NoCRCC, parseVariablePart(v).params)
<1> DEFINE r == FoldLeft(applyParameter, NoCRCC, scan(v).params)
<1>1. scan(v).err \in {nil, "ErrMalformedParameter"} /\ scan(v).params \in Seq(Parameters)
  BY ScanTypes DEF Outcomes
<1>2. NoCRCC \in Found
  BY DEF NoCRCC, Found, Absent
<1>3. r \in Found
  <2>1. PICK s \in Seq(Parameters) : s = scan(v).params
    BY <1>1
  <2>2. PICK f \in [0 .. Len(s) -> Found] : FoldLeft(applyParameter, NoCRCC, s) = f[Len(s)]
    BY <1>2, ApplyFold
  <2>3. Len(s) \in 0 .. Len(s)
    OBVIOUS
  <2> QED BY <2>1, <2>2, <2>3
<1>4. parseCRCCVariablePart(v) = [r EXCEPT !.err = Then(@, scan(v).err)]
  BY DEF parseCRCCVariablePart
<1> HIDE DEF r
<1>5. parseCRCCVariablePart(v).err = Then(r.err, scan(v).err)
  BY <1>3, <1>4 DEF Found
<1>6. ASSUME parseCRCCVariablePart(v).err = nil
      PROVE  r.err = nil /\ scan(v).err = nil /\ parseCRCCVariablePart(v) = r
  <2>1. r.err = nil /\ scan(v).err = nil
    BY <1>5, <1>6 DEF Then
  <2>2. [r EXCEPT !.err = nil] = r
    BY <1>3, <2>1 DEF Found
  <2> QED BY <1>4, <2>1, <2>2 DEF Then
<1>7. r.err \in {nil, "ErrUnexpectedParameterLength"}
  BY <1>3 DEF Found
<1>8. Then(r.err, scan(v).err) \in {nil, "ErrMalformedParameter", "ErrUnexpectedParameterLength"}
  BY <1>1, <1>7 DEF Then
<1> QED BY <1>5, <1>6, <1>8 DEF parseVariablePart, r

\* The code octets of each type.
LEMMA CodeTable ==
  ASSUME NEW code
  PROVE  /\ HasCode("CR", code) <=> code \in 224 .. 239
         /\ HasCode("CC", code) <=> code \in 208 .. 223
         /\ HasCode("DR", code) <=> code \in 128 .. 128
         /\ HasCode("DC", code) <=> code \in 192 .. 192
         /\ HasCode("DT", code) <=> code \in 240 .. 241
         /\ HasCode("ER", code) <=> code \in 112 .. 112
         /\ HasCode("ED", code) <=> code \in 16 .. 16
         /\ HasCode("AK", code) <=> code \in 96 .. 111
         /\ HasCode("EA", code) <=> code \in 32 .. 32
         /\ HasCode("RJ", code) <=> code \in 80 .. 95
<1>1. HasCode("CR", code) <=> code \in 224 .. 239
  <2>1. "CR" \in Types /\ TPDUType["CR"] = 224
    BY TypeTable, SMT DEF TPDUType
  <2>2. LowCodes["CR"] = 16
    BY <2>1, SMT DEF LowCodes
  <2>3. HasCode("CR", code) <=> code \in 224 .. (224 + 16 - 1)
    BY <2>1, <2>2, SMT DEF HasCode
  <2>4. 224 + 16 - 1 = 239
    BY SMT
  <2> QED BY <2>3, <2>4, SMT
<1>2. HasCode("CC", code) <=> code \in 208 .. 223
  <2>1. "CC" \in Types /\ TPDUType["CC"] = 208
    BY TypeTable, SMT DEF TPDUType
  <2>2. LowCodes["CC"] = 16
    BY <2>1, SMT DEF LowCodes
  <2>3. HasCode("CC", code) <=> code \in 208 .. (208 + 16 - 1)
    BY <2>1, <2>2, SMT DEF HasCode
  <2>4. 208 + 16 - 1 = 223
    BY SMT
  <2> QED BY <2>3, <2>4, SMT
<1>3. HasCode("DR", code) <=> code \in 128 .. 128
  <2>1. "DR" \in Types /\ TPDUType["DR"] = 128
    BY TypeTable, SMT DEF TPDUType
  <2>2. LowCodes["DR"] = 1
    BY <2>1, SMT DEF LowCodes
  <2>3. HasCode("DR", code) <=> code \in 128 .. (128 + 1 - 1)
    BY <2>1, <2>2, SMT DEF HasCode
  <2>4. 128 + 1 - 1 = 128
    BY SMT
  <2> QED BY <2>3, <2>4, SMT
<1>4. HasCode("DC", code) <=> code \in 192 .. 192
  <2>1. "DC" \in Types /\ TPDUType["DC"] = 192
    BY TypeTable, SMT DEF TPDUType
  <2>2. LowCodes["DC"] = 1
    BY <2>1, SMT DEF LowCodes
  <2>3. HasCode("DC", code) <=> code \in 192 .. (192 + 1 - 1)
    BY <2>1, <2>2, SMT DEF HasCode
  <2>4. 192 + 1 - 1 = 192
    BY SMT
  <2> QED BY <2>3, <2>4, SMT
<1>5. HasCode("DT", code) <=> code \in 240 .. 241
  <2>1. "DT" \in Types /\ TPDUType["DT"] = 240
    BY TypeTable, SMT DEF TPDUType
  <2>2. LowCodes["DT"] = 2
    BY <2>1, SMT DEF LowCodes
  <2>3. HasCode("DT", code) <=> code \in 240 .. (240 + 2 - 1)
    BY <2>1, <2>2, SMT DEF HasCode
  <2>4. 240 + 2 - 1 = 241
    BY SMT
  <2> QED BY <2>3, <2>4, SMT
<1>6. HasCode("ER", code) <=> code \in 112 .. 112
  <2>1. "ER" \in Types /\ TPDUType["ER"] = 112
    BY TypeTable, SMT DEF TPDUType
  <2>2. LowCodes["ER"] = 1
    BY <2>1, SMT DEF LowCodes
  <2>3. HasCode("ER", code) <=> code \in 112 .. (112 + 1 - 1)
    BY <2>1, <2>2, SMT DEF HasCode
  <2>4. 112 + 1 - 1 = 112
    BY SMT
  <2> QED BY <2>3, <2>4, SMT
<1>7. HasCode("ED", code) <=> code \in 16 .. 16
  <2>1. "ED" \in Types /\ TPDUType["ED"] = 16
    BY TypeTable, SMT DEF TPDUType
  <2>2. LowCodes["ED"] = 1
    BY <2>1, SMT DEF LowCodes
  <2>3. HasCode("ED", code) <=> code \in 16 .. (16 + 1 - 1)
    BY <2>1, <2>2, SMT DEF HasCode
  <2>4. 16 + 1 - 1 = 16
    BY SMT
  <2> QED BY <2>3, <2>4, SMT
<1>8. HasCode("AK", code) <=> code \in 96 .. 111
  <2>1. "AK" \in Types /\ TPDUType["AK"] = 96
    BY TypeTable, SMT DEF TPDUType
  <2>2. LowCodes["AK"] = 16
    BY <2>1, SMT DEF LowCodes
  <2>3. HasCode("AK", code) <=> code \in 96 .. (96 + 16 - 1)
    BY <2>1, <2>2, SMT DEF HasCode
  <2>4. 96 + 16 - 1 = 111
    BY SMT
  <2> QED BY <2>3, <2>4, SMT
<1>9. HasCode("EA", code) <=> code \in 32 .. 32
  <2>1. "EA" \in Types /\ TPDUType["EA"] = 32
    BY TypeTable, SMT DEF TPDUType
  <2>2. LowCodes["EA"] = 1
    BY <2>1, SMT DEF LowCodes
  <2>3. HasCode("EA", code) <=> code \in 32 .. (32 + 1 - 1)
    BY <2>1, <2>2, SMT DEF HasCode
  <2>4. 32 + 1 - 1 = 32
    BY SMT
  <2> QED BY <2>3, <2>4, SMT
<1>10. HasCode("RJ", code) <=> code \in 80 .. 95
  <2>1. "RJ" \in Types /\ TPDUType["RJ"] = 80
    BY TypeTable, SMT DEF TPDUType
  <2>2. LowCodes["RJ"] = 16
    BY <2>1, SMT DEF LowCodes
  <2>3. HasCode("RJ", code) <=> code \in 80 .. (80 + 16 - 1)
    BY <2>1, <2>2, SMT DEF HasCode
  <2>4. 80 + 16 - 1 = 95
    BY SMT
  <2> QED BY <2>3, <2>4, SMT
<1> QED BY <1>1, <1>2, <1>3, <1>4, <1>5, <1>6, <1>7, <1>8, <1>9, <1>10, SMT

\* No code octet belongs to two types.
LEMMA CodesApart ==
  ASSUME NEW t \in Types, NEW u \in Types, NEW code, HasCode(t, code), HasCode(u, code)
  PROVE  t = u
<1>1. Types = {"CR", "CC", "DR", "DC", "DT", "ER", "ED", "AK", "EA", "RJ"}
  BY TypeTable
<1>2. ASSUME t = "CR" PROVE u = t
  BY <1>1, <1>2, CodeTable, SMT
<1>3. ASSUME t = "CC" PROVE u = t
  BY <1>1, <1>3, CodeTable, SMT
<1>4. ASSUME t = "DR" PROVE u = t
  BY <1>1, <1>4, CodeTable, SMT
<1>5. ASSUME t = "DC" PROVE u = t
  BY <1>1, <1>5, CodeTable, SMT
<1>6. ASSUME t = "DT" PROVE u = t
  BY <1>1, <1>6, CodeTable, SMT
<1>7. ASSUME t = "ER" PROVE u = t
  BY <1>1, <1>7, CodeTable, SMT
<1>8. ASSUME t = "ED" PROVE u = t
  BY <1>1, <1>8, CodeTable, SMT
<1>9. ASSUME t = "AK" PROVE u = t
  BY <1>1, <1>9, CodeTable, SMT
<1>10. ASSUME t = "EA" PROVE u = t
  BY <1>1, <1>10, CodeTable, SMT
<1>11. ASSUME t = "RJ" PROVE u = t
  BY <1>1, <1>11, CodeTable, SMT
<1> QED BY <1>1, <1>2, <1>3, <1>4, <1>5, <1>6, <1>7, <1>8, <1>9, <1>10, <1>11

\* Octets that look like a type are of that type.
LEMMA PeekLooksLike ==
  ASSUME NEW b \in Seq(Octet), NEW t \in Types, LooksLike(t, b)
  PROVE  PeekType(b) = Ok([type |-> t])
<1>1. ~(Len(b) < MinHeaderLength) /\ ReadLI(b) = nil /\ HasCode(t, b[2])
  BY DEF LooksLike, MinHeaderLength
<1>2. \A u \in Types : HasCode(u, b[2]) => u = t
  BY <1>1, CodesApart
<1>3. (CHOOSE u \in Types : HasCode(u, b[2])) = t
  BY <1>1, <1>2
<1> QED BY <1>1, <1>3 DEF PeekType

\* What PeekType says of octets of a known type.
LEMMA PeekHasCode ==
  ASSUME NEW b, PeekType(b).err = nil
  PROVE  \E t \in Types : /\ PeekType(b) = Ok([type |-> t]) /\ HasCode(t, b[2])
                          /\ ~(Len(b) < MinHeaderLength) /\ ReadLI(b) = nil
<1>1. \A e : Fail(e).err = e
  BY DEF Fail, Result
<1>2. ~(Len(b) < MinHeaderLength) /\ ReadLI(b) = nil
  BY <1>1 DEF PeekType, nil
<1>3. \E t \in Types : HasCode(t, b[2])
  BY <1>1, <1>2 DEF PeekType, nil
<1>4. (CHOOSE t \in Types : HasCode(t, b[2])) \in Types /\ HasCode(CHOOSE t \in Types : HasCode(t, b[2]), b[2])
  BY <1>3
<1>5. PeekType(b) = Ok([type |-> CHOOSE t \in Types : HasCode(t, b[2])])
  BY <1>2, <1>3 DEF PeekType
<1> QED BY <1>2, <1>4, <1>5

\* The fixed part of every type but DT has four octets to six.
LEMMA FixedLengths ==
  \A t \in Types : t # "DT" => FixedPartLength[t] \in 4 .. 6
  BY TypeTable DEF FixedPartLength

\* What the checks at the head of every DecodeXX let pass.
LEMMA HeaderChecked ==
  ASSUME NEW type \in Types, type # "DT", NEW b \in Seq(Octet)
  PROVE  /\ headerError(type, b) = nil =>
              /\ LooksLike(type, b) /\ FixedPartLength[type] <= b[1]
              /\ b[1] \in Octet /\ HeaderLength(b) <= Len(b)
         /\ headerError(type, b) = "ErrInvalidTPDUCode" => ~HasCode(type, b[2])
         /\ headerError(type, b) # "ErrReservedTPDU"
<1>1. PICK n \in 4 .. 6 : n = FixedPartLength[type]
  BY FixedLengths
<1>2. PICK len \in Nat : len = Len(b)
  OBVIOUS
<1>3. CASE len < 1 + n
  <2>1. headerError(type, b) = "ErrTooShort"
    BY <1>1, <1>2, <1>3 DEF headerError
  <2> QED BY <2>1 DEF nil
<1>4. CASE ~(len < 1 + n)
  <2>1. b[1] \in Octet /\ ~(len < 1) /\ len >= 2
    BY <1>2, <1>4
  <2>2. PICK li \in Octet : li = b[1]
    BY <2>1
  <2>3. headerError(type, b) = Then(ReadLI(b), Then(headerBounds(b, n),
          IF HasCode(type, b[2]) THEN nil ELSE "ErrInvalidTPDUCode"))
    BY <1>1, <1>2, <1>4 DEF headerError
  <2>4. ReadLI(b) \in {nil, "ErrTooShort", "ErrInvalidLI"}
    BY DEF ReadLI
  <2>5. headerBounds(b, n) \in {nil, "ErrTooShort", "ErrInvalidLI"}
    BY DEF headerBounds
  <2>6. headerBounds(b, n) = nil => ~(li < n) /\ ~(len < HeaderLength(b))
    BY <1>2, <2>2 DEF headerBounds, nil
  <2>7. HeaderLength(b) = 1 + li
    BY <2>2 DEF HeaderLength
  <2>8. CASE headerError(type, b) = nil
    <3>1. ReadLI(b) = nil /\ headerBounds(b, n) = nil /\ HasCode(type, b[2])
      BY <2>3, <2>4, <2>5, <2>8 DEF Then, nil
    <3>2. n <= li /\ 1 + li <= len
      BY <2>6, <2>7, <3>1 DEF Octet
    <3>3. LooksLike(type, b)
      BY <1>2, <2>1, <2>7, <3>1, <3>2 DEF LooksLike, MinHeaderLength, Octet
    <3> QED BY <1>1, <1>2, <2>2, <2>7, <2>8, <3>2, <3>3 DEF nil
  <2>9. CASE headerError(type, b) # nil
    BY <2>3, <2>4, <2>5, <2>9 DEF Then, nil
  <2> QED BY <2>8, <2>9
<1> QED BY <1>3, <1>4

\* The octets of the variable part.
LEMMA VariableTypes ==
  ASSUME NEW type \in Types, type # "DT", NEW b \in Seq(Octet), headerError(type, b) = nil
  PROVE  variablePart(type, b) \in Seq(Octet)
<1>1. PICK n \in 4 .. 6 : n = FixedPartLength[type]
  BY FixedLengths
<1>2. PICK m \in Nat : m = HeaderLength(b) /\ m <= Len(b)
  <2>1. b[1] \in Octet /\ HeaderLength(b) <= Len(b)
    BY HeaderChecked
  <2>2. HeaderLength(b) \in Nat
    <3>1. \A li \in Octet : 1 + li \in Nat
      BY DEF Octet
    <3> QED BY <2>1, <3>1 DEF HeaderLength
  <2> QED BY <2>1, <2>2
<1>3. SubSeq(b, 2 + n, m) \in Seq(Octet)
  BY <1>2
<1> QED BY <1>1, <1>2, <1>3 DEF variablePart

\* A result of decoding octets as a type is not about the code if that is the
\* type's, and a TPDU is of the type that the octets look like.
Judged(type, b, r) ==
  /\ r.err = nil => LooksLike(type, b) /\ r.tpdu.type = type
  /\ HasCode(type, b[2]) => r.err \notin {"ErrInvalidTPDUCode", "ErrReservedTPDU"}

\* The two kinds of result of a decoder.
LEMMA FailOk ==
  /\ \A e : Fail(e).err = e
  /\ \A t : Ok(t).err = nil /\ Ok(t).tpdu = t
  BY DEF Fail, Ok, Result

\* The tests of decodePlain, and of the decoders built on it, include those of LooksLike.
LEMMA PlainJudged ==
  ASSUME NEW type \in Types, type # "DT", NEW b \in Seq(Octet)
  PROVE  Judged(type, b, decodePlain(type, b))
<1> DEFINE p == parseVariablePart(variablePart(type, b))
           t == [fixedFields(type, b) EXCEPT !.params = p.params]
<1>1. CASE headerError(type, b) # nil
  <2>1. decodePlain(type, b) = Fail(headerError(type, b))
    BY <1>1 DEF decodePlain
  <2> QED BY <1>1, <2>1, FailOk, HeaderChecked DEF Judged
<1>2. CASE headerError(type, b) = nil
  <2>1. p.err \in {nil, "ErrMalformedParameter"}
    BY <1>2, VariableTypes, ParseTypes DEF Outcomes
  <2>2. decodePlain(type, b) = IF p.err # nil THEN Fail(p.err) ELSE Ok(t)
    BY <1>2 DEF decodePlain
  <2>3. t.type = type
    BY DEF fixedFields
  <2>4. LooksLike(type, b)
    BY <1>2, HeaderChecked
  <2> HIDE DEF p, t
  <2>5. CASE p.err # nil
    BY <2>1, <2>2, <2>5, FailOk DEF Judged, nil
  <2>6. CASE p.err = nil
    BY <2>2, <2>3, <2>4, <2>6, FailOk DEF Judged, nil
  <2> QED BY <2>5, <2>6
<1> QED BY <1>1, <1>2

\* So do those of DecodeCR and DecodeCC.
LEMMA CRCCJudged ==
  ASSUME NEW type \in {"CR", "CC"}, NEW b \in Seq(Octet)
  PROVE  Judged(type, b, decodeCRCC(type, b))
<1> DEFINE r == parseCRCCVariablePart(variablePart(type, b))
           t == [fixedFields(type, b) EXCEPT !.calling = r.calling, !.called = r.called,
                   !.size = r.size, !.pref = r.pref, !.params = r.params]
<1>1. type \in Types /\ type # "DT"
  BY TypeTable
<1>2. CASE headerError(type, b) # nil
  <2>1. decodeCRCC(type, b) = Fail(headerError(type, b))
    BY <1>2 DEF decodeCRCC
  <2> QED BY <1>1, <1>2, <2>1, FailOk, HeaderChecked DEF Judged
<1>3. CASE headerError(type, b) = nil
  <2>1. r.err \in {nil, "ErrMalformedParameter", "ErrUnexpectedParameterLength"}
    BY <1>1, <1>3, VariableTypes, ParseCRCC
  <2>2. decodeCRCC(type, b) = IF r.err # nil THEN Fail(r.err) ELSE Ok(t)
    BY <1>3 DEF decodeCRCC
  <2>3. t.type = type
    BY DEF fixedFields
  <2>4. LooksLike(type, b)
    BY <1>1, <1>3, HeaderChecked
  <2> HIDE DEF r, t
  <2>5. CASE r.err # nil
    BY <2>1, <2>2, <2>5, FailOk DEF Judged, nil
  <2>6. CASE r.err = nil
    BY <2>2, <2>3, <2>4, <2>6, FailOk DEF Judged, nil
  <2> QED BY <2>5, <2>6
<1> QED BY <1>2, <1>3

\* A DT that looks like one, of the minimal or the normal format.
DTFixed(b) == IF b[1] = 2 THEN 2 ELSE 4
DTParams(b) == parseVariablePart(SubSeq(b, 2 + DTFixed(b), HeaderLength(b)))
DTOf(b) ==
  LET last == b[1 + DTFixed(b)] IN
  [type |-> "DT", cdt |-> None, dst |-> IF DTFixed(b) = 2 THEN None ELSE Uint16(b, 3),
   src |-> None, opt |-> None, nr |-> last % 128, eot |-> last >= 128,
   calling |-> Absent, called |-> Absent, size |-> None, pref |-> None,
   params |-> DTParams(b).params, data |-> userData(b)]

\* DecodeDT case by case, in the order of its tests.
LEMMA DecodeDTCases ==
  ASSUME NEW b \in Seq(Octet)
  PROVE  \/ /\ ~LooksLike("DT", b)
            /\ DecodeDT(b).err # nil
            /\ DecodeDT(b).err = "ErrInvalidTPDUCode" => ~HasCode("DT", b[2])
            /\ DecodeDT(b).err # "ErrReservedTPDU"
         \/ /\ LooksLike("DT", b) /\ b[1] \in {0, 1, 3}
            /\ DecodeDT(b) = Fail("ErrUnsupportedDTVariant")
         \/ /\ LooksLike("DT", b) /\ b[1] \notin {0, 1, 3}
            /\ DTParams(b) \in Outcomes
            /\ DecodeDT(b) = IF DTParams(b).err # nil THEN Fail(DTParams(b).err) ELSE Ok(DTOf(b))
<1>1. PICK len \in Nat : len = Len(b)
  OBVIOUS
<1>2. DecodeDT(b) =
        IF Len(b) < MinHeaderLength THEN Fail("ErrTooShort")
        ELSE IF ReadLI(b) # nil THEN Fail(ReadLI(b))
        ELSE IF Len(b) < HeaderLength(b) THEN Fail("ErrTooShort")
        ELSE IF ~HasCode("DT", b[2]) THEN Fail("ErrInvalidTPDUCode")
        ELSE IF b[1] \in {0, 1, 3} THEN Fail("ErrUnsupportedDTVariant")
        ELSE IF DTParams(b).err # nil THEN Fail(DTParams(b).err)
        ELSE Ok(DTOf(b))
  BY DEF DecodeDT, DTFixed, DTParams, DTOf
<1>3. ReadLI(b) \in {nil, "ErrTooShort", "ErrInvalidLI"}
  BY DEF ReadLI
<1>4. CASE Len(b) < MinHeaderLength
  <2>1. DecodeDT(b) = Fail("ErrTooShort") /\ ~LooksLike("DT", b)
    BY <1>1, <1>2, <1>4 DEF LooksLike, MinHeaderLength
  <2> QED BY <2>1, FailOk DEF nil
<1>5. CASE ~(Len(b) < MinHeaderLength)
  <2>1. b[1] \in Octet
    BY <1>1, <1>5 DEF MinHeaderLength
  <2>2. HeaderLength(b) \in Nat
    <3>1. \A li \in Octet : 1 + li \in Nat
      BY DEF Octet
    <3> QED BY <2>1, <3>1 DEF HeaderLength
  <2>3. LooksLike("DT", b) <=> ReadLI(b) = nil /\ ~(Len(b) < HeaderLength(b)) /\ HasCode("DT", b[2])
    BY <1>1, <1>5, <2>2 DEF LooksLike, MinHeaderLength
  <2>4. CASE ReadLI(b) # nil
    <3>1. DecodeDT(b) = Fail(ReadLI(b)) /\ ~LooksLike("DT", b)
      BY <1>2, <1>5, <2>3, <2>4
    <3> QED BY <1>3, <2>4, <3>1, FailOk DEF nil
  <2>5. CASE ReadLI(b) = nil /\ Len(b) < HeaderLength(b)
    <3>1. DecodeDT(b) = Fail("ErrTooShort") /\ ~LooksLike("DT", b)
      BY <1>2, <1>5, <2>3, <2>5
    <3> QED BY <3>1, FailOk DEF nil
  <2>6. CASE ReadLI(b) = nil /\ ~(Len(b) < HeaderLength(b)) /\ ~HasCode("DT", b[2])
    <3>1. DecodeDT(b) = Fail("ErrInvalidTPDUCode") /\ ~LooksLike("DT", b)
      BY <1>2, <1>5, <2>3, <2>6
    <3> QED BY <2>6, <3>1, FailOk DEF nil
  <2>7. CASE LooksLike("DT", b) /\ b[1] \in {0, 1, 3}
    BY <1>2, <1>5, <2>3, <2>7
  <2>8. CASE LooksLike("DT", b) /\ b[1] \notin {0, 1, 3}
    <3>1. DecodeDT(b) = IF DTParams(b).err # nil THEN Fail(DTParams(b).err) ELSE Ok(DTOf(b))
      BY <1>2, <1>5, <2>3, <2>8
    <3>2. DTParams(b) \in Outcomes
      <4>1. PICK m \in Nat : m = HeaderLength(b) /\ m <= len
        BY <1>1, <2>2, <2>3, <2>8
      <4>2. PICK i \in {4, 6} : i = 2 + DTFixed(b)
        BY DEF DTFixed
      <4>3. SubSeq(b, i, m) \in Seq(Octet)
        BY <1>1, <4>1
      <4> QED BY <4>1, <4>2, <4>3, ParseTypes DEF DTParams
    <3> QED BY <2>8, <3>1, <3>2
  <2> QED BY <2>3, <2>4, <2>5, <2>6, <2>7, <2>8
<1> QED BY <1>4, <1>5

\* The same of every DecodeXX.
LEMMA DecodeJudged ==
  ASSUME NEW type \in Types, NEW b \in Seq(Octet)
  PROVE  Judged(type, b, DecodeAs(type, b))
<1>1. type \in {"CR", "CC", "DR", "DC", "DT", "ER", "ED", "AK", "EA", "RJ"}
  BY TypeTable
<1>2. ASSUME NEW e, e \notin {nil, "ErrInvalidTPDUCode", "ErrReservedTPDU"} PROVE Judged(type, b, Fail(e))
  BY <1>2, FailOk DEF Judged
<1>3. CASE type = "CR"
  <2>1. Judged("CR", b, decodeCRCC("CR", b))
    BY CRCCJudged
  <2>2. Judged(type, b, Fail("ErrTooShort")) /\ Judged(type, b, Fail("ErrLengthMismatch"))
    BY <1>2 DEF nil
  <2>3. DecodeCR(b) \in {Fail("ErrTooShort"), Fail("ErrLengthMismatch"), decodeCRCC("CR", b)}
    BY DEF DecodeCR
  <2> QED BY <1>3, <2>1, <2>2, <2>3 DEF DecodeAs
<1>4. CASE type = "CC"
  BY <1>4, CRCCJudged DEF DecodeAs, DecodeCC
<1>5. CASE type \in {"DR", "DC", "ER", "AK", "EA"}
  <2>1. DecodeAs(type, b) = decodePlain(type, b)
    BY <1>5 DEF DecodeAs, DecodeDR, DecodeDC, DecodeER, DecodeAK, DecodeEA
  <2> QED BY <1>5, <2>1, PlainJudged
<1>6. CASE type = "ED"
  <2>1. Judged(type, b, decodePlain("ED", b)) /\ Judged(type, b, Fail("ErrInvalidEDUserDataLength"))
    BY <1>2, <1>6, PlainJudged DEF nil
  <2>2. DecodeED(b) \in {Fail("ErrInvalidEDUserDataLength"), decodePlain("ED", b)}
    BY DEF DecodeED
  <2> QED BY <1>6, <2>1, <2>2 DEF DecodeAs
<1>7. CASE type = "RJ"
  <2>1. Judged(type, b, decodePlain("RJ", b)) /\ Judged(type, b, Fail("ErrMalformedParameter"))
    BY <1>2, <1>7, PlainJudged DEF nil
  <2>2. DecodeRJ(b) \in {Fail("ErrMalformedParameter"), decodePlain("RJ", b)}
    BY DEF DecodeRJ
  <2> QED BY <1>7, <2>1, <2>2 DEF DecodeAs
<1>8. CASE type = "DT"
  <2>1. DecodeAs(type, b) = DecodeDT(b)
    BY <1>8 DEF DecodeAs
  <2>2. Judged("DT", b, DecodeDT(b))
    <3>1. CASE ~LooksLike("DT", b)
      BY <3>1, DecodeDTCases DEF Judged
    <3>2. CASE LooksLike("DT", b) /\ b[1] \in {0, 1, 3}
      <4>1. DecodeDT(b) = Fail("ErrUnsupportedDTVariant")
        BY <3>2, DecodeDTCases
      <4> QED BY <1>2, <1>8, <4>1 DEF nil
    <3>3. CASE LooksLike("DT", b) /\ b[1] \notin {0, 1, 3}
      <4>1. /\ DTParams(b) \in Outcomes
            /\ DecodeDT(b) = IF DTParams(b).err # nil THEN Fail(DTParams(b).err) ELSE Ok(DTOf(b))
        BY <3>3, DecodeDTCases
      <4>2. DTParams(b).err \in {nil, "ErrMalformedParameter"} /\ DTOf(b).type = "DT"
        BY <4>1 DEF Outcomes, DTOf
      <4>3. CASE DTParams(b).err # nil
        BY <1>2, <1>8, <4>1, <4>2, <4>3 DEF nil
      <4>4. CASE DTParams(b).err = nil
        BY <3>3, <4>1, <4>2, <4>4, FailOk DEF Judged, nil
      <4> QED BY <4>3, <4>4
    <3> QED BY <3>1, <3>2, <3>3
  <2> QED BY <1>8, <2>1, <2>2
<1> QED BY <1>1, <1>3, <1>4, <1>5, <1>6, <1>7, <1>8

-----------------------------------------------------------------------------
(* The exchange                                                            *)

\* What is under way is octets, and what was got is what Decode made of them.
ExchangeInv ==
  /\ stage \in {"idle", "sent", "received", "forwarded", "over"}
  /\ sent.err = nil => sent.octets \in Seq(Octet)
  /\ stage = "idle" => sent.err # nil
  /\ stage = "sent" => sent.err = nil
  /\ stage \in {"idle", "sent"} => got.err # nil
  /\ got.err = nil => sent.err = nil
  /\ stage \notin {"idle", "sent"} /\ sent.err = nil => got = Decode(sent.octets)
  /\ stage \in {"idle", "sent", "received"} => forwarded.err # nil
  /\ stage = "received" => got.err = nil
  /\ forwarded.err = nil => got.err = nil /\ forwarded = Marshal(got.tpdu)

\* For every TPDU and all octets: what is under way are octets, and what was got
\* is what Decode made of them.
THEOREM ExchangeInvariant == Spec => []ExchangeInv
<1>1. Init => ExchangeInv
  BY FailOk DEF Init, ExchangeInv, Wire, nil
<1>2. ExchangeInv /\ [Next]_vars => ExchangeInv'
  <2> SUFFICES ASSUME ExchangeInv, [Next]_vars PROVE ExchangeInv'
    OBVIOUS
  <2>1. CASE Send
    <3>1. PICK t \in TPDU : sent' = Marshal(t)
      BY <2>1, TpdusAssumption DEF Send
    <3>2. sent'.err = nil => sent'.octets \in Seq(Octet)
      BY <3>1, MarshalTypes DEF IsWire
    <3>3. /\ got' = got /\ got.err # nil /\ forwarded' = forwarded /\ forwarded.err # nil
          /\ stage' = IF sent'.err = nil THEN "sent" ELSE "over"
      BY <2>1 DEF Send, ExchangeInv
    <3> QED BY <3>2, <3>3 DEF ExchangeInv
  <2>2. CASE Arrive
    <3>1. PICK b \in Seq(Octet) : sent' = Wire(nil, b)
      BY <2>2, ArrivalsAssumption DEF Arrive, OctetString
    <3>2. sent'.err = nil /\ sent'.octets \in Seq(Octet)
      BY <3>1 DEF Wire
    <3>3. got' = got /\ got.err # nil /\ forwarded' = forwarded /\ forwarded.err # nil /\ stage' = "sent"
      BY <2>2 DEF Arrive, ExchangeInv
    <3> QED BY <3>2, <3>3 DEF ExchangeInv
  <2>3. CASE Receive
    BY <2>3 DEF Receive, ExchangeInv
  <2>4. CASE Forward
    BY <2>4 DEF Forward, ExchangeInv
  <2>5. CASE ReceiveAgain
    BY <2>5 DEF ReceiveAgain, ExchangeInv
  <2>6. CASE UNCHANGED vars
    BY <2>6 DEF vars, ExchangeInv
  <2> QED BY <2>1, <2>2, <2>3, <2>4, <2>5, <2>6 DEF Next
<1> QED BY <1>1, <1>2, PTL DEF Spec

\* Detection agrees with decoding, for all octets: what decodes looks like its
\* type and no other, only the DecodeXX of that type takes it, what looks like
\* a type is not refused for its code, and ExtractUserData gives the UserData
\* of what Decode returns.
THEOREM DetectionIsSound == Spec => []DetectionAgrees
<1>1. ExchangeInv => DetectionAgrees
  <2> SUFFICES ASSUME ExchangeInv, stage \notin {"idle", "sent"}, sent.err = nil PROVE DetectionAgrees
    BY DEF DetectionAgrees
  <2> DEFINE type == IF Decoded THEN {got.tpdu.type} ELSE {}
             looks(b) == {t \in Types : LooksLike(t, b)}
             takes(b) == {t \in Types : DecodeAs(t, b).err = nil}
  <2>1. PICK b \in Seq(Octet) : b = sent.octets
    BY DEF ExchangeInv
  <2>2. got = Decode(b) /\ (Decoded <=> got.err = nil)
    BY <2>1 DEF ExchangeInv, Decoded
  <2>3. ASSUME NEW t \in Types, LooksLike(t, b)
        PROVE  /\ PeekType(b).err = nil /\ PeekType(b).tpdu.type = t
               /\ got = DecodeAs(t, b) /\ HasCode(t, b[2])
    <3>1. PeekType(b) = Ok([type |-> t])
      BY <2>3, PeekLooksLike
    <3>2. PeekType(b).err = nil /\ PeekType(b).tpdu.type = t
      BY <3>1, FailOk
    <3> QED BY <2>2, <2>3, <3>2 DEF Decode, LooksLike
  <2>4. ASSUME Decoded
        PROVE  /\ got.tpdu.type \in Types /\ LooksLike(got.tpdu.type, b)
               /\ got = DecodeAs(got.tpdu.type, b) /\ PeekType(b).tpdu.type = got.tpdu.type
               /\ PeekType(b).err = nil
    <3>1. PeekType(b).err = nil
      BY <2>2, <2>4 DEF Decode
    <3>2. PICK t \in Types : PeekType(b) = Ok([type |-> t])
      BY <3>1, PeekHasCode
    <3>3. PeekType(b).tpdu.type = t
      BY <3>2, FailOk
    <3>4. got = DecodeAs(t, b)
      BY <2>2, <3>1, <3>3 DEF Decode
    <3>5. got.tpdu.type = t /\ LooksLike(t, b)
      BY <2>2, <2>4, <3>4, DecodeJudged DEF Judged
    <3> QED BY <3>1, <3>3, <3>4, <3>5
  <2>5. \A t \in Types : DecodeAs(t, b).err = nil => LooksLike(t, b) /\ DecodeAs(t, b).tpdu.type = t
    BY DecodeJudged DEF Judged
  <2>6. Decoded => looks(b) = type
    BY <2>3, <2>4
  <2>7. IsConnectionOriented(b) <=> PeekType(b).err = nil /\ PeekType(b).tpdu.type \in {"CR", "CC", "DR", "DC"}
    BY DEF IsConnectionOriented
  <2>8. Decoded => (IsConnectionOriented(b) <=> type \subseteq {"CR", "CC", "DR", "DC"})
    BY <2>4, <2>7
  <2>9. takes(b) = type
    BY <2>2, <2>3, <2>4, <2>5
  <2>10. looks(b) # {} => got.err \notin {"ErrInvalidTPDUCode", "ErrReservedTPDU"}
    BY <2>3, DecodeJudged DEF Judged
  <2>11. /\ ExtractUserData(b).err = nil <=> Decoded /\ type \subseteq {"DT", "ED"}
         /\ ExtractUserData(b).err = nil => ExtractUserData(b).octets = got.tpdu.data
    <3>1. \A e, o : Wire(e, o).err = e /\ Wire(e, o).octets = o
      BY DEF Wire
    <3>2. CASE PeekType(b).err # nil
      <4>1. ExtractUserData(b) = Wire(PeekType(b).err, <<>>)
        BY <3>2 DEF ExtractUserData
      <4> QED BY <2>4, <3>1, <3>2, <4>1
    <3>3. CASE PeekType(b).err = nil
      <4>1. PICK t \in Types : PeekType(b) = Ok([type |-> t])
        BY <3>3, PeekHasCode
      <4>2. PeekType(b).tpdu.type = t
        BY <4>1, FailOk
      <4>3. got = DecodeAs(t, b)
        BY <2>2, <3>3, <4>2 DEF Decode
      <4>4. CASE t \notin {"DT", "ED"}
        <5>1. ExtractUserData(b) = Wire("ErrInvalidTPDUCode", <<>>)
          BY <3>3, <4>2, <4>4 DEF ExtractUserData
        <5> QED BY <2>4, <3>1, <4>2, <4>4, <5>1 DEF nil
      <4>5. CASE t \in {"DT", "ED"}
        <5>1. ExtractUserData(b) = IF got.err # nil THEN Wire(got.err, <<>>) ELSE Wire(nil, got.tpdu.data)
          BY <3>3, <4>2, <4>3, <4>5 DEF ExtractUserData, DecodeAs
        <5> QED BY <2>2, <2>4, <3>1, <4>2, <4>5, <5>1
      <4> QED BY <4>4, <4>5
    <3> QED BY <3>2, <3>3
  <2> HIDE DEF type
  <2> QED BY <2>1, <2>6, <2>8, <2>9, <2>10, <2>11 DEF DetectionAgrees, type
<1> QED BY <1>1, ExchangeInvariant, PTL

-----------------------------------------------------------------------------
(* The DT of an open connection                                            *)

\* Nothing is found in, and nothing made of, no parameters.
LEMMA ParseNothing == parseVariablePart(<<>>) = Finished
<1>1. PICK v \in Seq(Octet) : v = <<>>
  <2>1. <<>> \in Seq(Octet)
    OBVIOUS
  <2> QED BY <2>1
<1>2. Len(v) = 0
  BY <1>1
<1>3. PICK f \in [1 .. Len(v) + 1 -> Outcomes] :
        scan(v) = f[1] /\ \A pos \in 1 .. Len(v) + 1 : f[pos] = Turn(v, f, pos)
  BY ScanTurns
<1>4. 1 \in 1 .. Len(v) + 1 /\ 1 > Len(v)
  BY <1>2
<1>5. scan(v) = Finished
  BY <1>3, <1>4 DEF Turn
<1>6. Finished.err = nil
  BY DEF Finished
<1> QED BY <1>1, <1>5, <1>6 DEF parseVariablePart

\* No parameters, no octets.
LEMMA EncodeNothing == encodeVariablePart(<<>>) = Wire(nil, <<>>)
<1>1. PICK s \in Seq(Parameters) : s = <<>>
  <2>1. <<>> \in Seq(Parameters)
    OBVIOUS
  <2> QED BY <2>1
<1>2. Wire(nil, <<>>) \in Wires
  BY DEF Wire, Wires
<1>3. PICK f \in [0 .. Len(s) -> Wires] :
        f[0] = Wire(nil, <<>>) /\ FoldLeft(appendParameter, Wire(nil, <<>>), s) = f[Len(s)]
  BY <1>2, AppendFold
<1>4. Len(s) = 0
  BY <1>1
<1> QED BY <1>1, <1>3, <1>4 DEF encodeVariablePart

\* The octets that WriteTSDU makes of a segment.
IsMinimalDT(b) == Len(b) >= 3 /\ b[1] = 2 /\ b[2] = 240 /\ b[3] \in {0, 128}

\* Such octets are decoded as what they are.
LEMMA MinimalDTDecoded ==
  ASSUME NEW b \in Seq(Octet), IsMinimalDT(b)
  PROVE  /\ Decode(b) = Ok(DTOf(b))
         /\ DTOf(b).dst = None /\ DTOf(b).params = <<>> /\ DTOf(b).type = "DT"
         /\ DTOf(b).nr = 0 /\ (DTOf(b).eot <=> b[3] = 128)
         /\ DTOf(b).data = SubSeq(b, 4, Len(b))
<1>1. PICK len \in Nat : len = Len(b) /\ len >= 3
  BY DEF IsMinimalDT
<1>2. b[1] = 2 /\ b[2] = 240 /\ b[3] \in {0, 128}
  BY DEF IsMinimalDT
<1>3. HeaderLength(b) = 3 /\ ReadLI(b) = nil
  BY <1>1, <1>2 DEF HeaderLength, ReadLI, MaxLI, nil
<1>4. "DT" \in Types /\ HasCode("DT", b[2])
  <2>1. HasCode("DT", 240)
    BY CodeTable, SMT
  <2> QED BY <1>2, <2>1, TypeTable
<1>5. LooksLike("DT", b)
  BY <1>1, <1>3, <1>4 DEF LooksLike, MinHeaderLength
<1>6. PeekType(b).err = nil /\ PeekType(b).tpdu.type = "DT"
  <2>1. PeekType(b) = Ok([type |-> "DT"])
    BY <1>4, <1>5, PeekLooksLike
  <2> QED BY <2>1, FailOk
<1>7. Decode(b) = DecodeDT(b)
  BY <1>6 DEF Decode, DecodeAs
<1>8. DTFixed(b) = 2
  BY <1>2 DEF DTFixed
<1>9. DTParams(b) = Finished
  <2>1. SubSeq(b, 4, 3) = <<>>
    BY <1>1
  <2>2. DTParams(b) = parseVariablePart(SubSeq(b, 4, 3))
    BY <1>3, <1>8 DEF DTParams
  <2> QED BY <2>1, <2>2, ParseNothing
<1>10. Decode(b) = Ok(DTOf(b))
  <2>1. b[1] \notin {0, 1, 3}
    BY <1>2
  <2>2. DTParams(b).err = nil
    BY <1>9 DEF Finished
  <2> QED BY <1>5, <1>7, <2>1, <2>2, DecodeDTCases
<1>11. /\ DTOf(b).dst = None /\ DTOf(b).params = DTParams(b).params /\ DTOf(b).type = "DT"
       /\ DTOf(b).nr = b[1 + DTFixed(b)] % 128 /\ DTOf(b).data = userData(b)
       /\ DTOf(b).eot = (b[1 + DTFixed(b)] >= 128)
  BY <1>8 DEF DTOf
<1>12. 1 + DTFixed(b) = 3
  BY <1>8
<1>13. DTOf(b).params = <<>>
  BY <1>9, <1>11 DEF Finished
<1>14. DTOf(b).data = SubSeq(b, 4, Len(b))
  BY <1>3, <1>11 DEF userData
<1>15. DTOf(b).nr = 0 /\ (DTOf(b).eot <=> b[3] = 128)
  <2>1. b[1 + DTFixed(b)] = b[3]
    BY <1>12
  <2>2. DTOf(b).nr = 0
    BY <1>2, <1>11, <2>1
  <2>3. b[1 + DTFixed(b)] >= 128 <=> b[3] = 128
    BY <1>2, <2>1
  <2>4. DTOf(b).eot <=> b[3] = 128
    BY <1>11, <2>3, Zenon
  <2> QED BY <2>2, <2>4
<1> QED BY <1>10, <1>11, <1>13, <1>14, <1>15

\* ... and marshalled to themselves.
LEMMA MinimalDTMarshalled ==
  ASSUME NEW b \in Seq(Octet), IsMinimalDT(b)
  PROVE  MarshalDT(DTOf(b)).octets = b
<1> DEFINE t == DTOf(b)
           nr == (IF t.nr = None THEN 0 ELSE (t.nr % 128)) + (IF t.eot THEN 128 ELSE 0)
<1>1. PICK len \in Nat : len = Len(b) /\ len >= 3
  BY DEF IsMinimalDT
<1>2. b[1] = 2 /\ b[2] = 240 /\ b[3] \in {0, 128}
  BY DEF IsMinimalDT
<1>3. /\ t.dst = None /\ t.params = <<>> /\ t.nr = 0 /\ (t.eot <=> b[3] = 128)
      /\ t.data = SubSeq(b, 4, len)
  BY <1>1, MinimalDTDecoded
<1> HIDE DEF t
<1>4. nr = b[3]
  <2>1. CASE b[3] = 0
    BY <1>3, <2>1 DEF None
  <2>2. CASE b[3] = 128
    BY <1>3, <2>2 DEF None
  <2> QED BY <1>2, <2>1, <2>2
<1>5. MarshalDT(t) = assemble(<<240, nr>>, encodeVariablePart(t.params), t.data)
  BY <1>3 DEF MarshalDT
<1> HIDE DEF nr
<1>6. MarshalDT(t) = assemble(<<240, b[3]>>, Wire(nil, <<>>), SubSeq(b, 4, len))
  BY <1>3, <1>4, <1>5, EncodeNothing
<1>7. assemble(<<240, b[3]>>, Wire(nil, <<>>), SubSeq(b, 4, len)) =
        Wire(nil, <<2>> \o <<240, b[3]>> \o <<>> \o SubSeq(b, 4, len))
  <2>1. Wire(nil, <<>>).err = nil /\ Wire(nil, <<>>).octets = <<>>
    BY DEF Wire
  <2>2. Len(<<240, b[3]>>) + Len(<<>>) = 2
    OBVIOUS
  <2>3. ~(2 > MaxLI)
    BY DEF MaxLI
  <2> QED BY <2>1, <2>2, <2>3 DEF assemble
<1>8. <<2>> \o <<240, b[3]>> \o <<>> \o SubSeq(b, 4, len) = b
  <2>1. SubSeq(b, 1, 3) = <<2>> \o <<240, b[3]>> \o <<>>
    BY <1>1, <1>2
  <2>2. SubSeq(b, 1, 3) \o SubSeq(b, 4, len) = SubSeq(b, 1, len)
    <3>1. 1 \in 1 .. Len(b) + 1 /\ 3 \in 1 - 1 .. Len(b) /\ len \in 3 .. Len(b) /\ 3 + 1 = 4
      BY <1>1
    <3> QED BY <3>1, ConcatAdjacentSubSeq
  <2>3. SubSeq(b, 1, len) = b
    BY <1>1, SubSeqFull
  <2> QED BY <2>1, <2>2, <2>3
<1> QED BY <1>6, <1>7, <1>8 DEF t, Wire

\* TPDU-NR is zero in two octets.
LEMMA NrZero ==
  ASSUME NEW o \in Octet, o % 128 = 0
  PROVE  o \in {0, 128}
  BY SMT DEF Octet

\* decodeOpenDT takes them if they fit, and nothing else.
LEMMA OpenDTExactly ==
  ASSUME NEW b \in Seq(Octet), NEW max \in {Len(b) - 1, Len(b)}
  PROVE  /\ decodeOpenDT(b, max).err = nil <=> IsMinimalDT(b) /\ max = Len(b)
         /\ decodeOpenDT(b, max).err = nil => decodeOpenDT(b, max) = Ok(DTOf(b))
<1> DEFINE r == Decode(b)
           nrAndEOT == IF Len(b) > 2 THEN b[3] ELSE 0
           e == Then(validateMinimalClass0DT(b[1], b[2], nrAndEOT),
                Then(IF r.tpdu.dst # None THEN "ErrHandshake" ELSE nil,
                     validateOpenDTParameters(r.tpdu.params)))
<1>1. PICK len \in Nat : len = Len(b)
  OBVIOUS
<1>2. decodeOpenDT(b, max) =
        IF Len(b) > max THEN Fail("ErrHandshake")
        ELSE IF Len(b) < MinHeaderLength THEN Fail("ErrHandshake, ErrTooShort")
        ELSE IF r.err # nil THEN Fail("ErrHandshake")
        ELSE IF r.tpdu.type # "DT" THEN Fail(unexpectedOpenTPDU(r.tpdu.type))
        ELSE IF e # nil THEN Fail(e) ELSE r
  BY DEF decodeOpenDT
<1> HIDE DEF e
<1>3. ASSUME decodeOpenDT(b, max).err = nil
      PROVE  IsMinimalDT(b) /\ max = Len(b)
  <2>1. /\ ~(Len(b) > max) /\ ~(Len(b) < MinHeaderLength)
        /\ r.err = nil /\ r.tpdu.type = "DT" /\ e = nil
    <3>1. unexpectedOpenTPDU(r.tpdu.type) # nil
      BY DEF unexpectedOpenTPDU, nil
    <3>2. "ErrHandshake" # nil /\ "ErrHandshake, ErrTooShort" # nil
      BY DEF nil
    <3> HIDE DEF r
    <3> QED BY <1>2, <1>3, <3>1, <3>2, FailOk
  <2>2. validateMinimalClass0DT(b[1], b[2], nrAndEOT) = nil
    BY <2>1 DEF e, Then
  <2>3. b[1] = 2 /\ b[2] = 240 /\ nrAndEOT % 128 = 0
    BY <2>2 DEF validateMinimalClass0DT, nil
  <2>4. max = Len(b)
    BY <1>1, <2>1
  <2>5. LooksLike("DT", b)
    <3>1. PeekType(b).err = nil
      BY <2>1 DEF Decode
    <3>2. PICK t \in Types : PeekType(b) = Ok([type |-> t])
      BY <3>1, PeekHasCode
    <3>3. PeekType(b).tpdu.type = t
      BY <3>2, FailOk
    <3>4. r = DecodeAs(t, b)
      BY <3>1, <3>3 DEF Decode
    <3> HIDE DEF r
    <3> QED BY <2>1, <3>4, DecodeJudged DEF Judged
  <2>6. len >= 3
    BY <1>1, <2>3, <2>5 DEF LooksLike, HeaderLength
  <2>7. b[3] \in {0, 128}
    <3>1. b[3] \in Octet /\ nrAndEOT = b[3]
      BY <1>1, <2>6
    <3>2. PICK o \in Octet : o = b[3]
      BY <3>1
    <3>3. o % 128 = 0
      BY <2>3, <3>1, <3>2
    <3> QED BY <3>2, <3>3, NrZero
  <2> QED BY <1>1, <2>3, <2>4, <2>6, <2>7 DEF IsMinimalDT
<1>4. ASSUME IsMinimalDT(b), max = Len(b)
      PROVE  decodeOpenDT(b, max) = Ok(DTOf(b))
  <2>1. r = Ok(DTOf(b)) /\ DTOf(b).dst = None /\ DTOf(b).params = <<>> /\ DTOf(b).type = "DT"
    BY <1>4, MinimalDTDecoded
  <2>2. r.err = nil /\ r.tpdu.dst = None /\ r.tpdu.params = <<>> /\ r.tpdu.type = "DT"
    BY <2>1, FailOk
  <2>3. Len(b) >= 3 /\ b[1] = 2 /\ b[2] = 240 /\ b[3] \in {0, 128}
    BY <1>4 DEF IsMinimalDT
  <2>4. nrAndEOT = b[3]
    BY <1>1, <2>3
  <2>5. b[3] % 128 = 0
    BY <2>3
  <2>6. validateMinimalClass0DT(b[1], b[2], nrAndEOT) = nil
    BY <2>3, <2>4, <2>5 DEF validateMinimalClass0DT
  <2>7. e = nil
    BY <2>2, <2>6 DEF e, Then, validateOpenDTParameters
  <2>8. ~(Len(b) > max) /\ ~(Len(b) < MinHeaderLength)
    BY <1>1, <1>4, <2>3 DEF MinHeaderLength
  <2> HIDE DEF r
  <2>9. decodeOpenDT(b, max) = r
    BY <1>2, <2>2, <2>7, <2>8
  <2> QED BY <2>1, <2>9
<1> QED BY <1>3, <1>4, FailOk

\* For every sequence of octets: an open connection accepts exactly the
\* minimal DT of WriteTSDU, if it fits, and what it accepts marshals to the
\* same octets.
THEOREM OpenDTsAreMinimal == Spec => []OpenDTIsMinimal
<1>1. ExchangeInv => OpenDTIsMinimal
  <2> SUFFICES ASSUME ExchangeInv, sent.err = nil, NEW max \in {Len(sent.octets) - 1, Len(sent.octets)}
               PROVE  LET b == sent.octets
                          own == Len(b) >= 3 /\ b[1] = 2 /\ b[2] = 240 /\ b[3] \in {0, 128}
                          r == decodeOpenDT(b, max)
                      IN /\ r.err = nil <=> own /\ max = Len(b)
                         /\ r.err = nil => MarshalDT(r.tpdu).octets = b /\ r.tpdu.data = SubSeq(b, 4, Len(b))
    BY DEF OpenDTIsMinimal
  <2>1. PICK b \in Seq(Octet) : b = sent.octets
    BY DEF ExchangeInv
  <2>2. /\ decodeOpenDT(b, max).err = nil <=> IsMinimalDT(b) /\ max = Len(b)
        /\ decodeOpenDT(b, max).err = nil => decodeOpenDT(b, max) = Ok(DTOf(b))
    BY <2>1, OpenDTExactly
  <2>3. ASSUME decodeOpenDT(b, max).err = nil
        PROVE  /\ MarshalDT(decodeOpenDT(b, max).tpdu).octets = b
               /\ decodeOpenDT(b, max).tpdu.data = SubSeq(b, 4, Len(b))
    <3>1. decodeOpenDT(b, max).tpdu = DTOf(b) /\ IsMinimalDT(b)
      BY <2>2, <2>3, FailOk
    <3> QED BY <3>1, MinimalDTDecoded, MinimalDTMarshalled
  <2> QED BY <2>1, <2>2, <2>3 DEF IsMinimalDT
<1> QED BY <1>1, ExchangeInvariant, PTL

-----------------------------------------------------------------------------
(* The parameters that the handshake judges                                *)

\* The codes in a list of parameters, and in its first k.
Codes(params) == {params[i].code : i \in DOMAIN params}
CodesUpTo(params, k) == {params[i].code : i \in 1 .. k}

\* One more parameter adds its code, unless it is a known one.
LEMMA ApplyCodes ==
  ASSUME NEW r \in Found, NEW p \in Parameters, applyParameter(r, p).err = nil
  PROVE  /\ r.err = nil
         /\ Codes(applyParameter(r, p).params) = Codes(r.params) \cup ({p.code} \ KnownParams)
<1>1. r.err = nil
  BY DEF applyParameter
<1>2. CASE p.code \in KnownParams
  <2>1. applyParameter(r, p).params = r.params
    <3>1. p.code \in {ParamTPDUSize, ParamCallingSelector, ParamCalledSelector, ParamPreferredMaxTPDUSize}
      BY <1>2 DEF KnownParams
    <3> HIDE DEF decodePreferredMaxUnits
    <3> QED BY <1>1, <3>1 DEF applyParameter, Found
  <2> QED BY <1>1, <1>2, <2>1
<1>3. CASE p.code \notin KnownParams
  <2>1. applyParameter(r, p) = [r EXCEPT !.params = Append(@, p)]
    BY <1>1, <1>3 DEF applyParameter, KnownParams
  <2>2. PICK ps \in Seq(Parameters) : ps = r.params
    BY DEF Found
  <2>3. applyParameter(r, p).params = Append(ps, p)
    BY <2>1, <2>2 DEF Found
  <2>4. Codes(Append(ps, p)) = Codes(ps) \cup {p.code}
    <3>1. /\ DOMAIN Append(ps, p) = 1 .. Len(ps) + 1 /\ DOMAIN ps = 1 .. Len(ps) /\ Len(ps) \in Nat
          /\ Append(ps, p)[Len(ps) + 1] = p /\ \A i \in 1 .. Len(ps) : Append(ps, p)[i] = ps[i]
      OBVIOUS
    <3>2. PICK n \in Nat : n = Len(ps)
      BY <3>1
    <3>3. \A i \in 1 .. n + 1 : i \in 1 .. n \/ i = n + 1
      OBVIOUS
    <3>4. 1 .. n \subseteq 1 .. n + 1 /\ n + 1 \in 1 .. n + 1
      OBVIOUS
    <3> QED BY <3>1, <3>2, <3>3, <3>4 DEF Codes
  <2> QED BY <1>1, <1>3, <2>2, <2>3, <2>4
<1> QED BY <1>2, <1>3

\* The parameters that are left are those with a code that is not known.
LEMMA ApplyAllCodes ==
  ASSUME NEW s \in Seq(Parameters), FoldLeft(applyParameter, NoCRCC, s).err = nil
  PROVE  Codes(FoldLeft(applyParameter, NoCRCC, s).params) = Codes(s) \ KnownParams
<1>1. NoCRCC \in Found
  BY DEF NoCRCC, Found, Absent
<1>2. PICK f \in [0 .. Len(s) -> Found] :
        /\ f[0] = NoCRCC /\ \A k \in 1 .. Len(s) : f[k] = applyParameter(f[k - 1], s[k])
        /\ FoldLeft(applyParameter, NoCRCC, s) = f[Len(s)]
  BY <1>1, ApplyFold
<1> DEFINE S == {k \in 0 .. Len(s) : f[k].err = nil => Codes(f[k].params) = CodesUpTo(s, k) \ KnownParams}
<1>3. Len(s) \in Nat /\ Len(s) \in 0 .. Len(s) /\ DOMAIN s = 1 .. Len(s)
  OBVIOUS
<1>4. 0 \in S
  <2>1. NoCRCC.params = <<>>
    BY DEF NoCRCC
  <2>2. Codes(<<>>) = {}
    BY DEF Codes
  <2>3. CodesUpTo(s, 0) = {}
    BY DEF CodesUpTo
  <2>4. 0 \in 0 .. Len(s)
    BY <1>3
  <2> QED BY <1>2, <2>1, <2>2, <2>3, <2>4
<1>5. ASSUME NEW k \in 1 .. Len(s), k - 1 \in S PROVE k \in S
  <2>1. k - 1 \in 0 .. Len(s) /\ k \in 0 .. Len(s)
    BY <1>3
  <2>2. f[k - 1] \in Found /\ s[k] \in Parameters /\ f[k] = applyParameter(f[k - 1], s[k])
    BY <1>2, <2>1
  <2>3. CodesUpTo(s, k) = CodesUpTo(s, k - 1) \cup {s[k].code}
    <3>1. \A i \in 1 .. k : i \in 1 .. k - 1 \/ i = k
      BY <1>3
    <3>2. 1 .. k - 1 \subseteq 1 .. k /\ k \in 1 .. k
      BY <1>3
    <3> QED BY <3>1, <3>2 DEF CodesUpTo
  <2>4. f[k].err = nil => Codes(f[k].params) = CodesUpTo(s, k) \ KnownParams
    <3> SUFFICES ASSUME f[k].err = nil PROVE Codes(f[k].params) = CodesUpTo(s, k) \ KnownParams
      OBVIOUS
    <3>1. f[k - 1].err = nil /\ Codes(f[k].params) = Codes(f[k - 1].params) \cup ({s[k].code} \ KnownParams)
      BY <2>2, ApplyCodes
    <3>2. Codes(f[k - 1].params) = CodesUpTo(s, k - 1) \ KnownParams
      BY <1>5, <3>1
    <3> QED BY <2>3, <3>1, <3>2
  <2> QED BY <2>1, <2>4
<1>6. Len(s) \in S
  <2> HIDE DEF S
  <2> QED BY <1>3, <1>4, <1>5, Induction
<1>7. CodesUpTo(s, Len(s)) = Codes(s)
  BY <1>3 DEF CodesUpTo, Codes
<1> QED BY <1>2, <1>6, <1>7

\* What decodeCRCC leaves in Parameters.
LEMMA CRCCCodes ==
  ASSUME NEW type \in {"CR", "CC"}, NEW b \in Seq(Octet), decodeCRCC(type, b).err = nil
  PROVE  Codes(decodeCRCC(type, b).tpdu.params) =
           Codes(parseVariablePart(variablePart(type, b)).params) \ KnownParams
<1> DEFINE v == variablePart(type, b)
           r == parseCRCCVariablePart(v)
           t == [fixedFields(type, b) EXCEPT !.calling = r.calling, !.called = r.called,
                   !.size = r.size, !.pref = r.pref, !.params = r.params]
<1>1. type \in Types /\ type # "DT"
  BY TypeTable
<1>2. decodeCRCC(type, b) = IF headerError(type, b) # nil THEN Fail(headerError(type, b))
                            ELSE IF r.err # nil THEN Fail(r.err) ELSE Ok(t)
  BY DEF decodeCRCC
<1>3. t.params = r.params
  BY DEF fixedFields
<1> HIDE DEF r, t
<1>4. headerError(type, b) = nil /\ r.err = nil /\ decodeCRCC(type, b).tpdu = t
  BY <1>2, FailOk
<1>5. v \in Seq(Octet)
  BY <1>1, <1>4, VariableTypes
<1> HIDE DEF v
<1>6. PICK s \in Seq(Parameters) : s = parseVariablePart(v).params
  BY <1>5, ParseTypes DEF Outcomes
<1>7. FoldLeft(applyParameter, NoCRCC, s).err = nil /\ r = FoldLeft(applyParameter, NoCRCC, s)
  BY <1>4, <1>5, <1>6, ParseCRCC DEF r
<1>8. Codes(r.params) = Codes(s) \ KnownParams
  BY <1>7, ApplyAllCodes
<1> QED BY <1>3, <1>4, <1>6, <1>8 DEF v

\* For all octets that decode: the handshake judges a CR or a CC by the
\* parameters on the wire, though Decode has taken the known ones out.
THEOREM WireParametersAreJudged == Spec => []WireParametersJudged
<1>1. ExchangeInv => WireParametersJudged
  <2> SUFFICES ASSUME ExchangeInv, Decoded PROVE WireParametersJudged
    BY DEF WireParametersJudged
  <2> DEFINE params(b, type) == parseVariablePart(variablePart(type, b)).params
             codes(b, type) == {params(b, type)[i].code : i \in DOMAIN params(b, type)}
  <2>1. got.err = nil /\ sent.err = nil /\ got = Decode(sent.octets) /\ sent.octets \in Seq(Octet)
    BY DEF ExchangeInv, Decoded
  <2>2. PICK b \in Seq(Octet) : b = sent.octets
    BY <2>1
  <2>3. PICK t \in Types : got = DecodeAs(t, b) /\ got.tpdu.type = t
    <3>1. PeekType(b).err = nil
      BY <2>1, <2>2 DEF Decode
    <3>2. PICK t \in Types : PeekType(b) = Ok([type |-> t])
      BY <3>1, PeekHasCode
    <3>3. PeekType(b).tpdu.type = t
      BY <3>2, FailOk
    <3>4. got = DecodeAs(t, b)
      BY <2>1, <2>2, <3>1, <3>3 DEF Decode
    <3> QED BY <2>1, <3>4, DecodeJudged DEF Judged
  <2>4. ASSUME got.tpdu.type \in {"CR", "CC"}
        PROVE  Codes(got.tpdu.params) = codes(b, got.tpdu.type) \ KnownParams
    <3>1. t \in {"CR", "CC"}
      BY <2>3, <2>4
    <3>2. got = decodeCRCC(t, b)
      <4>1. CASE t = "CR"
        <5>1. got = DecodeCR(b)
          BY <2>3, <4>1 DEF DecodeAs
        <5>2. DecodeCR(b) \in {Fail("ErrTooShort"), Fail("ErrLengthMismatch"), decodeCRCC("CR", b)}
          BY DEF DecodeCR
        <5>3. got # Fail("ErrTooShort") /\ got # Fail("ErrLengthMismatch")
          BY <2>1, FailOk DEF nil
        <5> QED BY <4>1, <5>1, <5>2, <5>3
      <4>2. CASE t = "CC"
        BY <2>3, <4>2 DEF DecodeAs, DecodeCC
      <4> QED BY <3>1, <4>1, <4>2
    <3>3. decodeCRCC(t, b).err = nil
      BY <2>1, <3>2
    <3>4. Codes(decodeCRCC(t, b).tpdu.params) = Codes(params(b, t)) \ KnownParams
      BY <3>1, <3>3, CRCCCodes
    <3>5. codes(b, t) = Codes(params(b, t))
      BY Zenon DEF Codes
    <3> HIDE DEF codes, params
    <3> QED BY <2>3, <3>2, <3>4, <3>5
  <2> HIDE DEF codes
  <2>5. \A ps : validateCRParameters(ps) = nil <=> Codes(ps) \cap (195 .. 206) = {}
    BY ZenonT(40) DEF validateCRParameters, isKnownClass0ForbiddenParam, Codes, nil
  <2>6. \A ps : validateCCParameters(ps) = nil <=> Codes(ps) \cap (195 .. 206) = {} /\ Codes(ps) \subseteq KnownParams
    BY ZenonT(40) DEF validateCCParameters, isKnownClass0ForbiddenParam, Codes, nil
  <2>7. KnownParams \cap (195 .. 206) = {}
    BY DEF KnownParams, ParamTPDUSize, ParamCallingSelector, ParamCalledSelector, ParamPreferredMaxTPDUSize
  <2>8. got.tpdu.type = "CR" =>
          (validateCRParameters(got.tpdu.params) = nil <=> codes(b, "CR") \cap (195 .. 206) = {})
    BY <2>4, <2>5, <2>7
  <2>9. got.tpdu.type = "CC" =>
          (validateCCParameters(got.tpdu.params) = nil <=> codes(b, "CC") \subseteq KnownParams)
    BY <2>4, <2>6, <2>7
  <2>10. /\ codes(sent.octets, "CR") = codes(b, "CR") /\ codes(sent.octets, "CC") = codes(b, "CC")
    BY <2>2
  <2>11. WireParametersJudged <=>
           (Decoded =>
              /\ got.tpdu.type = "CR" =>
                   (validateCRParameters(got.tpdu.params) = nil <=> codes(sent.octets, "CR") \cap (195 .. 206) = {})
              /\ got.tpdu.type = "CC" =>
                   (validateCCParameters(got.tpdu.params) = nil <=> codes(sent.octets, "CC") \subseteq KnownParams))
    BY Zenon DEF WireParametersJudged, codes
  <2> QED BY <2>8, <2>9, <2>10, <2>11
<1> QED BY <1>1, ExchangeInvariant, PTL

-----------------------------------------------------------------------------
(* Encoding undoes parsing                                                 *)

\* A parameter as octets.
Coded(p) == <<p.code, Len(p.value)>> \o p.value

\* Octets may be appended in any grouping.
LEMMA OctetsAssociate ==
  ASSUME NEW x \in Seq(Octet), NEW y \in Seq(Octet), NEW z \in Seq(Octet)
  PROVE  (x \o y) \o z = x \o (y \o z)
  BY ConcatAssociative

\* What appendParameter does to a variable part without an error.
LEMMA AppendCoded ==
  ASSUME NEW w \in Wires, NEW p \in Parameters
  PROVE  /\ appendParameter(w, p).err = nil <=> w.err = nil /\ ~(Len(p.value) > 255)
         /\ appendParameter(w, p).err = nil => appendParameter(w, p) = Wire(nil, w.octets \o Coded(p))
         /\ ~(Len(p.value) > 255) => Coded(p) \in Seq(Octet)
<1>1. /\ w.octets \in Seq(Octet) /\ p.code \in Octet /\ p.value \in Seq(Octet) /\ Len(p.value) \in Nat
  BY DEF Wires, Parameters, OctetString
<1>2. \A e, o : Wire(e, o).err = e /\ Wire(e, o).octets = o
  BY DEF Wire
<1>3. w.err # nil => appendParameter(w, p).err # nil
  BY DEF appendParameter
<1>4. w.err = nil /\ Len(p.value) > 255 => appendParameter(w, p).err # nil
  BY <1>2 DEF appendParameter, MaxParameterValueLength, nil
<1>5. ASSUME ~(Len(p.value) > 255) PROVE <<p.code, Len(p.value)>> \in Seq(Octet)
  <2>1. PICK n \in Nat : n = Len(p.value)
    BY <1>1
  <2>2. ~(n > 255)
    BY <1>5, <2>1
  <2>3. n \in Octet
    BY <2>2 DEF Octet
  <2> QED BY <1>1, <2>1, <2>3
<1>6. ~(Len(p.value) > 255) => Coded(p) \in Seq(Octet)
  BY <1>1, <1>5 DEF Coded
<1>7. ASSUME w.err = nil, ~(Len(p.value) > 255)
      PROVE  appendParameter(w, p).err = nil /\ appendParameter(w, p) = Wire(nil, w.octets \o Coded(p))
  <2>1. appendParameter(w, p) = Wire(nil, w.octets \o <<p.code, Len(p.value)>> \o p.value)
    BY <1>7 DEF appendParameter, MaxParameterValueLength
  <2>2. w.octets \o <<p.code, Len(p.value)>> \o p.value = w.octets \o Coded(p)
    <3>1. PICK x \in Seq(Octet), y \in Seq(Octet), z \in Seq(Octet) :
            x = w.octets /\ y = <<p.code, Len(p.value)>> /\ z = p.value
      BY <1>1, <1>5, <1>7
    <3>2. (x \o y) \o z = x \o (y \o z)
      BY OctetsAssociate
    <3> QED BY <3>1, <3>2 DEF Coded
  <2> QED BY <1>2, <2>1, <2>2
<1> QED BY <1>3, <1>4, <1>6, <1>7

\* The variable part of a parameter and a list.
LEMMA EncodeCons ==
  ASSUME NEW p \in Parameters, ~(Len(p.value) > 255),
         NEW ps \in Seq(Parameters), encodeVariablePart(ps).err = nil
  PROVE  encodeVariablePart(<<p>> \o ps) = Wire(nil, Coded(p) \o encodeVariablePart(ps).octets)
<1> DEFINE W0 == Wire(nil, <<>>)
<1>1. W0 \in Wires /\ W0.err = nil /\ W0.octets = <<>>
  BY DEF Wire, Wires
<1> HIDE DEF W0
<1>2. PICK s \in Seq(Parameters) : s = <<p>> \o ps
  <2>1. <<p>> \o ps \in Seq(Parameters)
    OBVIOUS
  <2> QED BY <2>1
<1>3. PICK n \in Nat : n = Len(ps)
  OBVIOUS
<1>4. Len(s) = n + 1 /\ s[1] = p /\ \A k \in 1 .. n : s[k + 1] = ps[k] /\ ps[k] \in Parameters
  BY <1>2, <1>3
<1>5. PICK f \in [0 .. Len(ps) -> Wires] :
        /\ f[0] = W0 /\ \A k \in 1 .. Len(ps) : f[k] = appendParameter(f[k - 1], ps[k])
        /\ FoldLeft(appendParameter, W0, ps) = f[Len(ps)]
  BY <1>1, AppendFold
<1>6. PICK g \in [0 .. Len(s) -> Wires] :
        /\ g[0] = W0 /\ \A k \in 1 .. Len(s) : g[k] = appendParameter(g[k - 1], s[k])
        /\ FoldLeft(appendParameter, W0, s) = g[Len(s)]
  BY <1>1, AppendFold
<1>7. Coded(p) \in Seq(Octet)
  BY <1>1, AppendCoded
<1> DEFINE S == {k \in 0 .. n : f[k].err = nil => g[k + 1] = Wire(nil, Coded(p) \o f[k].octets)}
<1>8. 0 \in S
  <2>1. 1 \in 1 .. Len(s) /\ 1 - 1 = 0 /\ 0 + 1 = 1 /\ 0 \in 0 .. n
    BY <1>4
  <2>2. g[1] = appendParameter(W0, p)
    BY <1>4, <1>6, <2>1
  <2>3. g[1] = Wire(nil, <<>> \o Coded(p))
    BY <1>1, <2>2, AppendCoded
  <2>4. <<>> \o Coded(p) = Coded(p) /\ Coded(p) \o <<>> = Coded(p)
    BY <1>7
  <2> QED BY <1>1, <1>5, <2>1, <2>3, <2>4
<1>9. ASSUME NEW k \in 1 .. n, k - 1 \in S PROVE k \in S
  <2>1. /\ k - 1 \in 0 .. Len(ps) /\ k \in 0 .. Len(ps) /\ k \in 1 .. Len(ps) /\ k \in 0 .. n
        /\ (k - 1) + 1 = k /\ k + 1 \in 1 .. Len(s) /\ (k + 1) - 1 = k /\ k \in 0 .. Len(s)
    BY <1>3, <1>4
  <2>2. ASSUME f[k].err = nil PROVE g[k + 1] = Wire(nil, Coded(p) \o f[k].octets)
    <3>1. f[k] = appendParameter(f[k - 1], ps[k]) /\ f[k - 1] \in Wires /\ ps[k] \in Parameters
      BY <1>4, <1>5, <2>1
    <3>2. f[k - 1].err = nil /\ ~(Len(ps[k].value) > 255) /\ f[k] = Wire(nil, f[k - 1].octets \o Coded(ps[k]))
      BY <2>2, <3>1, AppendCoded
    <3>3. g[k] = Wire(nil, Coded(p) \o f[k - 1].octets)
      BY <1>9, <2>1, <3>2
    <3>4. g[k + 1] = appendParameter(g[k], ps[k]) /\ g[k] \in Wires
      BY <1>4, <1>6, <2>1
    <3>5. g[k].err = nil /\ g[k].octets = Coded(p) \o f[k - 1].octets
      BY <3>3, SMTT(40) DEF Wire
    <3>6. g[k + 1] = Wire(nil, g[k].octets \o Coded(ps[k])) /\ Coded(ps[k]) \in Seq(Octet)
      BY <3>1, <3>2, <3>4, <3>5, AppendCoded
    <3>7. f[k - 1].octets \in Seq(Octet)
      BY <3>1 DEF Wires
    <3>8. (Coded(p) \o f[k - 1].octets) \o Coded(ps[k]) = Coded(p) \o (f[k - 1].octets \o Coded(ps[k]))
      <4>1. PICK x \in Seq(Octet), y \in Seq(Octet), z \in Seq(Octet) :
              x = Coded(p) /\ y = f[k - 1].octets /\ z = Coded(ps[k])
        BY <1>7, <3>6, <3>7
      <4>2. (x \o y) \o z = x \o (y \o z)
        BY OctetsAssociate
      <4> QED BY <4>1, <4>2
    <3>9. f[k].octets = f[k - 1].octets \o Coded(ps[k])
      <4>1. \A e, o : Wire(e, o).octets = o
        BY DEF Wire
      <4> QED BY <3>2, <4>1
    <3> QED BY <3>5, <3>6, <3>8, <3>9
  <2> QED BY <2>1, <2>2
<1>10. n \in S
  <2>1. n \in 0 .. n
    OBVIOUS
  <2> HIDE DEF S
  <2> QED BY <1>8, <1>9, <2>1, Induction
<1>11. encodeVariablePart(ps) = f[n] /\ encodeVariablePart(<<p>> \o ps) = g[n + 1]
  BY <1>2, <1>3, <1>4, <1>5, <1>6 DEF encodeVariablePart, W0
<1> QED BY <1>10, <1>11

\* Two octets, and two in a row.
LEMMA TwoOctets ==
  ASSUME NEW w \in Seq(Octet), Len(w) = 2
  PROVE  w = <<w[1], w[2]>>
  OBVIOUS

\* Two octets cut out of a buffer, as a uint16 is.
LEMMA PairOfOctets ==
  ASSUME NEW v \in Seq(Octet), NEW i \in 1 .. Len(v), i + 1 <= Len(v)
  PROVE  SubSeq(v, i, i + 1) = <<v[i], v[i + 1]>>
<1>1. PICK j \in 1 .. Len(v) : j = i + 1
  OBVIOUS
<1>2. /\ SubSeq(v, i, j) \in Seq(Octet) /\ Len(SubSeq(v, i, j)) = 2
      /\ SubSeq(v, i, j)[1] = v[i] /\ SubSeq(v, i, j)[2] = v[j]
  BY <1>1
<1>3. PICK w \in Seq(Octet) : w = SubSeq(v, i, j)
  BY <1>2
<1>4. Len(w) = 2 /\ w[1] = v[i] /\ w[2] = v[j]
  BY <1>2, <1>3
<1>5. w = <<w[1], w[2]>>
  BY <1>4, TwoOctets
<1> QED BY <1>1, <1>3, <1>4, <1>5

\* encodeVariablePart of what scan found is what it was found in.
LEMMA EncodeScan ==
  ASSUME NEW v \in Seq(Octet), scan(v).err = nil
  PROVE  encodeVariablePart(scan(v).params) = Wire(nil, v)
<1>1. PICK len \in Nat : len = Len(v)
  OBVIOUS
<1>2. PICK f \in [1 .. Len(v) + 1 -> Outcomes] :
        scan(v) = f[1] /\ \A pos \in 1 .. Len(v) + 1 : f[pos] = Turn(v, f, pos)
  BY ScanTurns
<1> DEFINE Undone(pos) == f[pos].err = nil => encodeVariablePart(f[pos].params) = Wire(nil, SubSeq(v, pos, len))
           S == {k \in 0 .. len : \A pos \in (len + 1) - k .. len + 1 : Undone(pos)}
<1>3. 0 \in S
  <2>1. Undone(len + 1)
    <3>1. len + 1 \in 1 .. Len(v) + 1 /\ len + 1 > Len(v)
      BY <1>1
    <3>2. f[len + 1] = Finished
      BY <1>2, <3>1 DEF Turn
    <3>3. SubSeq(v, len + 1, len) = <<>>
      BY <1>1
    <3>4. f[len + 1].params = <<>>
      BY <3>2 DEF Finished
    <3> QED BY <3>3, <3>4, EncodeNothing
  <2>2. \A pos \in (len + 1) - 0 .. len + 1 : pos = len + 1
    OBVIOUS
  <2> HIDE DEF Undone
  <2>3. \A pos \in (len + 1) - 0 .. len + 1 : Undone(pos)
    BY <2>1, <2>2
  <2> QED BY <2>3
<1>4. ASSUME NEW k \in 1 .. len, k - 1 \in S PROVE k \in S
  <2>1. PICK pos \in 1 .. len : pos = (len + 1) - k
    OBVIOUS
  <2>2. \A i \in pos + 1 .. len + 1 : Undone(i)
    <3>1. (len + 1) - (k - 1) = pos + 1
      BY <2>1
    <3> HIDE DEF Undone
    <3> QED BY <1>4, <3>1
  <2>3. Undone(pos)
    <3> SUFFICES ASSUME f[pos].err = nil PROVE encodeVariablePart(f[pos].params) = Wire(nil, SubSeq(v, pos, len))
      OBVIOUS
    <3>1. pos \in 1 .. Len(v) + 1 /\ pos \in 1 .. Len(v) /\ ~(pos > Len(v))
      BY <1>1
    <3>2. f[pos] = Turn(v, f, pos)
      BY <1>2, <3>1
    <3>3. ~Overruns(v, pos)
      BY <3>1, <3>2 DEF Turn, Malformed, nil
    <3>4. PICK next \in pos + 2 .. len + 1 : next = NextPos(v, pos)
      BY <1>1, <3>1, <3>3, ParamFits
    <3>5. PICK p \in Parameters : p = ParamAt(v, pos)
      BY <3>1, <3>3, ParamFits
    <3>6. f[pos] = [f[next] EXCEPT !.params = <<p>> \o @]
      BY <3>1, <3>2, <3>3, <3>4, <3>5 DEF Turn
    <3>7. next \in 1 .. Len(v) + 1 /\ next \in pos + 1 .. len + 1
      BY <1>1, <3>4
    <3>8. f[next] \in Outcomes
      BY <1>2, <3>7
    <3>9. f[pos].err = f[next].err /\ f[pos].params = <<p>> \o f[next].params
      BY <3>6, <3>8 DEF Outcomes
    <3>10. encodeVariablePart(f[next].params) = Wire(nil, SubSeq(v, next, len))
      BY <2>2, <3>7, <3>9
    <3>11. PICK n \in Octet : n = v[pos + 1] /\ next = pos + 2 + n /\ pos + 1 <= len
      BY <1>1, <3>1, <3>3, <3>4, ParamFits DEF NextPos
    <3>12. Len(p.value) = n
      <4>1. p.value = SubSeq(v, pos + 2, next - 1)
        BY <3>4, <3>5 DEF ParamAt
      <4>2. n \in Nat /\ next = pos + 2 + n /\ next <= len + 1
        BY <3>4, <3>11 DEF Octet
      <4>3. next - 1 \in Nat /\ next - 1 <= len /\ next - 1 = pos + 1 + n
        BY <4>2
      <4>4. PICK last \in Nat : last = next - 1 /\ last <= len /\ last = pos + 1 + n
        BY <4>3
      <4>5. Len(SubSeq(v, pos + 2, last)) = IF pos + 2 <= last THEN last - (pos + 2) + 1 ELSE 0
        BY <1>1, <4>4
      <4>6. (IF pos + 2 <= last THEN last - (pos + 2) + 1 ELSE 0) = n
        BY <4>2, <4>4
      <4> QED BY <4>1, <4>4, <4>5, <4>6
    <3>13. encodeVariablePart(<<p>> \o f[next].params) = Wire(nil, Coded(p) \o SubSeq(v, next, len))
      <4>1. PICK ps \in Seq(Parameters) : ps = f[next].params
        BY <3>8 DEF Outcomes
      <4>2. ~(Len(p.value) > 255)
        BY <3>12 DEF Octet
      <4>3. encodeVariablePart(ps).err = nil /\ encodeVariablePart(ps).octets = SubSeq(v, next, len)
        BY <3>10, <4>1 DEF Wire
      <4> QED BY <4>1, <4>2, <4>3, EncodeCons
    <3>14. Coded(p) = SubSeq(v, pos, next - 1)
      <4>1. Coded(p) = <<v[pos], v[pos + 1]>> \o SubSeq(v, pos + 2, next - 1)
        BY <3>4, <3>5, <3>11, <3>12 DEF Coded, ParamAt
      <4>2. <<v[pos], v[pos + 1]>> = SubSeq(v, pos, pos + 1)
        BY <1>1, <3>11, PairOfOctets
      <4>3. pos \in 1 .. Len(v) + 1 /\ pos + 1 \in pos - 1 .. Len(v) /\ next - 1 \in pos + 1 .. Len(v) /\ (pos + 1) + 1 = pos + 2
        BY <1>1, <3>4, <3>11
      <4> QED BY <4>1, <4>2, <4>3, ConcatAdjacentSubSeq
    <3>15. SubSeq(v, pos, next - 1) \o SubSeq(v, next, len) = SubSeq(v, pos, len)
      <4>1. /\ pos \in 1 .. Len(v) + 1 /\ next - 1 \in pos - 1 .. Len(v) /\ len \in next - 1 .. Len(v)
            /\ (next - 1) + 1 = next
        BY <1>1, <3>4
      <4> QED BY <4>1, ConcatAdjacentSubSeq
    <3> QED BY <3>9, <3>13, <3>14, <3>15
  <2>4. \A i \in pos .. len + 1 : i = pos \/ i \in pos + 1 .. len + 1
    OBVIOUS
  <2> HIDE DEF Undone
  <2>5. \A i \in pos .. len + 1 : Undone(i)
    BY <2>2, <2>3, <2>4
  <2>6. k \in 0 .. len
    OBVIOUS
  <2> QED BY <2>1, <2>5, <2>6
<1>5. len \in S
  <2>1. len \in 0 .. len
    OBVIOUS
  <2> HIDE DEF S
  <2> QED BY <1>3, <1>4, <2>1, Induction
<1>6. Undone(1)
  <2>1. 1 \in (len + 1) - len .. len + 1
    OBVIOUS
  <2> HIDE DEF Undone
  <2> QED BY <1>5, <2>1
<1>7. SubSeq(v, 1, len) = v
  BY <1>1, SubSeqFull
<1> QED BY <1>2, <1>6, <1>7

-----------------------------------------------------------------------------
(* Forwarding a TPDU with a plain list of parameters                       *)

\* Octets in a row, and what is one.
LEMMA Adjacent ==
  ASSUME NEW b \in Seq(Octet), NEW i \in Int, NEW j \in Int, NEW k \in Int,
         1 <= i, i - 1 <= j, j <= k, k <= Len(b)
  PROVE  SubSeq(b, i, j) \o SubSeq(b, j + 1, k) = SubSeq(b, i, k)
<1>1. i \in 1 .. Len(b) + 1 /\ j \in i - 1 .. Len(b) /\ k \in j .. Len(b)
  OBVIOUS
<1> QED BY <1>1, ConcatAdjacentSubSeq

\* A value of one octet is that octet.
LEMMA AloneOctet ==
  ASSUME NEW w \in Seq(Octet), Len(w) = 1
  PROVE  w = <<w[1]>>
  OBVIOUS

\* One octet cut out of a buffer.
LEMMA OneOctet ==
  ASSUME NEW v \in Seq(Octet), NEW i \in 1 .. Len(v)
  PROVE  SubSeq(v, i, i) = <<v[i]>>
<1>1. SubSeq(v, i, i) \in Seq(Octet) /\ Len(SubSeq(v, i, i)) = 1 /\ SubSeq(v, i, i)[1] = v[i]
  OBVIOUS
<1>2. PICK w \in Seq(Octet) : w = SubSeq(v, i, i)
  BY <1>1
<1>3. Len(w) = 1 /\ w[1] = v[i]
  BY <1>1, <1>2
<1>4. w = <<w[1]>>
  BY <1>3, AloneOctet
<1> QED BY <1>2, <1>3, <1>4

\* Numbers that were read are written back as they were.
LEMMA Uint16Kept ==
  ASSUME NEW b \in Seq(Octet), NEW i \in 1 .. Len(b), i + 1 <= Len(b)
  PROVE  Octets(Uint16(b, i)) = SubSeq(b, i, i + 1)
<1>1. PICK x \in Octet, y \in Octet : x = b[i] /\ y = b[i + 1]
  <2>1. b[i] \in Octet /\ b[i + 1] \in Octet
    OBVIOUS
  <2> QED BY <2>1
<1>2. Uint16(b, i) = 256 * x + y
  BY <1>1 DEF Uint16
<1>3. (256 * x + y) \div 256 = x
  BY SMT DEF Octet
<1>4. (256 * x + y) % 256 = y
  <2>1. PICK u \in Nat : u = 256 * x + y
    BY SMT DEF Octet
  <2>2. u = 256 * (u \div 256) + (u % 256)
    BY SMT
  <2>3. u % 256 \in Int /\ x \in Int /\ y \in Int
    BY SMT DEF Octet
  <2> QED BY <1>3, <2>1, <2>2, <2>3, SMT
<1>5. Octets(Uint16(b, i)) = <<x, y>>
  BY <1>2, <1>3, <1>4 DEF Octets
<1> QED BY <1>1, <1>5, PairOfOctets

\* TPDU-NR and EOT are written into the octet they were read from.
LEMMA NrKept ==
  ASSUME NEW o \in Octet, NEW nr, NEW eot, nr = o % 128, eot <=> o >= 128
  PROVE  (nr % 128) + (IF eot THEN 128 ELSE 0) = o
<1>1. CASE o >= 128
  <2>1. (o % 128) % 128 = o - 128
    BY <1>1, SMT DEF Octet
  <2>2. (nr % 128) + 128 = o
    BY <2>1, SMT DEF Octet
  <2> QED BY <1>1, <2>2
<1>2. CASE ~(o >= 128)
  <2>1. (o % 128) % 128 = o
    BY <1>2, SMT DEF Octet
  <2>2. (nr % 128) + 0 = o
    BY <2>1, SMT DEF Octet
  <2> QED BY <1>2, <2>2
<1> QED BY <1>1, <1>2

\* So is the code, with the credit in its low bits.
LEMMA CodeKept ==
  ASSUME NEW type \in Types, type # "DT", NEW code \in Octet, HasCode(type, code)
  PROVE  TPDUType[type] + (IF type \in HasCDT THEN (code % 16) % 16 ELSE 0) = code
<1>1. type \in {"CR", "CC", "DR", "DC", "ER", "ED", "AK", "EA", "RJ"}
  BY TypeTable
<1>2. CASE type \in {"DR", "DC", "ER", "ED", "EA"}
  <2>1. code = TPDUType[type]
    BY <1>2, CodeTable, SMT DEF TPDUType
  <2>2. TPDUType[type] + 0 = TPDUType[type] /\ type \notin HasCDT
    BY <1>2, SMT DEF HasCDT, TPDUType
  <2> QED BY <2>1, <2>2
<1>3. CASE type \in {"CR", "CC", "AK", "RJ"}
  <2>1. type \in HasCDT
    BY <1>3 DEF HasCDT
  <2>2. CASE type = "CR"
    <3>1. code \in 224 .. 239 /\ TPDUType[type] = 224
      BY <2>2, CodeTable, SMT DEF TPDUType
    <3>2. 224 + ((code % 16) % 16) = code
      BY <3>1, SMT
    <3> QED BY <2>1, <3>1, <3>2
  <2>3. CASE type = "CC"
    <3>1. code \in 208 .. 223 /\ TPDUType[type] = 208
      BY <2>3, CodeTable, SMT DEF TPDUType
    <3>2. 208 + ((code % 16) % 16) = code
      BY <3>1, SMT
    <3> QED BY <2>1, <3>1, <3>2
  <2>4. CASE type = "AK"
    <3>1. code \in 96 .. 111 /\ TPDUType[type] = 96
      BY <2>4, CodeTable, SMT DEF TPDUType
    <3>2. 96 + ((code % 16) % 16) = code
      BY <3>1, SMT
    <3> QED BY <2>1, <3>1, <3>2
  <2>5. CASE type = "RJ"
    <3>1. code \in 80 .. 95 /\ TPDUType[type] = 80
      BY <2>5, CodeTable, SMT DEF TPDUType
    <3>2. 80 + ((code % 16) % 16) = code
      BY <3>1, SMT
    <3> QED BY <2>1, <3>1, <3>2
  <2> QED BY <1>3, <2>2, <2>3, <2>4, <2>5
<1> QED BY <1>1, <1>2, <1>3

\* LI, fixed and variable part and user data of a TPDU make the TPDU.
LEMMA AssembleKept ==
  ASSUME NEW b \in Seq(Octet), NEW n \in 1 .. 6, NEW li \in n .. 254, Len(b) >= 1 + li, b[1] = li
  PROVE  /\ assemble(SubSeq(b, 2, 1 + n), Wire(nil, SubSeq(b, 2 + n, 1 + li)), SubSeq(b, 2 + li, Len(b))) = Wire(nil, b)
         /\ assemble(SubSeq(b, 2, 1 + n), Wire(nil, SubSeq(b, 2 + n, 1 + li)), <<>>) = Wire(nil, SubSeq(b, 1, 1 + li))
<1> DEFINE fixed == SubSeq(b, 2, 1 + n)
           var == SubSeq(b, 2 + n, 1 + li)
<1>1. PICK len \in Nat : len = Len(b) /\ len >= 1 + li
  OBVIOUS
<1>2. Len(fixed) = n /\ Len(var) = li - n /\ fixed \in Seq(Octet) /\ var \in Seq(Octet)
  BY <1>1
<1>3. Wire(nil, var).err = nil /\ Wire(nil, var).octets = var
  BY DEF Wire
<1>4. <<li>> \o fixed \o var = SubSeq(b, 1, 1 + li)
  <2>1. SubSeq(b, 1, 1) = <<li>>
    BY <1>1, OneOctet
  <2>2. SubSeq(b, 1, 1) \o SubSeq(b, 2, 1 + n) = SubSeq(b, 1, 1 + n)
    <3>1. 1 <= 1 + n /\ 1 + n <= Len(b) /\ 1 + 1 = 2
      BY <1>1
    <3> QED BY <3>1, Adjacent
  <2>3. SubSeq(b, 1, 1 + n) \o SubSeq(b, 2 + n, 1 + li) = SubSeq(b, 1, 1 + li)
    <3>1. 0 <= 1 + n /\ 1 + n <= 1 + li /\ 1 + li <= Len(b) /\ (1 + n) + 1 = 2 + n
      BY <1>1
    <3> QED BY <3>1, Adjacent
  <2> QED BY <2>1, <2>2, <2>3
<1>5. SubSeq(b, 1, 1 + li) \o SubSeq(b, 2 + li, Len(b)) = b
  <2>1. 0 <= 1 + li /\ 1 + li <= len /\ (1 + li) + 1 = 2 + li /\ len <= Len(b)
    BY <1>1
  <2>2. SubSeq(b, 1, 1 + li) \o SubSeq(b, 2 + li, len) = SubSeq(b, 1, len)
    BY <2>1, Adjacent
  <2> QED BY <1>1, <2>2, SubSeqFull
<1>6. SubSeq(b, 1, 1 + li) \o <<>> = SubSeq(b, 1, 1 + li)
  BY <1>1
<1> HIDE DEF fixed, var
<1>7. ASSUME NEW data
      PROVE  assemble(fixed, Wire(nil, var), data) = Wire(nil, <<li>> \o fixed \o var \o data)
  <2>1. Len(fixed) + Len(var) = li /\ ~(li > MaxLI)
    BY <1>2 DEF MaxLI
  <2> QED BY <1>3, <2>1 DEF assemble
<1>8. /\ assemble(fixed, Wire(nil, var), SubSeq(b, 2 + li, Len(b))) = Wire(nil, b)
      /\ assemble(fixed, Wire(nil, var), <<>>) = Wire(nil, SubSeq(b, 1, 1 + li))
  BY <1>4, <1>5, <1>6, <1>7
<1> QED BY <1>8 DEF fixed, var

\* What every DecodeXX but DecodeDT reads from the fixed part.
HasFixed(t, type, b) ==
  LET last == b[1 + FixedPartLength[type]] IN
  /\ t.type = type
  /\ type \in HasCDT => t.cdt = b[2] % 16
  /\ t.dst = Uint16(b, 3)
  /\ type \in HasSource => t.src = Uint16(b, 5)
  /\ type \in HasOption => t.opt = last
  /\ type = "ED" => t.nr = last % 128 /\ (t.eot <=> last >= 128)

\* fixedPart writes the octets that fixedFields read.
LEMMA FixedKept ==
  ASSUME NEW type \in Types, type # "DT", NEW b \in Seq(Octet), headerError(type, b) = nil,
         NEW t, HasFixed(t, type, b)
  PROVE  fixedPart(t) = SubSeq(b, 2, 1 + FixedPartLength[type])
<1> DEFINE code == TPDUType[type] + (IF type \in HasCDT THEN t.cdt % 16 ELSE 0)
           src == IF type \in HasSource THEN Octets(t.src) ELSE <<>>
           nr == (t.nr % 128) + (IF t.eot THEN 128 ELSE 0)
           tail == IF type \in HasOption THEN <<t.opt>> ELSE IF type = "ED" THEN <<nr>> ELSE <<>>
<1>1. PICK n \in 4 .. 6 : n = FixedPartLength[type]
  BY FixedLengths
<1>2. PICK len \in Nat : len = Len(b) /\ len >= 1 + n
  <2>1. Len(b) \in Nat /\ HeaderLength(b) <= Len(b) /\ n <= b[1] /\ b[1] \in Octet
    BY <1>1, HeaderChecked
  <2>2. PICK li \in Octet : li = b[1]
    BY <2>1
  <2>3. Len(b) >= 1 + n
    BY <2>1, <2>2 DEF HeaderLength, Octet
  <2> QED BY <2>1, <2>3
<1>3. PICK last \in Octet : last = b[1 + n]
  BY <1>2
<1>4. /\ t.type = type /\ t.dst = Uint16(b, 3)
      /\ type \in HasCDT => t.cdt = b[2] % 16
      /\ type \in HasSource => t.src = Uint16(b, 5)
      /\ type \in HasOption => t.opt = last
      /\ type = "ED" => t.nr = last % 128 /\ (t.eot <=> last >= 128)
  BY <1>1, <1>3 DEF HasFixed
<1>5. <<code>> = SubSeq(b, 2, 2)
  <2>1. b[2] \in Octet /\ 2 \in 1 .. Len(b)
    BY <1>2
  <2>2. HasCode(type, b[2])
    BY HeaderChecked DEF LooksLike
  <2>3. TPDUType[type] + (IF type \in HasCDT THEN (b[2] % 16) % 16 ELSE 0) = b[2]
    BY <2>1, <2>2, CodeKept
  <2>4. code = b[2]
    BY <1>4, <2>3
  <2> QED BY <2>1, <2>4, OneOctet
<1>6. Octets(t.dst) = SubSeq(b, 3, 4)
  <2>1. 3 \in 1 .. Len(b) /\ 3 + 1 <= Len(b) /\ 3 + 1 = 4
    BY <1>2
  <2> QED BY <1>4, <2>1, Uint16Kept
<1>7. SubSeq(b, 2, 2) \o SubSeq(b, 3, 4) = SubSeq(b, 2, 4)
  <2>1. 1 <= 2 /\ 2 - 1 <= 2 /\ 2 <= 4 /\ 4 <= Len(b) /\ 2 + 1 = 3
    BY <1>2
  <2> QED BY <2>1, Adjacent
<1>8. fixedPart(t) = <<code>> \o Octets(t.dst) \o src \o tail
  BY <1>4 DEF fixedPart
<1>9. type \in {"CR", "CC", "DR", "DC", "ER", "ED", "AK", "EA", "RJ"}
  BY TypeTable
<1>10. type \in HasSource => n \in {5, 6} /\ src = SubSeq(b, 5, 6)
  <2> SUFFICES ASSUME type \in HasSource PROVE n \in {5, 6} /\ src = SubSeq(b, 5, 6)
    OBVIOUS
  <2>1. n \in {5, 6}
    BY <1>1, SMT DEF HasSource, FixedPartLength
  <2>2. 5 \in 1 .. Len(b) /\ 5 + 1 <= Len(b) /\ 5 + 1 = 6
    BY <1>2, <2>1
  <2>3. Octets(t.src) = SubSeq(b, 5, 6)
    BY <1>4, <2>2, Uint16Kept
  <2> QED BY <2>1, <2>3
<1>11. type \in HasOption \/ type = "ED" => tail = SubSeq(b, 1 + n, 1 + n)
  <2>1. 1 + n \in 1 .. Len(b)
    BY <1>2
  <2>2. SubSeq(b, 1 + n, 1 + n) = <<last>>
    BY <1>3, <2>1, OneOctet
  <2>3. type = "ED" => nr = last
    BY <1>4, NrKept
  <2> HIDE DEF nr
  <2> QED BY <1>4, <2>2, <2>3
<1> HIDE DEF code, src, tail
<1>12. <<code>> \o Octets(t.dst) = SubSeq(b, 2, 4)
  BY <1>5, <1>6, <1>7
<1>13. CASE type \in {"CR", "CC", "DR"}
  <2>1. n = 6 /\ type \in HasSource /\ type \in HasOption
    BY <1>1, <1>13, SMT DEF FixedPartLength, HasSource, HasOption
  <2>2. src = SubSeq(b, 5, 6) /\ tail = SubSeq(b, 7, 7) /\ 1 + n = 7
    BY <1>10, <1>11, <2>1
  <2>3. SubSeq(b, 2, 4) \o SubSeq(b, 5, 6) = SubSeq(b, 2, 6)
    <3>1. 1 <= 2 /\ 2 - 1 <= 4 /\ 4 <= 6 /\ 6 <= Len(b) /\ 4 + 1 = 5
      BY <1>2, <2>1
    <3> QED BY <3>1, Adjacent
  <2>4. SubSeq(b, 2, 6) \o SubSeq(b, 7, 7) = SubSeq(b, 2, 7)
    <3>1. 1 <= 2 /\ 2 - 1 <= 6 /\ 6 <= 7 /\ 7 <= Len(b) /\ 6 + 1 = 7
      BY <1>2, <2>1
    <3> QED BY <3>1, Adjacent
  <2> QED BY <1>1, <1>8, <1>12, <2>2, <2>3, <2>4
<1>14. CASE type = "DC"
  <2>1. n = 5 /\ type \in HasSource /\ type \notin HasOption
    BY <1>1, <1>14, SMT DEF FixedPartLength, HasSource, HasOption
  <2>2. src = SubSeq(b, 5, 6) /\ tail = <<>> /\ 1 + n = 6
    BY <1>10, <1>14, <2>1 DEF tail
  <2>3. SubSeq(b, 2, 4) \o SubSeq(b, 5, 6) = SubSeq(b, 2, 6)
    <3>1. 1 <= 2 /\ 2 - 1 <= 4 /\ 4 <= 6 /\ 6 <= Len(b) /\ 4 + 1 = 5
      BY <1>2, <2>1
    <3> QED BY <3>1, Adjacent
  <2>4. SubSeq(b, 2, 6) \o <<>> = SubSeq(b, 2, 6)
    BY <1>2, <2>1
  <2> QED BY <1>1, <1>8, <1>12, <2>2, <2>3, <2>4
<1>15. CASE type \in {"ER", "ED", "AK", "EA", "RJ"}
  <2>1. n = 4 /\ type \notin HasSource /\ (type \in HasOption \/ type = "ED")
    BY <1>1, <1>15, SMT DEF FixedPartLength, HasSource, HasOption
  <2>2. src = <<>> /\ tail = SubSeq(b, 5, 5) /\ 1 + n = 5
    BY <1>11, <2>1 DEF src
  <2>3. SubSeq(b, 2, 4) \o <<>> = SubSeq(b, 2, 4)
    BY <1>2
  <2>4. SubSeq(b, 2, 4) \o SubSeq(b, 5, 5) = SubSeq(b, 2, 5)
    <3>1. 1 <= 2 /\ 2 - 1 <= 4 /\ 4 <= 5 /\ 5 <= Len(b) /\ 4 + 1 = 5
      BY <1>2, <2>1
    <3> QED BY <3>1, Adjacent
  <2> QED BY <1>1, <1>8, <1>12, <2>2, <2>3, <2>4
<1> QED BY <1>9, <1>13, <1>14, <1>15

\* What decodePlain returns, and that assembling it makes what it came from.
LEMMA PlainKept ==
  ASSUME NEW type \in Types, type # "DT", NEW b \in Seq(Octet), decodePlain(type, b).err = nil
  PROVE  LET t == decodePlain(type, b).tpdu
             var == SubSeq(b, 2 + FixedPartLength[type], HeaderLength(b))
         IN /\ t.type = type /\ t.dst # None /\ (type = "ED" => t.nr # None)
            /\ t.data = IF type \in HasUserData THEN userData(b) ELSE <<>>
            /\ encodeVariablePart(t.params) = Wire(nil, var)
            /\ assemble(fixedPart(t), Wire(nil, var), userData(b)) = Wire(nil, b)
            /\ assemble(fixedPart(t), Wire(nil, var), <<>>) = Wire(nil, SubSeq(b, 1, HeaderLength(b)))
<1> DEFINE v == variablePart(type, b)
           p == parseVariablePart(v)
           t == [fixedFields(type, b) EXCEPT !.params = p.params]
<1>1. decodePlain(type, b) = IF headerError(type, b) # nil THEN Fail(headerError(type, b))
                             ELSE IF p.err # nil THEN Fail(p.err) ELSE Ok(t)
  BY DEF decodePlain
<1>2. /\ t.type = type /\ t.params = p.params /\ t.dst = Uint16(b, 3)
      /\ t.data = IF type \in HasUserData THEN userData(b) ELSE <<>>
  BY DEF fixedFields
<1>3. HasFixed(t, type, b)
  BY DEF HasFixed, fixedFields
<1>4. type = "ED" => t.nr = b[1 + FixedPartLength[type]] % 128
  BY DEF fixedFields
<1> HIDE DEF t, p
<1>5. headerError(type, b) = nil /\ p.err = nil /\ decodePlain(type, b).tpdu = t
  BY <1>1, FailOk
<1>6. PICK n \in 4 .. 6 : n = FixedPartLength[type]
  BY FixedLengths
<1>7. PICK li \in Octet : li = b[1] /\ li \in n .. 254 /\ HeaderLength(b) = 1 + li /\ 1 + li <= Len(b)
  <2>1. b[1] \in Octet /\ n <= b[1] /\ HeaderLength(b) <= Len(b) /\ ReadLI(b) = nil /\ Len(b) >= 2
    BY <1>5, <1>6, HeaderChecked DEF LooksLike, MinHeaderLength
  <2>2. PICK m \in Octet : m = b[1]
    BY <2>1
  <2>3. ~(m > 254)
    BY <2>1, <2>2 DEF ReadLI, MaxLI, nil
  <2>4. m \in n .. 254
    BY <2>1, <2>2, <2>3 DEF Octet
  <2> QED BY <2>1, <2>2, <2>4 DEF HeaderLength
<1>8. v = SubSeq(b, 2 + n, 1 + li) /\ v \in Seq(Octet)
  BY <1>5, <1>6, <1>7, VariableTypes DEF variablePart
<1> HIDE DEF v
<1>9. encodeVariablePart(t.params) = Wire(nil, v)
  <2>1. scan(v).err = nil /\ p = scan(v)
    <3>1. scan(v) \in Outcomes
      BY <1>8, ScanTypes
    <3>2. [scan(v) EXCEPT !.params = <<>>].err = scan(v).err
      <4>1. PICK r \in Outcomes : r = scan(v)
        BY <3>1
      <4>2. [r EXCEPT !.params = <<>>].err = r.err
        BY DEF Outcomes
      <4> QED BY <4>1, <4>2
    <3> QED BY <1>5, <3>2 DEF p, parseVariablePart
  <2> QED BY <1>2, <1>8, <2>1, EncodeScan
<1>10. fixedPart(t) = SubSeq(b, 2, 1 + n)
  BY <1>3, <1>5, <1>6, FixedKept
<1>11. userData(b) = SubSeq(b, 2 + li, Len(b))
  <2>1. (1 + li) + 1 = 2 + li
    BY DEF Octet
  <2> QED BY <1>7, <2>1 DEF userData
<1>12. /\ assemble(fixedPart(t), Wire(nil, v), userData(b)) = Wire(nil, b)
       /\ assemble(fixedPart(t), Wire(nil, v), <<>>) = Wire(nil, SubSeq(b, 1, 1 + li))
  <2>1. n \in 1 .. 6 /\ li \in n .. 254 /\ Len(b) >= 1 + li /\ b[1] = li
    BY <1>7
  <2>2. /\ assemble(SubSeq(b, 2, 1 + n), Wire(nil, SubSeq(b, 2 + n, 1 + li)), SubSeq(b, 2 + li, Len(b))) = Wire(nil, b)
        /\ assemble(SubSeq(b, 2, 1 + n), Wire(nil, SubSeq(b, 2 + n, 1 + li)), <<>>) = Wire(nil, SubSeq(b, 1, 1 + li))
    BY <2>1, AssembleKept
  <2> QED BY <1>8, <1>10, <1>11, <2>2
<1>13. t.dst # None /\ (type = "ED" => t.nr # None)
  <2>1. PICK x \in Octet, y \in Octet : x = b[3] /\ y = b[4]
    <3>1. b[3] \in Octet /\ b[4] \in Octet
      BY <1>7
    <3> QED BY <3>1
  <2>2. t.dst = 256 * x + y
    BY <1>2, <2>1 DEF Uint16
  <2>3. PICK last \in Octet : last = b[1 + n]
    <3>1. 1 + n \in 1 .. Len(b)
      BY <1>7
    <3>2. b[1 + n] \in Octet
      BY <3>1
    <3> QED BY <3>2
  <2>4. last % 128 \in 0 .. 127
    BY DEF Octet
  <2>5. t.dst # None
    BY <2>2 DEF None, Octet
  <2>6. type = "ED" => t.nr # None
    <3>1. type = "ED" => t.nr = last % 128
      BY <1>4, <1>6, <2>3
    <3>2. PICK m \in 0 .. 127 : m = last % 128
      BY <2>4
    <3>3. m # None
      BY SMT DEF None
    <3> QED BY <3>1, <3>2, <3>3
  <2> QED BY <2>5, <2>6
<1> QED BY <1>2, <1>5, <1>6, <1>7, <1>8, <1>9, <1>12, <1>13

\* A RJ that decodes has no variable part.
LEMMA RJAlone ==
  ASSUME NEW b \in Seq(Octet), DecodeRJ(b).err = nil
  PROVE  DecodeRJ(b) = decodePlain("RJ", b) /\ variablePart("RJ", b) = <<>>
<1>1. DecodeRJ(b) = decodePlain("RJ", b)
  <2>1. DecodeRJ(b) \in {Fail("ErrMalformedParameter"), decodePlain("RJ", b)}
    BY DEF DecodeRJ
  <2> QED BY <2>1, FailOk DEF nil
<1>2. headerError("RJ", b) = nil
  BY <1>1, FailOk DEF decodePlain
<1>3. FixedPartLength["RJ"] = 4 /\ "RJ" \in Types
  BY TypeTable, SMT DEF FixedPartLength
<1>4. /\ Len(b) \in Nat /\ Len(b) >= MinHeaderLength /\ ReadLI(b) = nil
      /\ HeaderLength(b) <= Len(b) /\ 4 <= b[1] /\ b[1] \in Octet
  BY <1>2, <1>3, HeaderChecked DEF LooksLike
<1>5. PICK li \in Octet : li = b[1] /\ 4 <= li /\ 1 + li <= Len(b)
  BY <1>4 DEF HeaderLength
<1>6. ~(b[1] > 4)
  <2>1. Len(b) >= 1 + 4
    BY <1>4, <1>5 DEF Octet
  <2>2. SUFFICES ASSUME b[1] > 4 PROVE FALSE
    OBVIOUS
  <2>3. DecodeRJ(b) = Fail("ErrMalformedParameter")
    BY <1>3, <1>4, <2>1, <2>2 DEF DecodeRJ
  <2> QED BY <2>3, FailOk DEF nil
<1>7. li = 4
  BY <1>5, <1>6 DEF Octet
<1>8. variablePart("RJ", b) = SubSeq(b, 6, 5)
  BY <1>3, <1>5, <1>7 DEF variablePart, HeaderLength
<1>9. SubSeq(b, 6, 5) = <<>>
  <2>1. PICK i \in Int, j \in Int : i = 6 /\ j = 5
    OBVIOUS
  <2>2. j < i
    BY <2>1
  <2> QED BY <2>1, <2>2, SubSeqEmpty
<1> QED BY <1>1, <1>8, <1>9

\* What the decoders with a plain list of parameters return is what decodePlain
\* returns; a RJ has no variable part.
LEMMA DecodedPlain ==
  ASSUME NEW type \in Types, type \notin {"CR", "CC", "DT"}, NEW b \in Seq(Octet),
         DecodeAs(type, b).err = nil
  PROVE  DecodeAs(type, b) = decodePlain(type, b) /\ (type = "RJ" => variablePart(type, b) = <<>>)
<1>1. type \in {"DR", "DC", "ER", "ED", "AK", "EA", "RJ"}
  BY TypeTable
<1>2. CASE type \in {"DR", "DC", "ER", "AK", "EA"}
  BY <1>2 DEF DecodeAs, DecodeDR, DecodeDC, DecodeER, DecodeAK, DecodeEA
<1>3. CASE type = "ED"
  <2>1. DecodeAs(type, b) \in {Fail("ErrInvalidEDUserDataLength"), decodePlain(type, b)}
    BY <1>3 DEF DecodeAs, DecodeED
  <2> QED BY <1>3, <2>1, FailOk DEF nil
<1>4. CASE type = "RJ"
  <2>1. DecodeAs(type, b) = DecodeRJ(b)
    BY <1>4 DEF DecodeAs
  <2> QED BY <1>4, <2>1, RJAlone
<1> QED BY <1>1, <1>2, <1>3, <1>4

\* MarshalBinary of what Decode returned, for the types with a plain list of
\* parameters but DT: the octets, or their header if the type has no user data.
LEMMA MarshalKept ==
  ASSUME NEW type \in Types, type \notin {"CR", "CC", "DT"}, NEW b \in Seq(Octet),
         DecodeAs(type, b).err = nil
  PROVE  Marshal(DecodeAs(type, b).tpdu) =
           Wire(nil, IF type \in HasUserData THEN b ELSE SubSeq(b, 1, HeaderLength(b)))
<1> DEFINE t == decodePlain(type, b).tpdu
           var == SubSeq(b, 2 + FixedPartLength[type], HeaderLength(b))
<1>1. type \in {"DR", "DC", "ER", "ED", "AK", "EA", "RJ"} /\ type # "DT"
  BY TypeTable
<1>2. DecodeAs(type, b) = decodePlain(type, b) /\ (type = "RJ" => var = <<>>)
  BY DecodedPlain DEF variablePart
<1>3. /\ t.type = type /\ t.dst # None /\ (type = "ED" => t.nr # None)
      /\ t.data = IF type \in HasUserData THEN userData(b) ELSE <<>>
      /\ encodeVariablePart(t.params) = Wire(nil, var)
      /\ assemble(fixedPart(t), Wire(nil, var), userData(b)) = Wire(nil, b)
      /\ assemble(fixedPart(t), Wire(nil, var), <<>>) = Wire(nil, SubSeq(b, 1, HeaderLength(b)))
  BY <1>1, <1>2, PlainKept
<1> HIDE DEF t
<1>4. CASE type = "DR"
  <2>1. Marshal(t) = assemble(fixedPart(t), encodeVariablePart(t.params), t.data) /\ type \in HasUserData
    BY <1>3, <1>4 DEF Marshal, MarshalDR, HasUserData
  <2> QED BY <1>2, <1>3, <2>1 DEF t
<1>5. CASE type \in {"DC", "ER", "AK", "EA"}
  <2>1. Marshal(t) = assemble(fixedPart(t), encodeVariablePart(t.params), <<>>) /\ type \notin HasUserData
    BY <1>3, <1>5 DEF Marshal, MarshalDC, MarshalER, MarshalAK, MarshalEA, HasUserData
  <2> QED BY <1>2, <1>3, <2>1 DEF t
<1>6. CASE type = "ED"
  <2>1. Len(t.data) \in MinEDUserDataLen .. MaxEDUserDataLen
    <3>1. DecodeED(b).err = nil
      BY <1>6 DEF DecodeAs
    <3>2. DecodeED(b) = IF decodePlain(type, b).err = nil /\ Len(t.data) \notin MinEDUserDataLen .. MaxEDUserDataLen
                        THEN Fail("ErrInvalidEDUserDataLength") ELSE decodePlain(type, b)
      BY <1>6 DEF DecodeED, t
    <3> QED BY <1>2, <3>1, <3>2, FailOk DEF nil
  <2>2. Marshal(t) = MarshalED(t) /\ type \in HasUserData
    BY <1>3, <1>6 DEF Marshal, HasUserData
  <2>3. MarshalED(t) = assemble(fixedPart(t), encodeVariablePart(t.params), t.data)
    BY <1>3, <1>6, <2>1 DEF MarshalED
  <2> QED BY <1>2, <1>3, <2>2, <2>3 DEF t
<1>7. CASE type = "RJ"
  <2>1. Marshal(t) = assemble(fixedPart(t), Wire(nil, <<>>), <<>>) /\ type \notin HasUserData
    BY <1>3, <1>7 DEF Marshal, MarshalRJ, HasUserData
  <2> QED BY <1>2, <1>3, <1>7, <2>1 DEF t
<1> QED BY <1>1, <1>4, <1>5, <1>6, <1>7

\* Octets of which one is set differ from what they were only there.
LEMMA SameBeyond ==
  ASSUME NEW b \in Seq(Octet), NEW c \in Seq(Octet), Len(b) = Len(c), Len(b) >= 2,
         \A k \in 1 .. Len(b) : k # 2 => c[k] = b[k],
         NEW i \in Int, NEW j \in Int, 3 <= i, i - 1 <= j, j <= Len(b)
  PROVE  SubSeq(c, i, j) = SubSeq(b, i, j)
<1>1. PICK len \in Nat : len = Len(b) /\ len = Len(c)
  OBVIOUS
<1> DEFINE x == SubSeq(b, i, j)
           y == SubSeq(c, i, j)
<1>2. /\ x \in Seq(Octet) /\ Len(x) = j - i + 1
      /\ \A k \in 1 .. j - i + 1 : x[k] = b[i + k - 1]
  BY <1>1
<1>3. /\ y \in Seq(Octet) /\ Len(y) = j - i + 1
      /\ \A k \in 1 .. j - i + 1 : y[k] = c[i + k - 1]
  BY <1>1
<1>4. \A k \in 1 .. j - i + 1 : i + k - 1 \in 1 .. Len(b) /\ i + k - 1 # 2
  BY <1>1
<1> HIDE DEF x, y
<1>5. \A k \in 1 .. j - i + 1 : y[k] = x[k]
  BY <1>2, <1>3, <1>4
<1>6. y = x
  BY <1>2, <1>3, <1>5, SeqEqual
<1> QED BY <1>6 DEF x, y

\* MarshalBinary of a decoded DT: the octets, with the ROA bit cleared.
LEMMA DTKept ==
  ASSUME NEW b \in Seq(Octet), DecodeDT(b).err = nil
  PROVE  Marshal(DecodeDT(b).tpdu) = Wire(nil, [b EXCEPT ![2] = 240])
<1>1. /\ LooksLike("DT", b) /\ b[1] \notin {0, 1, 3} /\ DTParams(b).err = nil
      /\ DecodeDT(b).tpdu = DTOf(b)
  <2>1. /\ LooksLike("DT", b) /\ b[1] \notin {0, 1, 3}
        /\ DecodeDT(b) = IF DTParams(b).err # nil THEN Fail(DTParams(b).err) ELSE Ok(DTOf(b))
    BY DecodeDTCases, FailOk DEF nil
  <2> QED BY <2>1, FailOk
<1>2. PICK li \in 2 .. 254 : li = b[1] /\ li # 3 /\ HeaderLength(b) = 1 + li /\ 1 + li <= Len(b)
  <2>1. Len(b) \in Nat /\ Len(b) >= 2 /\ ReadLI(b) = nil /\ Len(b) >= HeaderLength(b)
    BY <1>1 DEF LooksLike, MinHeaderLength
  <2>2. PICK m \in Octet : m = b[1]
    BY <2>1
  <2>3. ~(m > 254)
    BY <2>1, <2>2 DEF ReadLI, MaxLI, nil
  <2>4. m \in 2 .. 254 /\ m # 3
    BY <1>1, <2>2, <2>3 DEF Octet
  <2> QED BY <2>1, <2>2, <2>4 DEF HeaderLength, Octet
<1>3. PICK n \in {2, 4} : n = DTFixed(b) /\ n <= li
  <2>1. li = 2 => DTFixed(b) = 2 /\ 2 <= li
    BY <1>2 DEF DTFixed
  <2>2. li # 2 => DTFixed(b) = 4
    BY <1>2 DEF DTFixed
  <2>3. li # 3
    BY <1>2
  <2>4. li # 2 => 4 <= li
    BY <2>3
  <2> QED BY <2>1, <2>2, <2>4
<1>4. PICK len \in Nat : len = Len(b) /\ 1 + li <= len
  BY <1>2
<1>5. PICK c \in Seq(Octet) : c = [b EXCEPT ![2] = 240]
  <2>1. 240 \in Octet
    BY DEF Octet
  <2>2. PICK i \in 1 .. Len(b), e \in Octet : i = 2 /\ e = 240
    <3>1. 2 \in 1 .. Len(b)
      BY <1>4
    <3> QED BY <2>1, <3>1
  <2>3. [b EXCEPT ![i] = e] \in Seq(Octet)
    BY ExceptSeq
  <2> QED BY <2>2, <2>3
<1>6. Len(c) = len /\ c[2] = 240 /\ (\A k \in 1 .. Len(b) : k # 2 => c[k] = b[k])
  BY <1>2, <1>4, <1>5
<1>7. ASSUME NEW i \in Int, NEW j \in Int, 3 <= i, i - 1 <= j, j <= len
      PROVE  SubSeq(c, i, j) = SubSeq(b, i, j)
  <2>1. Len(b) = Len(c) /\ Len(b) >= 2 /\ j <= Len(b)
    BY <1>2, <1>4, <1>6, <1>7
  <2> QED BY <1>6, <1>7, <2>1, SameBeyond
<1> DEFINE v == SubSeq(b, 2 + n, 1 + li)
<1>8. v = SubSeq(c, 2 + n, 1 + li) /\ userData(b) = SubSeq(c, 2 + li, len) /\ v \in Seq(Octet)
  <2>1. 3 <= 2 + n /\ (2 + n) - 1 <= 1 + li /\ 1 + li <= len /\ 2 + n \in Int /\ 1 + li \in Int
    BY <1>3, <1>4
  <2>2. 3 <= 2 + li /\ (2 + li) - 1 <= len /\ len <= len /\ 2 + li \in Int /\ (1 + li) + 1 = 2 + li
    BY <1>4
  <2>3. v = SubSeq(c, 2 + n, 1 + li)
    BY <1>7, <2>1
  <2>4. SubSeq(c, 2 + li, len) = SubSeq(b, 2 + li, len)
    BY <1>7, <2>2
  <2>5. userData(b) = SubSeq(b, 2 + li, len)
    BY <1>2, <1>4, <2>2 DEF userData
  <2>6. v \in Seq(Octet)
    BY <1>4, <2>1
  <2> QED BY <2>3, <2>4, <2>5, <2>6
<1>9. encodeVariablePart(DTOf(b).params) = Wire(nil, v)
  <2>1. DTParams(b) = parseVariablePart(v) /\ DTOf(b).params = DTParams(b).params
    BY <1>2, <1>3 DEF DTParams, DTOf
  <2> HIDE DEF v
  <2>2. scan(v).err = nil /\ parseVariablePart(v) = scan(v)
    <3>1. scan(v) \in Outcomes
      BY <1>8, ScanTypes
    <3>2. PICK r \in Outcomes : r = scan(v)
      BY <3>1
    <3>3. [r EXCEPT !.params = <<>>].err = r.err
      BY DEF Outcomes
    <3> QED BY <1>1, <2>1, <3>2, <3>3 DEF parseVariablePart
  <2> QED BY <1>8, <2>1, <2>2, EncodeScan
<1> DEFINE t == DTOf(b)
           nr == (IF t.nr = None THEN 0 ELSE (t.nr % 128)) + (IF t.eot THEN 128 ELSE 0)
           fixed == IF t.dst = None THEN <<240, nr>> ELSE <<240>> \o Octets(t.dst) \o <<nr>>
<1>10. Marshal(t) = assemble(fixed, encodeVariablePart(t.params), t.data) /\ t.data = userData(b)
  <2>1. t.type = "DT" /\ t.data = userData(b)
    BY DEF DTOf
  <2> HIDE DEF t
  <2> QED BY <2>1 DEF Marshal, MarshalDT
<1>11. PICK last \in Octet : last = b[1 + n] /\ last = c[1 + n]
  <2>1. 1 + n \in 1 .. Len(b) /\ 1 + n # 2
    BY <1>3, <1>4
  <2>2. b[1 + n] \in Octet
    BY <2>1
  <2> QED BY <1>6, <2>1, <2>2
<1>12. /\ t.nr = last % 128 /\ (t.eot <=> last >= 128)
       /\ t.dst = IF n = 2 THEN None ELSE Uint16(b, 3)
  BY <1>3, <1>11 DEF DTOf
<1> HIDE DEF t
<1>13. nr = last
  <2>1. (t.nr % 128) + (IF t.eot THEN 128 ELSE 0) = last
    BY <1>12, NrKept
  <2>2. PICK m \in 0 .. 127 : m = t.nr
    <3>1. last % 128 \in 0 .. 127
      BY SMT DEF Octet
    <3> QED BY <1>12, <3>1
  <2>3. m # None
    BY SMT DEF None
  <2> QED BY <2>1, <2>2, <2>3
<1> HIDE DEF nr
<1>14. fixed = SubSeq(c, 2, 1 + n)
  <2>1. CASE n = 2
    <3>1. t.dst = None
      BY <1>12, <2>1
    <3>2. 2 \in 1 .. Len(c) /\ 2 + 1 <= Len(c) /\ 2 + 1 = 3 /\ 1 + n = 3
      BY <1>3, <1>4, <1>6, <2>1
    <3>3. SubSeq(c, 2, 3) = <<240, last>>
      BY <1>6, <1>11, <3>2, PairOfOctets
    <3> QED BY <1>13, <3>1, <3>2, <3>3
  <2>2. CASE n = 4
    <3>1. /\ 2 \in 1 .. Len(c) /\ 3 \in 1 .. Len(b) /\ 3 + 1 <= Len(b) /\ 3 + 1 = 4
          /\ 5 \in 1 .. Len(c) /\ 5 <= len /\ 1 + n = 5 /\ 2 + 1 = 3 /\ 4 + 1 = 5
      BY <1>3, <1>4, <1>6, <2>2
    <3>2. t.dst = Uint16(b, 3) /\ t.dst # None
      <4>1. PICK x \in Octet, y \in Octet : x = b[3] /\ y = b[4]
        <5>1. b[3] \in Octet /\ b[4] \in Octet
          BY <3>1
        <5> QED BY <5>1
      <4>2. t.dst = 256 * x + y
        BY <1>12, <2>2, <4>1 DEF Uint16
      <4>3. t.dst # None
        BY <4>2 DEF None, Octet
      <4> QED BY <1>12, <2>2, <4>3
    <3>3. Octets(t.dst) = SubSeq(c, 3, 4)
      <4>1. Octets(t.dst) = SubSeq(b, 3, 4)
        BY <3>1, <3>2, Uint16Kept
      <4>2. PICK i \in Int, j \in Int : i = 3 /\ j = 4
        OBVIOUS
      <4>3. 3 <= i /\ i - 1 <= j /\ j <= len
        BY <3>1, <4>2
      <4> QED BY <1>7, <4>1, <4>2, <4>3
    <3>4. SubSeq(c, 2, 2) = <<240>> /\ SubSeq(c, 5, 5) = <<nr>>
      BY <1>6, <1>11, <1>13, <3>1, OneOctet
    <3>5. SubSeq(c, 2, 2) \o SubSeq(c, 3, 4) = SubSeq(c, 2, 4)
      <4>1. 1 <= 2 /\ 2 - 1 <= 2 /\ 2 <= 4 /\ 4 <= Len(c)
        BY <1>6, <3>1
      <4> QED BY <3>1, <4>1, Adjacent
    <3>6. SubSeq(c, 2, 4) \o SubSeq(c, 5, 5) = SubSeq(c, 2, 5)
      <4>1. 1 <= 2 /\ 2 - 1 <= 4 /\ 4 <= 5 /\ 5 <= Len(c)
        BY <1>6, <3>1
      <4> QED BY <3>1, <4>1, Adjacent
    <3>7. fixed = <<240>> \o Octets(t.dst) \o <<nr>>
      BY <3>2
    <3> QED BY <3>1, <3>3, <3>4, <3>5, <3>6, <3>7
  <2> QED BY <2>1, <2>2
<1> HIDE DEF fixed, v
<1>15. assemble(SubSeq(c, 2, 1 + n), Wire(nil, SubSeq(c, 2 + n, 1 + li)), SubSeq(c, 2 + li, len)) = Wire(nil, c)
  <2>1. n \in 1 .. 6 /\ li \in n .. 254 /\ Len(c) >= 1 + li /\ 1 \in 1 .. Len(b)
    BY <1>3, <1>4, <1>6
  <2>2. c[1] = li
    BY <1>2, <1>6, <2>1
  <2> QED BY <1>6, <2>1, <2>2, AssembleKept
<1> QED BY <1>1, <1>5, <1>8, <1>9, <1>10, <1>14, <1>15 DEF t

\* For all octets: a TPDU with a plain list of parameters that is decoded and
\* marshalled again comes out octet by octet as it went in, but for the ROA
\* bit of a DT and for octets beyond a header that has no user data.
THEOREM PlainHeadersAreKept == Spec => []PlainHeaderKept
<1>1. ExchangeInv => PlainHeaderKept
  <2> SUFFICES ASSUME ExchangeInv, forwarded.err = nil, got.tpdu.type \notin {"CR", "CC"}
               PROVE  PlainHeaderKept
    BY DEF PlainHeaderKept
  <2> DEFINE n(b) == HeaderLength(b)
             kept(b) == n(b) + (IF got.tpdu.type \in HasUserData THEN Len(b) - n(b) ELSE 0)
  <2>1. /\ got.err = nil /\ sent.err = nil /\ got = Decode(sent.octets) /\ sent.octets \in Seq(Octet)
        /\ forwarded = Marshal(got.tpdu)
    BY DEF ExchangeInv
  <2>2. PICK b \in Seq(Octet) : b = sent.octets
    BY <2>1
  <2>3. PICK t \in Types : got = DecodeAs(t, b) /\ got.tpdu.type = t /\ LooksLike(t, b)
    <3>1. PeekType(b).err = nil
      BY <2>1, <2>2 DEF Decode
    <3>2. PICK t \in Types : PeekType(b) = Ok([type |-> t])
      BY <3>1, PeekHasCode
    <3>3. PeekType(b).tpdu.type = t
      BY <3>2, FailOk
    <3>4. got = DecodeAs(t, b)
      BY <2>1, <2>2, <3>1, <3>3 DEF Decode
    <3> QED BY <2>1, <3>4, DecodeJudged DEF Judged
  <2>4. PICK m \in Nat, len \in Nat : m = HeaderLength(b) /\ len = Len(b) /\ m <= len /\ len >= 2
    <3>1. Len(b) \in Nat /\ Len(b) >= 2 /\ Len(b) >= HeaderLength(b)
      BY <2>3 DEF LooksLike, MinHeaderLength
    <3>2. PICK li \in Octet : li = b[1]
      BY <3>1
    <3>3. 1 + li \in Nat
      BY DEF Octet
    <3>4. HeaderLength(b) \in Nat
      BY <3>2, <3>3 DEF HeaderLength
    <3> QED BY <3>1, <3>4
  <2>5. \A e, o : Wire(e, o).octets = o
    BY DEF Wire
  <2>6. /\ Len(forwarded.octets) = kept(b)
        /\ \A i \in 1 .. kept(b) : forwarded.octets[i] = IF i = 2 /\ t = "DT" THEN 240 ELSE b[i]
    <3>1. CASE t = "DT"
      <4>1. forwarded.octets = [b EXCEPT ![2] = 240]
        BY <2>1, <2>3, <2>5, <3>1, DTKept DEF DecodeAs
      <4>2. kept(b) = len
        <5>1. t \in HasUserData
          BY <3>1 DEF HasUserData
        <5> QED BY <2>3, <2>4, <5>1
      <4> QED BY <2>4, <3>1, <4>1, <4>2
    <3>2. CASE t # "DT"
      <4>1. forwarded.octets = IF t \in HasUserData THEN b ELSE SubSeq(b, 1, m)
        BY <2>1, <2>3, <2>4, <2>5, <3>2, MarshalKept
      <4>2. CASE t \in HasUserData
        <5>1. kept(b) = len
          BY <2>3, <2>4, <4>2
        <5> QED BY <2>4, <3>2, <4>1, <4>2, <5>1
      <4>3. CASE t \notin HasUserData
        <5>1. kept(b) = m
          BY <2>3, <2>4, <4>3
        <5>2. Len(SubSeq(b, 1, m)) = m /\ \A i \in 1 .. m : SubSeq(b, 1, m)[i] = b[i]
          BY <2>4
        <5> QED BY <3>2, <4>1, <4>3, <5>1, <5>2
      <4> QED BY <4>2, <4>3
    <3> QED BY <3>1, <3>2
  <2> QED BY <2>2, <2>3, <2>6 DEF PlainHeaderKept
<1> QED BY <1>1, ExchangeInvariant, PTL

-----------------------------------------------------------------------------
(* Of repeated parameters the last counts                                  *)

\* A list without the known parameters is a list of parameters.
LEMMA KeepTypes ==
  ASSUME NEW kept \in ParameterList, NEW p \in Parameters
  PROVE  KeepUnknown(kept, p) \in ParameterList
  BY DEF KeepUnknown, ParameterList

\* The unknown parameters, one by one.
LEMMA KeepFold ==
  ASSUME NEW base \in ParameterList, NEW s \in Seq(Parameters)
  PROVE  \E f \in [0 .. Len(s) -> ParameterList] :
           /\ f[0] = base /\ \A k \in 1 .. Len(s) : f[k] = KeepUnknown(f[k - 1], s[k])
           /\ FoldLeft(KeepUnknown, base, s) = f[Len(s)]
<1> DEFINE D == 1 .. Len(s)
           Body(g) == [t \in SUBSET (DOMAIN s) |->
             IF t = {} THEN base ELSE KeepUnknown(g[t \ {Max(t)}], s[Max(t)])]
           iter == CHOOSE g : g = Body(g)
           h == [q \in ParameterList \X Parameters |-> KeepUnknown(q[1], q[2])]
<1>1. h \in [ParameterList \X Parameters -> ParameterList] /\ \A v \in ParameterList, p \in Parameters : h[<<v, p>>] = KeepUnknown(v, p)
  BY KeepTypes
<1>2. DOMAIN s = D /\ Len(s) \in Nat /\ \A i \in D : s[i] \in Parameters
  OBVIOUS
<1>3. PICK g \in [SUBSET D -> ParameterList] : \A t \in SUBSET D :
        g[t] = IF t = {} THEN base ELSE h[<<g[t \ {Max(t)}], s[Max(t)]>>]
  <2> HIDE DEF h
  <2>1. IsFold(ParameterList, Parameters, base, s, h)
    BY <1>1 DEF IsFold
  <2>2. HasSolution(ParameterList, base, s, h)
    BY <2>1, FoldSolution
  <2> QED BY <2>2 DEF HasSolution
<1>4. g = Body(g)
  <2>1. ASSUME NEW t \in SUBSET D, t # {}
        PROVE  g[t] = KeepUnknown(g[t \ {Max(t)}], s[Max(t)])
    <3>1. Max(t) \in t
      BY <1>2, <2>1, MaxExists
    <3>2. s[Max(t)] \in Parameters /\ g[t \ {Max(t)}] \in ParameterList
      BY <1>2, <3>1
    <3> HIDE DEF h
    <3> QED BY <1>1, <1>3, <2>1, <3>2
  <2> QED BY <1>2, <1>3, <2>1
<1>5. iter = Body(iter)
  <2> HIDE DEF Body
  <2> QED BY <1>4
<1> DEFINE f == [k \in 0 .. Len(s) |-> iter[1 .. k]]
<1>6. f[0] = base
  <2> HIDE DEF iter
  <2>1. iter[{}] = base
    BY <1>5
  <2> QED BY <1>2, <2>1
<1>7. ASSUME NEW k \in 1 .. Len(s) PROVE f[k] = KeepUnknown(f[k - 1], s[k])
  <2> HIDE DEF iter
  <2>1. /\ 1 .. k \in SUBSET (DOMAIN s) /\ 1 .. k # {} /\ (1 .. k) \ {k} = 1 .. k - 1
        /\ k \in 0 .. Len(s) /\ k - 1 \in 0 .. Len(s)
    BY <1>2
  <2>2. Max(1 .. k) = k
    BY <1>2, MaxOfRange
  <2>3. iter[1 .. k] = KeepUnknown(iter[(1 .. k) \ {k}], s[k])
    BY <1>5, <2>1, <2>2
  <2> QED BY <2>1, <2>3
<1>8. FoldLeft(KeepUnknown, base, s) = f[Len(s)]
  <2>1. FoldLeft(KeepUnknown, base, s) = iter[DOMAIN s]
    BY DEF FoldLeft, MapThenFoldSet
  <2> HIDE DEF iter
  <2> QED BY <1>2, <2>1
<1> HIDE DEF f
<1>9. \A k \in 0 .. Len(s) : f[k] \in ParameterList
  <2> DEFINE S == {k \in 0 .. Len(s) : f[k] \in ParameterList}
  <2>1. 0 \in S
    BY <1>2, <1>6
  <2>2. \A k \in 1 .. Len(s) : k - 1 \in S => k \in S
    BY <1>2, <1>7, KeepTypes
  <2> HIDE DEF S
  <2>3. \A k \in 0 .. Len(s) : k \in S
    BY <1>2, <2>1, <2>2, Induction
  <2> QED BY <2>3 DEF S
<1>10. f \in [0 .. Len(s) -> ParameterList]
  BY <1>9 DEF f
<1> QED BY <1>6, <1>7, <1>8, <1>10

\* Where a code is among the first k parameters, and its last value there.
At(s, code, k) == {i \in 1 .. k : s[i].code = code}
LastUpTo(s, code, k) == IF At(s, code, k) = {} THEN <<>> ELSE <<s[Max(At(s, code, k))].value>>
SizeOf(last) == IF last = <<>> THEN None ELSE last[1][1]
PrefOf(last) == IF last = <<>> THEN None ELSE BigEndian(last[1])

\* The last value up to a parameter is its own or the last one before it.
LEMMA LastStep ==
  ASSUME NEW s, NEW code, NEW k \in Nat \ {0}
  PROVE  LastUpTo(s, code, k) = IF s[k].code = code THEN <<s[k].value>> ELSE LastUpTo(s, code, k - 1)
<1>1. \A i \in 1 .. k : i \in 1 .. k - 1 \/ i = k
  OBVIOUS
<1>2. 1 .. k - 1 \subseteq 1 .. k /\ k \in 1 .. k /\ k \in Nat
  OBVIOUS
<1>3. CASE s[k].code = code
  <2>1. At(s, code, k) \in SUBSET (1 .. k) /\ k \in At(s, code, k)
    BY <1>2, <1>3 DEF At
  <2>2. Max(At(s, code, k)) = k
    BY <1>2, <2>1, MaxOfRange
  <2> QED BY <1>3, <2>1, <2>2 DEF LastUpTo
<1>4. CASE s[k].code # code
  <2>1. At(s, code, k) = At(s, code, k - 1)
    BY <1>1, <1>2, <1>4 DEF At
  <2> QED BY <1>4, <2>1 DEF LastUpTo
<1> QED BY <1>3, <1>4

\* What is found after a parameter that is not refused.
LEMMA ApplyStep ==
  ASSUME NEW r \in Found, NEW p \in Parameters, applyParameter(r, p).err = nil
  PROVE  LET n == applyParameter(r, p) IN
         /\ r.err = nil
         /\ n.calling = IF p.code = ParamCallingSelector THEN <<p.value>> ELSE r.calling
         /\ n.called = IF p.code = ParamCalledSelector THEN <<p.value>> ELSE r.called
         /\ n.size = IF p.code = ParamTPDUSize THEN p.value[1] ELSE r.size
         /\ n.pref = IF p.code = ParamPreferredMaxTPDUSize THEN BigEndian(p.value) ELSE r.pref
         /\ n.params = KeepUnknown(r.params, p)
         /\ p.code = ParamTPDUSize => Len(p.value) = 1
         /\ p.code = ParamPreferredMaxTPDUSize => Len(p.value) \in 1 .. 4 /\ decodePreferredMaxUnits(p.value) # None
<1>1. r.err = nil
  BY DEF applyParameter
<1>2. ParamTPDUSize # ParamCallingSelector /\ ParamTPDUSize # ParamCalledSelector
      /\ ParamTPDUSize # ParamPreferredMaxTPDUSize /\ ParamCallingSelector # ParamCalledSelector
      /\ ParamCallingSelector # ParamPreferredMaxTPDUSize /\ ParamCalledSelector # ParamPreferredMaxTPDUSize
  BY DEF ParamTPDUSize, ParamCallingSelector, ParamCalledSelector, ParamPreferredMaxTPDUSize
<1>3. CASE p.code = ParamCallingSelector
  <2>1. applyParameter(r, p) = [r EXCEPT !.calling = <<p.value>>]
    BY <1>1, <1>2, <1>3 DEF applyParameter
  <2> QED BY <1>1, <1>2, <1>3, <2>1 DEF Found, KeepUnknown, KnownParams
<1>4. CASE p.code = ParamCalledSelector
  <2>1. applyParameter(r, p) = [r EXCEPT !.called = <<p.value>>]
    BY <1>1, <1>2, <1>4 DEF applyParameter
  <2> QED BY <1>1, <1>2, <1>4, <2>1 DEF Found, KeepUnknown, KnownParams
<1>5. CASE p.code = ParamTPDUSize
  <2>1. applyParameter(r, p) = IF Len(p.value) # 1 THEN [r EXCEPT !.err = "ErrUnexpectedParameterLength"]
                               ELSE [r EXCEPT !.size = p.value[1]]
    BY <1>1, <1>2, <1>5 DEF applyParameter
  <2>2. [r EXCEPT !.err = "ErrUnexpectedParameterLength"].err # nil
    BY DEF Found, nil
  <2>3. Len(p.value) = 1 /\ applyParameter(r, p) = [r EXCEPT !.size = p.value[1]]
    BY <2>1, <2>2
  <2> QED BY <1>1, <1>2, <1>5, <2>3 DEF Found, KeepUnknown, KnownParams
<1>6. CASE p.code = ParamPreferredMaxTPDUSize
  <2>1. PICK d : d = decodePreferredMaxUnits(p.value)
    OBVIOUS
  <2>2. applyParameter(r, p) = IF d = None THEN [r EXCEPT !.err = "ErrUnexpectedParameterLength"]
                               ELSE [r EXCEPT !.pref = d]
    BY <1>1, <1>2, <1>6, <2>1 DEF applyParameter
  <2>3. [r EXCEPT !.err = "ErrUnexpectedParameterLength"].err # nil
    BY DEF Found, nil
  <2>4. d # None /\ applyParameter(r, p) = [r EXCEPT !.pref = d]
    BY <2>2, <2>3
  <2>5. d = BigEndian(p.value) /\ Len(p.value) \in 1 .. 4
    BY <2>1, <2>4 DEF decodePreferredMaxUnits
  <2> QED BY <1>1, <1>2, <1>6, <2>1, <2>4, <2>5 DEF Found, KeepUnknown, KnownParams
<1>7. CASE p.code \notin KnownParams
  <2>1. /\ p.code # ParamTPDUSize /\ p.code # ParamCallingSelector
        /\ p.code # ParamCalledSelector /\ p.code # ParamPreferredMaxTPDUSize
    BY <1>7 DEF KnownParams
  <2>2. applyParameter(r, p) = [r EXCEPT !.params = Append(@, p)]
    BY <1>1, <2>1 DEF applyParameter
  <2> QED BY <1>1, <1>7, <2>1, <2>2 DEF Found, KeepUnknown
<1> QED BY <1>3, <1>4, <1>5, <1>6, <1>7 DEF KnownParams

\* What is found in a whole list.
LEMMA ApplyAll ==
  ASSUME NEW s \in Seq(Parameters), FoldLeft(applyParameter, NoCRCC, s).err = nil
  PROVE  LET r == FoldLeft(applyParameter, NoCRCC, s) IN
         /\ r.calling = LastUpTo(s, ParamCallingSelector, Len(s))
         /\ r.called = LastUpTo(s, ParamCalledSelector, Len(s))
         /\ r.size = SizeOf(LastUpTo(s, ParamTPDUSize, Len(s)))
         /\ r.pref = PrefOf(LastUpTo(s, ParamPreferredMaxTPDUSize, Len(s)))
         /\ r.params = Unknown(s)
         /\ \A i \in 1 .. Len(s) :
              /\ s[i].code = ParamTPDUSize => Len(s[i].value) = 1
              /\ s[i].code = ParamPreferredMaxTPDUSize => Len(s[i].value) \in 1 .. 4
<1>1. NoCRCC \in Found
  BY DEF NoCRCC, Found, Absent
<1>2. PICK f \in [0 .. Len(s) -> Found] :
        /\ f[0] = NoCRCC /\ \A k \in 1 .. Len(s) : f[k] = applyParameter(f[k - 1], s[k])
        /\ FoldLeft(applyParameter, NoCRCC, s) = f[Len(s)]
  BY <1>1, ApplyFold
<1>3. PICK none \in ParameterList : none = <<>>
  BY DEF ParameterList
<1>4. PICK u \in [0 .. Len(s) -> ParameterList] :
        /\ u[0] = none /\ \A k \in 1 .. Len(s) : u[k] = KeepUnknown(u[k - 1], s[k])
        /\ FoldLeft(KeepUnknown, none, s) = u[Len(s)]
  BY KeepFold
<1>5. PICK len \in Nat : len = Len(s)
  OBVIOUS
<1> DEFINE Fits(i) == /\ s[i].code = ParamTPDUSize => Len(s[i].value) = 1
                      /\ s[i].code = ParamPreferredMaxTPDUSize => Len(s[i].value) \in 1 .. 4
           Fields(k) == /\ f[k].calling = LastUpTo(s, ParamCallingSelector, k)
                        /\ f[k].called = LastUpTo(s, ParamCalledSelector, k)
                        /\ f[k].size = SizeOf(LastUpTo(s, ParamTPDUSize, k))
                        /\ f[k].pref = PrefOf(LastUpTo(s, ParamPreferredMaxTPDUSize, k))
                        /\ f[k].params = u[k]
           S == {k \in 0 .. len : f[k].err = nil => Fields(k) /\ \A i \in 1 .. k : Fits(i)}
<1>6. 0 \in S
  <2>1. \A code : LastUpTo(s, code, 0) = <<>>
    BY DEF LastUpTo, At
  <2>2. SizeOf(<<>>) = None /\ PrefOf(<<>>) = None
    BY DEF SizeOf, PrefOf
  <2>3. /\ NoCRCC.calling = <<>> /\ NoCRCC.called = <<>> /\ NoCRCC.size = None
        /\ NoCRCC.pref = None /\ NoCRCC.params = <<>>
    BY DEF NoCRCC, Absent
  <2>4. Fields(0)
    BY <1>2, <1>3, <1>4, <2>1, <2>2, <2>3
  <2>5. 0 \in 0 .. len /\ 1 .. 0 = {}
    OBVIOUS
  <2> HIDE DEF Fields, Fits
  <2> QED BY <2>4, <2>5
<1>7. ASSUME NEW k \in 1 .. len, k - 1 \in S PROVE k \in S
  <2> SUFFICES ASSUME f[k].err = nil PROVE Fields(k) /\ \A i \in 1 .. k : Fits(i)
    OBVIOUS
  <2>1. k - 1 \in 0 .. Len(s) /\ k \in 1 .. Len(s) /\ k \in Nat \ {0}
    BY <1>5
  <2>2. f[k - 1] \in Found /\ s[k] \in Parameters /\ f[k] = applyParameter(f[k - 1], s[k])
    BY <1>2, <2>1
  <2>3. PICK r \in Found, p \in Parameters : r = f[k - 1] /\ p = s[k]
    BY <2>2
  <2>4. f[k] = applyParameter(r, p) /\ applyParameter(r, p).err = nil
    BY <2>2, <2>3
  <2>5. /\ r.err = nil
        /\ f[k].calling = IF p.code = ParamCallingSelector THEN <<p.value>> ELSE r.calling
        /\ f[k].called = IF p.code = ParamCalledSelector THEN <<p.value>> ELSE r.called
        /\ f[k].size = IF p.code = ParamTPDUSize THEN p.value[1] ELSE r.size
        /\ f[k].pref = IF p.code = ParamPreferredMaxTPDUSize THEN BigEndian(p.value) ELSE r.pref
        /\ f[k].params = KeepUnknown(r.params, p)
        /\ p.code = ParamTPDUSize => Len(p.value) = 1
        /\ p.code = ParamPreferredMaxTPDUSize => Len(p.value) \in 1 .. 4
    BY <2>4, ApplyStep
  <2>6. Fields(k - 1) /\ \A i \in 1 .. k - 1 : Fits(i)
    <3> HIDE DEF Fields, Fits
    <3> QED BY <1>7, <2>3, <2>5
  <2>7. \A code : LastUpTo(s, code, k) = IF p.code = code THEN <<p.value>> ELSE LastUpTo(s, code, k - 1)
    BY <2>1, <2>3, LastStep
  <2>8. \A v : SizeOf(<<v>>) = v[1] /\ PrefOf(<<v>>) = BigEndian(v)
    BY DEF SizeOf, PrefOf
  <2>9. u[k] = KeepUnknown(u[k - 1], p)
    BY <1>4, <2>1, <2>3
  <2>10. Fields(k)
    <3>1. f[k].calling = LastUpTo(s, ParamCallingSelector, k)
      BY <2>3, <2>5, <2>6, <2>7
    <3>2. f[k].called = LastUpTo(s, ParamCalledSelector, k)
      BY <2>3, <2>5, <2>6, <2>7
    <3>3. f[k].size = SizeOf(LastUpTo(s, ParamTPDUSize, k))
      BY <2>3, <2>5, <2>6, <2>7, <2>8
    <3>4. f[k].pref = PrefOf(LastUpTo(s, ParamPreferredMaxTPDUSize, k))
      BY <2>3, <2>5, <2>6, <2>7, <2>8
    <3>5. f[k].params = u[k]
      BY <2>3, <2>5, <2>6, <2>9
    <3> QED BY <3>1, <3>2, <3>3, <3>4, <3>5
  <2>11. Fits(k)
    BY <2>3, <2>5
  <2>12. \A i \in 1 .. k : i \in 1 .. k - 1 \/ i = k
    OBVIOUS
  <2> HIDE DEF Fields, Fits
  <2> QED BY <2>6, <2>10, <2>11, <2>12
<1>8. len \in S
  <2>1. len \in 0 .. len
    OBVIOUS
  <2> HIDE DEF S
  <2> QED BY <1>6, <1>7, <2>1, Induction
<1>9. Unknown(s) = u[Len(s)]
  BY <1>3, <1>4 DEF Unknown
<1> QED BY <1>2, <1>5, <1>8, <1>9

\* What decodeCRCC returns, in terms of the list on the wire.
LEMMA CRCCFields ==
  ASSUME NEW type \in {"CR", "CC"}, NEW b \in Seq(Octet), decodeCRCC(type, b).err = nil
  PROVE  LET t == decodeCRCC(type, b).tpdu
             s == parseVariablePart(variablePart(type, b)).params
         IN /\ s \in Seq(Parameters) /\ FoldLeft(applyParameter, NoCRCC, s).err = nil
            /\ t.calling = LastUpTo(s, ParamCallingSelector, Len(s))
            /\ t.called = LastUpTo(s, ParamCalledSelector, Len(s))
            /\ t.size = SizeOf(LastUpTo(s, ParamTPDUSize, Len(s)))
            /\ t.pref = PrefOf(LastUpTo(s, ParamPreferredMaxTPDUSize, Len(s)))
            /\ t.params = Unknown(s)
            /\ \A i \in 1 .. Len(s) :
                 /\ s[i].code = ParamTPDUSize => Len(s[i].value) = 1
                 /\ s[i].code = ParamPreferredMaxTPDUSize => Len(s[i].value) \in 1 .. 4
<1> DEFINE v == variablePart(type, b)
           r == parseCRCCVariablePart(v)
           t == [fixedFields(type, b) EXCEPT !.calling = r.calling, !.called = r.called,
                   !.size = r.size, !.pref = r.pref, !.params = r.params]
<1>1. type \in Types /\ type # "DT"
  BY TypeTable
<1>2. decodeCRCC(type, b) = IF headerError(type, b) # nil THEN Fail(headerError(type, b))
                            ELSE IF r.err # nil THEN Fail(r.err) ELSE Ok(t)
  BY DEF decodeCRCC
<1>3. /\ t.calling = r.calling /\ t.called = r.called /\ t.size = r.size /\ t.pref = r.pref
      /\ t.params = r.params
  BY DEF fixedFields
<1> HIDE DEF r, t
<1>4. headerError(type, b) = nil /\ r.err = nil /\ decodeCRCC(type, b).tpdu = t
  BY <1>2, FailOk
<1>5. v \in Seq(Octet)
  BY <1>1, <1>4, VariableTypes
<1> HIDE DEF v
<1>6. PICK s \in Seq(Parameters) : s = parseVariablePart(v).params
  BY <1>5, ParseTypes DEF Outcomes
<1>7. FoldLeft(applyParameter, NoCRCC, s).err = nil /\ r = FoldLeft(applyParameter, NoCRCC, s)
  BY <1>4, <1>5, <1>6, ParseCRCC DEF r
<1>8. /\ r.calling = LastUpTo(s, ParamCallingSelector, Len(s))
      /\ r.called = LastUpTo(s, ParamCalledSelector, Len(s))
      /\ r.size = SizeOf(LastUpTo(s, ParamTPDUSize, Len(s)))
      /\ r.pref = PrefOf(LastUpTo(s, ParamPreferredMaxTPDUSize, Len(s)))
      /\ r.params = Unknown(s)
      /\ \A i \in 1 .. Len(s) :
           /\ s[i].code = ParamTPDUSize => Len(s[i].value) = 1
           /\ s[i].code = ParamPreferredMaxTPDUSize => Len(s[i].value) \in 1 .. 4
  BY <1>7, ApplyAll
<1>9. s = parseVariablePart(variablePart(type, b)).params
  BY <1>6 DEF v
<1> QED BY <1>3, <1>4, <1>7, <1>8, <1>9

\* What was got, and from what: the DecodeXX of its type made it.
LEMMA GotDecoded ==
  ASSUME ExchangeInv, got.err = nil
  PROVE  /\ sent.err = nil /\ sent.octets \in Seq(Octet) /\ got.tpdu.type \in Types
         /\ got = DecodeAs(got.tpdu.type, sent.octets) /\ LooksLike(got.tpdu.type, sent.octets)
         /\ got.tpdu.type \in {"CR", "CC"} => got = decodeCRCC(got.tpdu.type, sent.octets)
         /\ got.tpdu.type = "CR" => Len(sent.octets) <= 128
<1>1. sent.err = nil /\ got = Decode(sent.octets) /\ sent.octets \in Seq(Octet)
  BY DEF ExchangeInv
<1>2. PICK b \in Seq(Octet) : b = sent.octets
  BY <1>1
<1>3. PICK t \in Types : got = DecodeAs(t, b) /\ got.tpdu.type = t /\ LooksLike(t, b)
  <2>1. PeekType(b).err = nil
    BY <1>1, <1>2 DEF Decode
  <2>2. PICK t \in Types : PeekType(b) = Ok([type |-> t])
    BY <2>1, PeekHasCode
  <2>3. PeekType(b).tpdu.type = t
    BY <2>2, FailOk
  <2>4. got = DecodeAs(t, b)
    BY <1>1, <1>2, <2>1, <2>3 DEF Decode
  <2> QED BY <2>4, DecodeJudged DEF Judged
<1>4. t = "CC" => got = decodeCRCC(t, b)
  BY <1>3 DEF DecodeAs, DecodeCC
<1>5. t = "CR" => got = decodeCRCC(t, b) /\ Len(b) <= 128
  <2> SUFFICES ASSUME t = "CR" PROVE got = decodeCRCC(t, b) /\ Len(b) <= 128
    OBVIOUS
  <2>1. got = DecodeCR(b)
    BY <1>3 DEF DecodeAs
  <2>2. got # Fail("ErrTooShort") /\ got # Fail("ErrLengthMismatch")
    BY FailOk DEF nil
  <2>3. DecodeCR(b) \in {Fail("ErrTooShort"), Fail("ErrLengthMismatch"), decodeCRCC("CR", b)}
    BY DEF DecodeCR
  <2>4. ~(Len(b) > MaxCRTPDULength)
    BY <2>1, <2>2 DEF DecodeCR
  <2>5. PICK len \in Nat : len = Len(b)
    OBVIOUS
  <2>6. len <= 128
    BY <2>4, <2>5 DEF MaxCRTPDULength
  <2> QED BY <2>1, <2>2, <2>3, <2>5, <2>6
<1> QED BY <1>1, <1>2, <1>3, <1>4, <1>5

\* For any number of parameters in any order: of a repeated parameter of a CR
\* or CC the last value counts, unknown ones are all kept in their order, and a
\* list with a value of illegal length is refused.
THEOREM LastValuesWin == Spec => []LastValueWins
<1>1. ExchangeInv => LastValueWins
  <2> SUFFICES ASSUME ExchangeInv, Decoded, got.tpdu.type \in {"CR", "CC"} PROVE LastValueWins
    BY DEF LastValueWins
  <2> DEFINE t == got.tpdu
             params == parseVariablePart(variablePart(t.type, sent.octets)).params
             at(code) == {i \in DOMAIN params : params[i].code = code}
             last(code) == IF at(code) = {} THEN <<>> ELSE <<params[Max(at(code))].value>>
  <2>1. got.err = nil
    BY DEF Decoded
  <2>2. /\ sent.octets \in Seq(Octet) /\ decodeCRCC(t.type, sent.octets).err = nil
        /\ t = decodeCRCC(t.type, sent.octets).tpdu
    BY <2>1, GotDecoded
  <2> HIDE DEF t
  <2>3. /\ params \in Seq(Parameters)
        /\ t.calling = LastUpTo(params, ParamCallingSelector, Len(params))
        /\ t.called = LastUpTo(params, ParamCalledSelector, Len(params))
        /\ t.size = SizeOf(LastUpTo(params, ParamTPDUSize, Len(params)))
        /\ t.pref = PrefOf(LastUpTo(params, ParamPreferredMaxTPDUSize, Len(params)))
        /\ t.params = Unknown(params)
        /\ \A i \in 1 .. Len(params) :
             /\ params[i].code = ParamTPDUSize => Len(params[i].value) = 1
             /\ params[i].code = ParamPreferredMaxTPDUSize => Len(params[i].value) \in 1 .. 4
    <3>1. t.type \in {"CR", "CC"}
      BY DEF t
    <3>2. PICK type \in {"CR", "CC"}, b \in Seq(Octet) : type = t.type /\ b = sent.octets
      BY <2>2, <3>1
    <3> QED BY <2>2, <3>2, CRCCFields
  <2> HIDE DEF params
  <2>4. DOMAIN params = 1 .. Len(params)
    BY <2>3
  <2>5. \A code : last(code) = LastUpTo(params, code, Len(params))
    BY <2>4 DEF LastUpTo, At
  <2>6. \A code : SizeOf(last(code)) = IF last(code) = <<>> THEN None ELSE last(code)[1][1]
    BY DEF SizeOf
  <2>7. \A code : PrefOf(last(code)) = IF last(code) = <<>> THEN None ELSE BigEndian(last(code)[1])
    BY DEF PrefOf
  <2> HIDE DEF last
  <2>8. /\ t.calling = last(ParamCallingSelector)
        /\ t.called = last(ParamCalledSelector)
        /\ t.size = (IF last(ParamTPDUSize) = <<>> THEN None ELSE last(ParamTPDUSize)[1][1])
        /\ t.pref = (IF last(ParamPreferredMaxTPDUSize) = <<>> THEN None
                     ELSE BigEndian(last(ParamPreferredMaxTPDUSize)[1]))
        /\ t.params = Unknown(params)
        /\ \A i \in DOMAIN params :
             /\ params[i].code = ParamTPDUSize => Len(params[i].value) = 1
             /\ params[i].code = ParamPreferredMaxTPDUSize => Len(params[i].value) \in 1 .. 4
    BY <2>3, <2>4, <2>5, <2>6, <2>7
  <2> QED BY <2>8, Zenon DEF LastValueWins, last, at, params, t
<1> QED BY <1>1, ExchangeInvariant, PTL

-----------------------------------------------------------------------------
(* Parsing undoes encoding                                                 *)

\* A piece of the second of two sequences is found further on in the whole.
LEMMA ShiftedPiece ==
  ASSUME NEW u \in Seq(Octet), NEW w \in Seq(Octet), NEW i \in Int, NEW j \in Int,
         1 <= i, i - 1 <= j, j <= Len(w)
  PROVE  SubSeq(u \o w, Len(u) + i, Len(u) + j) = SubSeq(w, i, j)
<1>1. PICK n \in Nat, m \in Nat : n = Len(u) /\ m = Len(w)
  OBVIOUS
<1>2. PICK v \in Seq(Octet) : v = u \o w
  <2>1. u \o w \in Seq(Octet)
    OBVIOUS
  <2> QED BY <2>1
<1>3. Len(v) = n + m /\ \A k \in 1 .. m : v[n + k] = w[k]
  BY <1>1, <1>2
<1> DEFINE x == SubSeq(v, n + i, n + j)
           y == SubSeq(w, i, j)
<1>4. x \in Seq(Octet) /\ Len(x) = j - i + 1 /\ \A k \in 1 .. j - i + 1 : x[k] = v[n + i + k - 1]
  BY <1>1, <1>3
<1>5. y \in Seq(Octet) /\ Len(y) = j - i + 1 /\ \A k \in 1 .. j - i + 1 : y[k] = w[i + k - 1]
  BY <1>1
<1>6. \A k \in 1 .. j - i + 1 : i + k - 1 \in 1 .. m /\ n + i + k - 1 = n + (i + k - 1)
  BY <1>1
<1> HIDE DEF x, y
<1>7. \A k \in 1 .. j - i + 1 : x[k] = y[k]
  BY <1>3, <1>4, <1>5, <1>6
<1>8. x = y
  BY <1>4, <1>5, <1>7, SeqEqual
<1> QED BY <1>1, <1>2, <1>8 DEF x, y

\* The same outcomes, n positions further on; and all of the turns of a loop.
SameFrom(f, n, g, lo, hi) == \A i \in lo .. hi : f[n + i] = g[i]
IsJoin(v, u, w) == v = u \o w
AllTurns(v, f) == \A pos \in 1 .. Len(v) + 1 : f[pos] = Turn(v, f, pos)

\* A turn of the loop does not see what is before its position.
LEMMA TurnShift ==
  ASSUME NEW u \in Seq(Octet), NEW w \in Seq(Octet), NEW v \in Seq(Octet), IsJoin(v, u, w),
         NEW f, NEW g, NEW pos \in 1 .. Len(w) + 1,
         SameFrom(f, Len(u), g, pos + 1, Len(w) + 1)
  PROVE  Turn(v, f, Len(u) + pos) = Turn(w, g, pos)
<1>1. PICK n \in Nat, m \in Nat : n = Len(u) /\ m = Len(w)
  OBVIOUS
<1>2. Len(v) = n + m /\ \A k \in 1 .. m : v[n + k] = w[k] /\ w[k] \in Octet
  BY <1>1 DEF IsJoin
<1>3. CASE pos > m
  BY <1>1, <1>2, <1>3 DEF Turn
<1>4. CASE ~(pos > m) /\ pos + 1 > m
  <2>1. Overruns(w, pos) /\ Overruns(v, n + pos) /\ ~(n + pos > Len(v))
    BY <1>1, <1>2, <1>4 DEF Overruns
  <2> QED BY <1>1, <1>4, <2>1 DEF Turn
<1>5. CASE ~(pos + 1 > m)
  <2>1. pos \in 1 .. m /\ pos + 1 \in 1 .. m /\ ~(pos > m) /\ ~(n + pos > n + m)
    BY <1>1, <1>5
  <2>2. PICK len \in Octet : len = w[pos + 1]
    BY <1>2, <2>1
  <2>3. v[(n + pos) + 1] = len /\ v[n + pos] = w[pos]
    <3>1. (n + pos) + 1 = n + (pos + 1)
      BY <2>1
    <3> QED BY <1>2, <2>1, <2>2, <3>1
  <2>4. PICK next \in Int : next = pos + 2 + len /\ next = NextPos(w, pos) /\ n + next = NextPos(v, n + pos) /\ next >= pos + 2
    <3>1. len \in Nat
      BY DEF Octet
    <3>2. pos + 2 + len \in Int /\ n + (pos + 2 + len) = (n + pos) + 2 + len /\ pos + 2 + len >= pos + 2
      BY <2>1, <3>1
    <3> QED BY <2>2, <2>3, <3>2 DEF NextPos
  <2>5. Overruns(w, pos) <=> next > m + 1
    BY <1>1, <1>5, <2>4 DEF Overruns
  <2>6. Overruns(v, n + pos) <=> next > m + 1
    <3>1. ~((n + pos) + 1 > n + m) /\ (n + next > (n + m) + 1 <=> next > m + 1)
      BY <2>1
    <3> QED BY <1>2, <2>4, <3>1 DEF Overruns
  <2>7. CASE next > m + 1
    BY <1>1, <1>2, <2>1, <2>5, <2>6, <2>7 DEF Turn
  <2>8. CASE ~(next > m + 1)
    <3>1. f[n + next] = g[next]
      <4>1. next \in pos + 1 .. m + 1
        BY <2>1, <2>4, <2>8
      <4> QED BY <1>1, <4>1 DEF SameFrom
    <3>2. SubSeq(v, n + (pos + 2), n + (next - 1)) = SubSeq(w, pos + 2, next - 1)
      <4>1. 1 <= pos + 2 /\ (pos + 2) - 1 <= next - 1 /\ next - 1 <= Len(w) /\ pos + 2 \in Int /\ next - 1 \in Int
        BY <1>1, <2>1, <2>4, <2>8
      <4> QED BY <1>1, <4>1, ShiftedPiece DEF IsJoin
    <3>3. n + (pos + 2) = (n + pos) + 2 /\ n + (next - 1) = (n + next) - 1
      BY <2>1
    <3>4. ParamAt(v, n + pos) = ParamAt(w, pos)
      BY <2>3, <2>4, <3>2, <3>3 DEF ParamAt
    <3> QED BY <1>1, <1>2, <2>1, <2>4, <2>5, <2>6, <2>8, <3>1, <3>4 DEF Turn
  <2> QED BY <2>7, <2>8
<1> QED BY <1>3, <1>4, <1>5

\* What scan finds from a position on depends on what is there alone.
LEMMA ScanShift ==
  ASSUME NEW u \in Seq(Octet), NEW w \in Seq(Octet), NEW v \in Seq(Octet), IsJoin(v, u, w),
         NEW f, AllTurns(v, f)
  PROVE  f[Len(u) + 1] = scan(w)
<1>1. PICK g \in [1 .. Len(w) + 1 -> Outcomes] :
        scan(w) = g[1] /\ \A pos \in 1 .. Len(w) + 1 : g[pos] = Turn(w, g, pos)
  BY ScanTurns
<1>2. PICK n \in Nat, m \in Nat : n = Len(u) /\ m = Len(w) /\ Len(v) = n + m
  BY DEF IsJoin
<1> DEFINE S == {k \in 0 .. m : \A pos \in (m + 1) - k .. m + 1 : f[n + pos] = g[pos]}
<1>3. ASSUME NEW pos \in 1 .. m + 1, \A i \in pos + 1 .. m + 1 : f[n + i] = g[i]
      PROVE  f[n + pos] = g[pos]
  <2>1. n + pos \in 1 .. Len(v) + 1
    BY <1>2
  <2>2. Turn(v, f, n + pos) = Turn(w, g, pos)
    <3>1. pos \in 1 .. Len(w) + 1 /\ SameFrom(f, Len(u), g, pos + 1, Len(w) + 1)
      BY <1>2, <1>3 DEF SameFrom
    <3>2. Turn(v, f, Len(u) + pos) = Turn(w, g, pos)
      BY <3>1, TurnShift
    <3> QED BY <1>2, <3>2
  <2> QED BY <1>1, <1>2, <2>1, <2>2 DEF AllTurns
<1>4. 0 \in S
  <2>1. m + 1 \in 1 .. m + 1 /\ \A i \in (m + 1) + 1 .. m + 1 : FALSE
    OBVIOUS
  <2>2. f[n + (m + 1)] = g[m + 1]
    BY <1>3, <2>1
  <2>3. 0 \in 0 .. m /\ \A pos \in (m + 1) - 0 .. m + 1 : pos = m + 1
    OBVIOUS
  <2> QED BY <2>2, <2>3
<1>5. ASSUME NEW k \in 1 .. m, k - 1 \in S PROVE k \in S
  <2>1. PICK pos \in 1 .. m : pos = (m + 1) - k /\ pos + 1 = (m + 1) - (k - 1)
    OBVIOUS
  <2>2. \A i \in pos + 1 .. m + 1 : f[n + i] = g[i]
    BY <1>5, <2>1
  <2>3. f[n + pos] = g[pos]
    <3>1. pos \in 1 .. m + 1
      OBVIOUS
    <3> QED BY <1>3, <2>2, <3>1
  <2>4. \A i \in pos .. m + 1 : i = pos \/ i \in pos + 1 .. m + 1
    OBVIOUS
  <2>5. k \in 0 .. m
    OBVIOUS
  <2> QED BY <2>1, <2>2, <2>3, <2>4, <2>5
<1>6. m \in S
  <2>1. m \in 0 .. m
    OBVIOUS
  <2> HIDE DEF S
  <2> QED BY <1>4, <1>5, <2>1, Induction
<1>7. f[n + 1] = g[1]
  <2>1. 1 \in (m + 1) - m .. m + 1
    OBVIOUS
  <2> QED BY <1>6, <2>1
<1> QED BY <1>1, <1>2, <1>7

\* The octets of a parameter, one by one.
LEMMA CodedOctets ==
  ASSUME NEW p \in Parameters, ~(Len(p.value) > 255)
  PROVE  /\ Coded(p) \in Seq(Octet) /\ Len(Coded(p)) = 2 + Len(p.value)
         /\ Coded(p)[1] = p.code /\ Coded(p)[2] = Len(p.value)
         /\ SubSeq(Coded(p), 3, 2 + Len(p.value)) = p.value
<1>1. p.code \in Octet /\ p.value \in Seq(Octet)
  BY DEF Parameters, OctetString
<1>2. PICK len \in Nat : len = Len(p.value) /\ ~(len > 255)
  BY <1>1
<1>3. len \in Octet
  <2>1. \A k \in Nat : ~(k > 255) => k \in Octet
    BY DEF Octet
  <2> QED BY <1>2, <2>1
<1>4. PICK c \in Octet, l \in Octet, val \in Seq(Octet) : c = p.code /\ l = len /\ val = p.value
  BY <1>1, <1>3
<1>5. PICK h \in Seq(Octet) : h = <<c, l>>
  <2>1. <<c, l>> \in Seq(Octet)
    OBVIOUS
  <2> QED BY <2>1
<1>6. Len(h) = 2 /\ h[1] = c /\ h[2] = l
  BY <1>5
<1>7. Coded(p) = h \o val
  BY <1>2, <1>4, <1>5 DEF Coded
<1>8. h \o val \in Seq(Octet) /\ Len(h \o val) = 2 + len /\ (h \o val)[1] = c /\ (h \o val)[2] = l
  <2>1. h \o val \in Seq(Octet) /\ Len(h \o val) = Len(h) + Len(val)
    OBVIOUS
  <2>2. \A i \in 1 .. Len(h) : (h \o val)[i] = h[i]
    OBVIOUS
  <2>3. 1 \in 1 .. Len(h) /\ 2 \in 1 .. Len(h)
    BY <1>6
  <2> QED BY <1>2, <1>4, <1>6, <2>1, <2>2, <2>3
<1>9. SubSeq(h \o val, Len(h) + 1, Len(h) + len) = SubSeq(val, 1, len)
  <2>1. 1 <= 1 /\ 1 - 1 <= len /\ len <= Len(val)
    BY <1>2, <1>4
  <2> QED BY <2>1, ShiftedPiece
<1>10. SubSeq(val, 1, len) = val
  BY <1>2, <1>4, SubSeqFull
<1> QED BY <1>2, <1>4, <1>6, <1>7, <1>8, <1>9, <1>10

\* The parser takes off what the encoder put in front.
LEMMA ScanCons ==
  ASSUME NEW p \in Parameters, ~(Len(p.value) > 255), NEW w \in Seq(Octet), scan(w).err = nil
  PROVE  scan(Coded(p) \o w) = [err |-> nil, params |-> <<p>> \o scan(w).params]
<1>1. PICK len \in Nat : len = Len(p.value) /\ ~(len > 255)
  <2>1. p.value \in Seq(Octet)
    BY DEF Parameters, OctetString
  <2> QED BY <2>1
<1>2. PICK u \in Seq(Octet) : u = Coded(p)
  BY CodedOctets
<1>3. /\ Len(u) = 2 + len /\ u[1] = p.code /\ u[2] = len /\ SubSeq(u, 3, 2 + len) = p.value
  BY <1>1, <1>2, CodedOctets
<1>4. PICK v \in Seq(Octet) : v = u \o w
  <2>1. u \o w \in Seq(Octet)
    OBVIOUS
  <2> QED BY <2>1
<1>5. PICK m \in Nat : m = Len(w) /\ Len(v) = 2 + len + m
  <2>1. Len(v) = Len(u) + Len(w) /\ Len(w) \in Nat
    BY <1>4
  <2> QED BY <1>3, <2>1
<1>6. v[1] = p.code /\ v[2] = len
  BY <1>3, <1>4
<1>7. SubSeq(v, 3, 2 + len) = p.value
  <2>1. PICK lim \in Nat : lim = 2 + len
    OBVIOUS
  <2> DEFINE x == SubSeq(v, 3, lim)
             y == SubSeq(u, 3, lim)
  <2>2. x \in Seq(Octet) /\ Len(x) = len /\ \A k \in 1 .. len : x[k] = v[k + 2]
    BY <1>5, <2>1
  <2>3. y \in Seq(Octet) /\ Len(y) = len /\ \A k \in 1 .. len : y[k] = u[k + 2]
    BY <1>3, <2>1
  <2>4. \A k \in 1 .. len : v[k + 2] = u[k + 2]
    BY <1>3, <1>4
  <2> HIDE DEF x, y
  <2>5. x = y
    BY <2>2, <2>3, <2>4, SeqEqual
  <2> QED BY <1>3, <2>1, <2>5 DEF x, y
<1>8. PICK f \in [1 .. Len(v) + 1 -> Outcomes] :
        scan(v) = f[1] /\ \A pos \in 1 .. Len(v) + 1 : f[pos] = Turn(v, f, pos)
  BY ScanTurns
<1>9. f[3 + len] = scan(w)
  <2>1. AllTurns(v, f)
    BY <1>8 DEF AllTurns
  <2>3. f[Len(u) + 1] = scan(w)
    BY <1>4, <2>1, ScanShift DEF IsJoin
  <2>2. Len(u) + 1 = 3 + len
    BY <1>3
  <2> QED BY <2>2, <2>3
<1>10. NextPos(v, 1) = 3 + len
  <2>1. 1 + 1 = 2 /\ 1 + 2 + len = 3 + len
    OBVIOUS
  <2> QED BY <1>6, <2>1 DEF NextPos
<1>11. ~Overruns(v, 1) /\ ~(1 > Len(v)) /\ 1 \in 1 .. Len(v) + 1
  BY <1>5, <1>10 DEF Overruns
<1>12. ParamAt(v, 1) = p
  <2>1. 1 + 2 = 3 /\ (3 + len) - 1 = 2 + len
    OBVIOUS
  <2>2. ParamAt(v, 1) = [code |-> p.code, value |-> p.value]
    BY <1>6, <1>7, <1>10, <2>1 DEF ParamAt
  <2>3. p = [code |-> p.code, value |-> p.value]
    BY DEF Parameters
  <2> QED BY <2>2, <2>3
<1>13. f[1] = [scan(w) EXCEPT !.params = <<p>> \o @]
  BY <1>8, <1>9, <1>10, <1>11, <1>12 DEF Turn
<1>14. scan(w) \in Outcomes
  BY ScanTypes
<1>15. [scan(w) EXCEPT !.params = <<p>> \o @] = [err |-> nil, params |-> <<p>> \o scan(w).params]
  <2>1. PICK r \in Outcomes : r = scan(w)
    BY <1>14
  <2>2. PICK q : q = <<p>> \o r.params
    OBVIOUS
  <2>3. r.err = nil
    BY <2>1
  <2>4. [r EXCEPT !.params = q] = [err |-> nil, params |-> q]
    <3>1. q \in Seq(Parameters)
      BY <2>2 DEF Outcomes
    <3>2. PICK x \in Outcomes : x = [r EXCEPT !.params = q]
      <4>1. [r EXCEPT !.params = q] \in Outcomes
        BY <3>1 DEF Outcomes
      <4> QED BY <4>1
    <3>3. x.err = nil /\ x.params = q
      BY <2>3, <3>2 DEF Outcomes
    <3>4. x = [err |-> x.err, params |-> x.params]
      BY DEF Outcomes
    <3> QED BY <3>2, <3>3, <3>4
  <2> QED BY <2>1, <2>2, <2>4
<1> QED BY <1>2, <1>4, <1>8, <1>13, <1>15

\* Nothing is parsed as nothing.
LEMMA ScanNothing == scan(<<>>) = [err |-> nil, params |-> <<>>]
<1>1. PICK v \in Seq(Octet) : v = <<>>
  <2>1. <<>> \in Seq(Octet)
    OBVIOUS
  <2> QED BY <2>1
<1>2. PICK f \in [1 .. Len(v) + 1 -> Outcomes] :
        scan(v) = f[1] /\ \A pos \in 1 .. Len(v) + 1 : f[pos] = Turn(v, f, pos)
  BY ScanTurns
<1>3. 1 \in 1 .. Len(v) + 1 /\ 1 > Len(v)
  BY <1>1
<1> QED BY <1>1, <1>2, <1>3 DEF Turn, Finished

\* A list that is encoded has no value that is too long.
AllFit(ps) == \A i \in 1 .. Len(ps) : ~(Len(ps[i].value) > 255)

\* What was encoded had no value longer than 255 octets.
LEMMA EncodedFit ==
  ASSUME NEW ps \in Seq(Parameters), encodeVariablePart(ps).err = nil
  PROVE  AllFit(ps)
<1>1. PICK base \in Wires : base = Wire(nil, <<>>)
  <2>1. Wire(nil, <<>>) \in Wires
    BY DEF Wire, Wires
  <2> QED BY <2>1
<1>2. PICK f \in [0 .. Len(ps) -> Wires] :
        /\ f[0] = base /\ \A k \in 1 .. Len(ps) : f[k] = appendParameter(f[k - 1], ps[k])
        /\ FoldLeft(appendParameter, base, ps) = f[Len(ps)]
  BY AppendFold
<1>3. PICK n \in Nat : n = Len(ps)
  OBVIOUS
<1> DEFINE S == {k \in 0 .. n : f[k].err = nil => \A i \in 1 .. k : ~(Len(ps[i].value) > 255)}
<1>4. 0 \in S
  OBVIOUS
<1>5. ASSUME NEW k \in 1 .. n, k - 1 \in S PROVE k \in S
  <2>1. f[k] = appendParameter(f[k - 1], ps[k]) /\ f[k - 1] \in Wires /\ ps[k] \in Parameters
    BY <1>2, <1>3
  <2>2. f[k].err = nil => f[k - 1].err = nil /\ ~(Len(ps[k].value) > 255)
    BY <2>1, AppendCoded
  <2>3. \A i \in 1 .. k : i \in 1 .. k - 1 \/ i = k
    OBVIOUS
  <2> QED BY <1>5, <2>2, <2>3
<1>6. n \in S
  <2>1. n \in 0 .. n
    OBVIOUS
  <2> HIDE DEF S
  <2> QED BY <1>4, <1>5, <2>1, Induction
<1>7. f[n].err = nil
  BY <1>1, <1>2, <1>3 DEF encodeVariablePart
<1> QED BY <1>3, <1>6, <1>7 DEF AllFit

\* Nothing is lost and nothing added: a list whose values fit is encoded, and
\* the parser finds it again.
LEMMA ScanEncode ==
  ASSUME NEW ps \in Seq(Parameters), AllFit(ps)
  PROVE  /\ encodeVariablePart(ps).err = nil /\ encodeVariablePart(ps).octets \in Seq(Octet)
         /\ scan(encodeVariablePart(ps).octets) = [err |-> nil, params |-> ps]
<1>1. PICK n \in Nat : n = Len(ps)
  OBVIOUS
<1> DEFINE Rest(k) == SubSeq(ps, (n + 1) - k, n)
           Back(s) == /\ encodeVariablePart(s).err = nil
                      /\ scan(encodeVariablePart(s).octets) = [err |-> nil, params |-> s]
           S == {k \in 0 .. n : Back(Rest(k))}
<1>2. 0 \in S
  <2>1. Rest(0) = <<>>
    <3>1. PICK i \in Int, j \in Int : i = (n + 1) - 0 /\ j = n /\ j < i
      OBVIOUS
    <3> QED BY <3>1, SubSeqEmpty
  <2>2. encodeVariablePart(<<>>).err = nil /\ encodeVariablePart(<<>>).octets = <<>>
    BY EncodeNothing DEF Wire
  <2>3. Back(Rest(0))
    BY <2>1, <2>2, ScanNothing
  <2> QED BY <2>3
<1>3. ASSUME NEW k \in 1 .. n, k - 1 \in S PROVE k \in S
  <2>1. PICK i \in 1 .. n : i = (n + 1) - k /\ i + 1 = (n + 1) - (k - 1)
    OBVIOUS
  <2>2. PICK p \in Parameters : p = ps[i] /\ ~(Len(p.value) > 255)
    BY <1>1 DEF AllFit
  <2>3. PICK s \in Seq(Parameters) : s = Rest(k - 1)
    <3>1. SubSeq(ps, i + 1, n) \in Seq(Parameters)
      BY <1>1
    <3> QED BY <2>1, <3>1
  <2>4. Rest(k) = <<p>> \o s
    <3>1. SubSeq(ps, i, i) \o SubSeq(ps, i + 1, n) = SubSeq(ps, i, n)
      <4>1. i \in 1 .. Len(ps) + 1 /\ i \in i - 1 .. Len(ps) /\ n \in i .. Len(ps)
        BY <1>1
      <4> QED BY <4>1, ConcatAdjacentSubSeq
    <3>2. SubSeq(ps, i, i) = <<p>>
      <4>1. PICK one \in Seq(Parameters) : one = SubSeq(ps, i, i)
        <5>1. SubSeq(ps, i, i) \in Seq(Parameters)
          BY <1>1
        <5> QED BY <5>1
      <4>2. Len(one) = 1 /\ one[1] = p
        BY <1>1, <2>2, <4>1
      <4>3. one = <<one[1]>>
        BY <4>2
      <4> QED BY <4>1, <4>2, <4>3
    <3> QED BY <2>1, <2>3, <3>1, <3>2
  <2>5. Back(s)
    BY <1>3, <2>3
  <2>6. encodeVariablePart(<<p>> \o s) = Wire(nil, Coded(p) \o encodeVariablePart(s).octets)
    BY <2>2, <2>5, EncodeCons
  <2>7. PICK w \in Seq(Octet) : w = encodeVariablePart(s).octets
    BY EncodeTypes DEF Wires
  <2>8. scan(w).err = nil /\ scan(w).params = s
    BY <2>5, <2>7
  <2>9. scan(Coded(p) \o w) = [err |-> nil, params |-> <<p>> \o s]
    BY <2>2, <2>8, ScanCons
  <2>10. Back(<<p>> \o s)
    <3>1. \A e, o : Wire(e, o).err = e /\ Wire(e, o).octets = o
      BY DEF Wire
    <3> QED BY <2>6, <2>7, <2>9, <3>1
  <2>11. k \in 0 .. n
    OBVIOUS
  <2> HIDE DEF Back, Rest
  <2> QED BY <2>4, <2>10, <2>11
<1>4. n \in S
  <2>1. n \in 0 .. n
    OBVIOUS
  <2> HIDE DEF S
  <2> QED BY <1>2, <1>3, <2>1, Induction
<1>5. Rest(n) = ps
  <2>1. (n + 1) - n = 1
    OBVIOUS
  <2> QED BY <1>1, <2>1, SubSeqFull
<1>6. encodeVariablePart(ps).octets \in Seq(Octet)
  BY EncodeTypes DEF Wires
<1> QED BY <1>4, <1>5, <1>6

-----------------------------------------------------------------------------
(* One parameter more                                                      *)

\* A list and one parameter more, position by position.
LEMMA OneMore ==
  ASSUME NEW s \in Seq(Parameters), NEW p \in Parameters
  PROVE  /\ s \o <<p>> \in Seq(Parameters) /\ Len(s \o <<p>>) = Len(s) + 1
         /\ (s \o <<p>>)[Len(s) + 1] = p /\ \A i \in 1 .. Len(s) : (s \o <<p>>)[i] = s[i]
         /\ Append(s, p) = s \o <<p>>
<1>1. Append(s, p) = s \o <<p>>
  BY AppendIsConcat
<1>2. /\ Append(s, p) \in Seq(Parameters) /\ Len(Append(s, p)) = Len(s) + 1
      /\ Append(s, p)[Len(s) + 1] = p /\ \A i \in 1 .. Len(s) : Append(s, p)[i] = s[i]
  OBVIOUS
<1> QED BY <1>1, <1>2

\* The same for lists of parameters as for octets.
LEMMA ListsAssociate ==
  ASSUME NEW x \in Seq(Parameters), NEW y \in Seq(Parameters), NEW z \in Seq(Parameters)
  PROVE  (x \o y) \o z = x \o (y \o z) /\ x \o y \in Seq(Parameters)
  BY ConcatAssociative

\* The empty list is neutral.
LEMMA NoList ==
  /\ <<>> \in Seq(Parameters)
  /\ \A x \in Seq(Parameters) : x \o <<>> = x /\ <<>> \o x = x
  OBVIOUS

\* Induction over the lists of parameters, parameter by parameter.
LEMMA ListInduction ==
  ASSUME NEW T, <<>> \in T,
         \A s \in Seq(Parameters), p \in Parameters : s \in T => s \o <<p>> \in T
  PROVE  \A s \in Seq(Parameters) : s \in T
<1> SUFFICES ASSUME NEW s \in Seq(Parameters) PROVE s \in T
  OBVIOUS
<1>1. PICK n \in Nat : n = Len(s)
  OBVIOUS
<1> DEFINE S == {k \in 0 .. n : SubSeq(s, 1, k) \in T}
<1>2. 0 \in S
  <2>1. SubSeq(s, 1, 0) = <<>>
    <3>1. PICK i \in Int, j \in Int : i = 1 /\ j = 0 /\ j < i
      OBVIOUS
    <3> QED BY <3>1, SubSeqEmpty
  <2>2. 0 \in 0 .. n
    OBVIOUS
  <2> QED BY <2>1, <2>2
<1>3. ASSUME NEW k \in 1 .. n, k - 1 \in S PROVE k \in S
  <2>1. PICK p \in Parameters : p = s[k]
    BY <1>1
  <2>2. PICK x \in Seq(Parameters) : x = SubSeq(s, 1, k - 1)
    <3>1. PICK j \in 0 .. n : j = k - 1
      OBVIOUS
    <3>2. SubSeq(s, 1, j) \in Seq(Parameters)
      BY <1>1
    <3> QED BY <3>1, <3>2
  <2>3. SubSeq(s, 1, k) = x \o <<p>>
    <3>1. SubSeq(s, 1, k - 1) \o SubSeq(s, (k - 1) + 1, k) = SubSeq(s, 1, k)
      <4>1. 1 \in 1 .. Len(s) + 1 /\ k - 1 \in 1 - 1 .. Len(s) /\ k \in k - 1 .. Len(s)
        BY <1>1
      <4> QED BY <4>1, ConcatAdjacentSubSeq
    <3>2. (k - 1) + 1 = k
      OBVIOUS
    <3>3. SubSeq(s, k, k) = <<p>>
      <4>1. PICK one \in Seq(Parameters) : one = SubSeq(s, k, k)
        <5>1. SubSeq(s, k, k) \in Seq(Parameters)
          BY <1>1
        <5> QED BY <5>1
      <4>2. Len(one) = 1 /\ one[1] = p
        BY <1>1, <2>1, <4>1
      <4>3. one = <<one[1]>>
        BY <4>2
      <4> QED BY <4>1, <4>2, <4>3
    <3> QED BY <2>2, <3>1, <3>2, <3>3
  <2>4. x \in T
    BY <1>3, <2>2
  <2>5. k \in 0 .. n
    OBVIOUS
  <2> QED BY <2>3, <2>4, <2>5
<1>4. n \in S
  <2>1. n \in 0 .. n
    OBVIOUS
  <2> HIDE DEF S
  <2> QED BY <1>2, <1>3, <2>1, Induction
<1>5. SubSeq(s, 1, n) = s
  BY <1>1, SubSeqFull
<1> QED BY <1>4, <1>5

\* The four loops, with one parameter more.
LEMMA AppendMore ==
  ASSUME NEW base \in Wires
  PROVE  /\ FoldLeft(appendParameter, base, <<>>) = base
         /\ \A s \in Seq(Parameters) : FoldLeft(appendParameter, base, s) \in Wires
         /\ \A s \in Seq(Parameters), p \in Parameters :
              FoldLeft(appendParameter, base, s \o <<p>>) = appendParameter(FoldLeft(appendParameter, base, s), p)
<1>1. ASSUME NEW s \in Seq(Parameters)
      PROVE  \E f \in [0 .. Len(s) -> Wires] :
               /\ f[0] = base /\ \A k \in 1 .. Len(s) : f[k] = appendParameter(f[k - 1], s[k])
               /\ FoldLeft(appendParameter, base, s) = f[Len(s)]
  BY AppendFold
<1>2. FoldLeft(appendParameter, base, <<>>) = base
  <2>1. PICK s \in Seq(Parameters) : s = <<>> /\ Len(s) = 0
    BY NoList
  <2>2. PICK f \in [0 .. Len(s) -> Wires] : f[0] = base /\ FoldLeft(appendParameter, base, s) = f[Len(s)]
    BY <1>1
  <2> QED BY <2>1, <2>2
<1>3. ASSUME NEW s \in Seq(Parameters) PROVE FoldLeft(appendParameter, base, s) \in Wires
  <2>1. PICK f \in [0 .. Len(s) -> Wires] : FoldLeft(appendParameter, base, s) = f[Len(s)]
    BY <1>1
  <2>2. Len(s) \in 0 .. Len(s)
    OBVIOUS
  <2> QED BY <2>1, <2>2
<1>4. ASSUME NEW s \in Seq(Parameters), NEW p \in Parameters
      PROVE  FoldLeft(appendParameter, base, s \o <<p>>) = appendParameter(FoldLeft(appendParameter, base, s), p)
  <2>1. PICK n \in Nat : n = Len(s)
    OBVIOUS
  <2>2. PICK r \in Seq(Parameters) : r = s \o <<p>>
    BY OneMore
  <2>3. Len(r) = n + 1 /\ r[n + 1] = p /\ \A i \in 1 .. n : r[i] = s[i]
    BY <2>1, <2>2, OneMore
  <2>4. PICK f \in [0 .. Len(s) -> Wires] :
          /\ f[0] = base /\ \A k \in 1 .. Len(s) : f[k] = appendParameter(f[k - 1], s[k])
          /\ FoldLeft(appendParameter, base, s) = f[Len(s)]
    BY <1>1
  <2>5. PICK g \in [0 .. Len(r) -> Wires] :
          /\ g[0] = base /\ \A k \in 1 .. Len(r) : g[k] = appendParameter(g[k - 1], r[k])
          /\ FoldLeft(appendParameter, base, r) = g[Len(r)]
    BY <1>1
  <2> DEFINE S == {k \in 0 .. n : g[k] = f[k]}
  <2>6. 0 \in S
    BY <2>4, <2>5
  <2>7. ASSUME NEW k \in 1 .. n, k - 1 \in S PROVE k \in S
    <3>1. k \in 1 .. Len(s) /\ k \in 1 .. Len(r) /\ r[k] = s[k] /\ k \in 0 .. n
      BY <2>1, <2>3
    <3>2. g[k] = appendParameter(g[k - 1], s[k]) /\ f[k] = appendParameter(f[k - 1], s[k])
      BY <2>4, <2>5, <3>1
    <3> QED BY <2>7, <3>1, <3>2
  <2>8. n \in S
    <3>1. n \in 0 .. n
      OBVIOUS
    <3> HIDE DEF S
    <3> QED BY <2>6, <2>7, <3>1, Induction
  <2>9. n + 1 \in 1 .. Len(r) /\ (n + 1) - 1 = n
    BY <2>3
  <2>10. g[n + 1] = appendParameter(g[n], p)
    BY <2>3, <2>5, <2>9
  <2> QED BY <2>1, <2>2, <2>3, <2>4, <2>5, <2>8, <2>10
<1> QED BY <1>2, <1>3, <1>4

\* The fold of encodeCRCCVariablePart over the unknown parameters, one more.
LEMMA UnknownMore ==
  ASSUME NEW base \in Wires
  PROVE  /\ FoldLeft(appendUnknown, base, <<>>) = base
         /\ \A s \in Seq(Parameters) : FoldLeft(appendUnknown, base, s) \in Wires
         /\ \A s \in Seq(Parameters), p \in Parameters :
              FoldLeft(appendUnknown, base, s \o <<p>>) = appendUnknown(FoldLeft(appendUnknown, base, s), p)
<1>1. ASSUME NEW s \in Seq(Parameters)
      PROVE  \E f \in [0 .. Len(s) -> Wires] :
               /\ f[0] = base /\ \A k \in 1 .. Len(s) : f[k] = appendUnknown(f[k - 1], s[k])
               /\ FoldLeft(appendUnknown, base, s) = f[Len(s)]
  BY UnknownFold
<1>2. FoldLeft(appendUnknown, base, <<>>) = base
  <2>1. PICK s \in Seq(Parameters) : s = <<>> /\ Len(s) = 0
    BY NoList
  <2>2. PICK f \in [0 .. Len(s) -> Wires] : f[0] = base /\ FoldLeft(appendUnknown, base, s) = f[Len(s)]
    BY <1>1
  <2> QED BY <2>1, <2>2
<1>3. ASSUME NEW s \in Seq(Parameters) PROVE FoldLeft(appendUnknown, base, s) \in Wires
  <2>1. PICK f \in [0 .. Len(s) -> Wires] : FoldLeft(appendUnknown, base, s) = f[Len(s)]
    BY <1>1
  <2>2. Len(s) \in 0 .. Len(s)
    OBVIOUS
  <2> QED BY <2>1, <2>2
<1>4. ASSUME NEW s \in Seq(Parameters), NEW p \in Parameters
      PROVE  FoldLeft(appendUnknown, base, s \o <<p>>) = appendUnknown(FoldLeft(appendUnknown, base, s), p)
  <2>1. PICK n \in Nat : n = Len(s)
    OBVIOUS
  <2>2. PICK r \in Seq(Parameters) : r = s \o <<p>>
    BY OneMore
  <2>3. Len(r) = n + 1 /\ r[n + 1] = p /\ \A i \in 1 .. n : r[i] = s[i]
    BY <2>1, <2>2, OneMore
  <2>4. PICK f \in [0 .. Len(s) -> Wires] :
          /\ f[0] = base /\ \A k \in 1 .. Len(s) : f[k] = appendUnknown(f[k - 1], s[k])
          /\ FoldLeft(appendUnknown, base, s) = f[Len(s)]
    BY <1>1
  <2>5. PICK g \in [0 .. Len(r) -> Wires] :
          /\ g[0] = base /\ \A k \in 1 .. Len(r) : g[k] = appendUnknown(g[k - 1], r[k])
          /\ FoldLeft(appendUnknown, base, r) = g[Len(r)]
    BY <1>1
  <2> DEFINE S == {k \in 0 .. n : g[k] = f[k]}
  <2>6. 0 \in S
    BY <2>4, <2>5
  <2>7. ASSUME NEW k \in 1 .. n, k - 1 \in S PROVE k \in S
    <3>1. k \in 1 .. Len(s) /\ k \in 1 .. Len(r) /\ r[k] = s[k] /\ k \in 0 .. n
      BY <2>1, <2>3
    <3>2. g[k] = appendUnknown(g[k - 1], s[k]) /\ f[k] = appendUnknown(f[k - 1], s[k])
      BY <2>4, <2>5, <3>1
    <3> QED BY <2>7, <3>1, <3>2
  <2>8. n \in S
    <3>1. n \in 0 .. n
      OBVIOUS
    <3> HIDE DEF S
    <3> QED BY <2>6, <2>7, <3>1, Induction
  <2>9. n + 1 \in 1 .. Len(r) /\ (n + 1) - 1 = n
    BY <2>3
  <2>10. g[n + 1] = appendUnknown(g[n], p)
    BY <2>3, <2>5, <2>9
  <2> QED BY <2>1, <2>2, <2>3, <2>4, <2>5, <2>8, <2>10
<1> QED BY <1>2, <1>3, <1>4

\* The fold of parseCRCCVariablePart, one more.
LEMMA ApplyMore ==
  ASSUME NEW base \in Found
  PROVE  /\ FoldLeft(applyParameter, base, <<>>) = base
         /\ \A s \in Seq(Parameters) : FoldLeft(applyParameter, base, s) \in Found
         /\ \A s \in Seq(Parameters), p \in Parameters :
              FoldLeft(applyParameter, base, s \o <<p>>) = applyParameter(FoldLeft(applyParameter, base, s), p)
<1>1. ASSUME NEW s \in Seq(Parameters)
      PROVE  \E f \in [0 .. Len(s) -> Found] :
               /\ f[0] = base /\ \A k \in 1 .. Len(s) : f[k] = applyParameter(f[k - 1], s[k])
               /\ FoldLeft(applyParameter, base, s) = f[Len(s)]
  BY ApplyFold
<1>2. FoldLeft(applyParameter, base, <<>>) = base
  <2>1. PICK s \in Seq(Parameters) : s = <<>> /\ Len(s) = 0
    BY NoList
  <2>2. PICK f \in [0 .. Len(s) -> Found] : f[0] = base /\ FoldLeft(applyParameter, base, s) = f[Len(s)]
    BY <1>1
  <2> QED BY <2>1, <2>2
<1>3. ASSUME NEW s \in Seq(Parameters) PROVE FoldLeft(applyParameter, base, s) \in Found
  <2>1. PICK f \in [0 .. Len(s) -> Found] : FoldLeft(applyParameter, base, s) = f[Len(s)]
    BY <1>1
  <2>2. Len(s) \in 0 .. Len(s)
    OBVIOUS
  <2> QED BY <2>1, <2>2
<1>4. ASSUME NEW s \in Seq(Parameters), NEW p \in Parameters
      PROVE  FoldLeft(applyParameter, base, s \o <<p>>) = applyParameter(FoldLeft(applyParameter, base, s), p)
  <2>1. PICK n \in Nat : n = Len(s)
    OBVIOUS
  <2>2. PICK r \in Seq(Parameters) : r = s \o <<p>>
    BY OneMore
  <2>3. Len(r) = n + 1 /\ r[n + 1] = p /\ \A i \in 1 .. n : r[i] = s[i]
    BY <2>1, <2>2, OneMore
  <2>4. PICK f \in [0 .. Len(s) -> Found] :
          /\ f[0] = base /\ \A k \in 1 .. Len(s) : f[k] = applyParameter(f[k - 1], s[k])
          /\ FoldLeft(applyParameter, base, s) = f[Len(s)]
    BY <1>1
  <2>5. PICK g \in [0 .. Len(r) -> Found] :
          /\ g[0] = base /\ \A k \in 1 .. Len(r) : g[k] = applyParameter(g[k - 1], r[k])
          /\ FoldLeft(applyParameter, base, r) = g[Len(r)]
    BY <1>1
  <2> DEFINE S == {k \in 0 .. n : g[k] = f[k]}
  <2>6. 0 \in S
    BY <2>4, <2>5
  <2>7. ASSUME NEW k \in 1 .. n, k - 1 \in S PROVE k \in S
    <3>1. k \in 1 .. Len(s) /\ k \in 1 .. Len(r) /\ r[k] = s[k] /\ k \in 0 .. n
      BY <2>1, <2>3
    <3>2. g[k] = applyParameter(g[k - 1], s[k]) /\ f[k] = applyParameter(f[k - 1], s[k])
      BY <2>4, <2>5, <3>1
    <3> QED BY <2>7, <3>1, <3>2
  <2>8. n \in S
    <3>1. n \in 0 .. n
      OBVIOUS
    <3> HIDE DEF S
    <3> QED BY <2>6, <2>7, <3>1, Induction
  <2>9. n + 1 \in 1 .. Len(r) /\ (n + 1) - 1 = n
    BY <2>3
  <2>10. g[n + 1] = applyParameter(g[n], p)
    BY <2>3, <2>5, <2>9
  <2> QED BY <2>1, <2>2, <2>3, <2>4, <2>5, <2>8, <2>10
<1> QED BY <1>2, <1>3, <1>4

\* The fold that keeps unknown parameters, one more.
LEMMA KeepMore ==
  ASSUME NEW base \in ParameterList
  PROVE  /\ FoldLeft(KeepUnknown, base, <<>>) = base
         /\ \A s \in Seq(Parameters) : FoldLeft(KeepUnknown, base, s) \in ParameterList
         /\ \A s \in Seq(Parameters), p \in Parameters :
              FoldLeft(KeepUnknown, base, s \o <<p>>) = KeepUnknown(FoldLeft(KeepUnknown, base, s), p)
<1>1. ASSUME NEW s \in Seq(Parameters)
      PROVE  \E f \in [0 .. Len(s) -> ParameterList] :
               /\ f[0] = base /\ \A k \in 1 .. Len(s) : f[k] = KeepUnknown(f[k - 1], s[k])
               /\ FoldLeft(KeepUnknown, base, s) = f[Len(s)]
  BY KeepFold
<1>2. FoldLeft(KeepUnknown, base, <<>>) = base
  <2>1. PICK s \in Seq(Parameters) : s = <<>> /\ Len(s) = 0
    BY NoList
  <2>2. PICK f \in [0 .. Len(s) -> ParameterList] : f[0] = base /\ FoldLeft(KeepUnknown, base, s) = f[Len(s)]
    BY <1>1
  <2> QED BY <2>1, <2>2
<1>3. ASSUME NEW s \in Seq(Parameters) PROVE FoldLeft(KeepUnknown, base, s) \in ParameterList
  <2>1. PICK f \in [0 .. Len(s) -> ParameterList] : FoldLeft(KeepUnknown, base, s) = f[Len(s)]
    BY <1>1
  <2>2. Len(s) \in 0 .. Len(s)
    OBVIOUS
  <2> QED BY <2>1, <2>2
<1>4. ASSUME NEW s \in Seq(Parameters), NEW p \in Parameters
      PROVE  FoldLeft(KeepUnknown, base, s \o <<p>>) = KeepUnknown(FoldLeft(KeepUnknown, base, s), p)
  <2>1. PICK n \in Nat : n = Len(s)
    OBVIOUS
  <2>2. PICK r \in Seq(Parameters) : r = s \o <<p>>
    BY OneMore
  <2>3. Len(r) = n + 1 /\ r[n + 1] = p /\ \A i \in 1 .. n : r[i] = s[i]
    BY <2>1, <2>2, OneMore
  <2>4. PICK f \in [0 .. Len(s) -> ParameterList] :
          /\ f[0] = base /\ \A k \in 1 .. Len(s) : f[k] = KeepUnknown(f[k - 1], s[k])
          /\ FoldLeft(KeepUnknown, base, s) = f[Len(s)]
    BY <1>1
  <2>5. PICK g \in [0 .. Len(r) -> ParameterList] :
          /\ g[0] = base /\ \A k \in 1 .. Len(r) : g[k] = KeepUnknown(g[k - 1], r[k])
          /\ FoldLeft(KeepUnknown, base, r) = g[Len(r)]
    BY <1>1
  <2> DEFINE S == {k \in 0 .. n : g[k] = f[k]}
  <2>6. 0 \in S
    BY <2>4, <2>5
  <2>7. ASSUME NEW k \in 1 .. n, k - 1 \in S PROVE k \in S
    <3>1. k \in 1 .. Len(s) /\ k \in 1 .. Len(r) /\ r[k] = s[k] /\ k \in 0 .. n
      BY <2>1, <2>3
    <3>2. g[k] = KeepUnknown(g[k - 1], s[k]) /\ f[k] = KeepUnknown(f[k - 1], s[k])
      BY <2>4, <2>5, <3>1
    <3> QED BY <2>7, <3>1, <3>2
  <2>8. n \in S
    <3>1. n \in 0 .. n
      OBVIOUS
    <3> HIDE DEF S
    <3> QED BY <2>6, <2>7, <3>1, Induction
  <2>9. n + 1 \in 1 .. Len(r) /\ (n + 1) - 1 = n
    BY <2>3
  <2>10. g[n + 1] = KeepUnknown(g[n], p)
    BY <2>3, <2>5, <2>9
  <2> QED BY <2>1, <2>2, <2>3, <2>4, <2>5, <2>8, <2>10
<1> QED BY <1>2, <1>3, <1>4

\* What a parameter is made of.
LEMMA ParameterTypes ==
  ASSUME NEW p \in Parameters
  PROVE  p.code \in Octet /\ p.value \in Seq(Octet) /\ Len(p.value) \in Nat
  BY DEF Parameters, OctetString

\* encodeVariablePart, with one parameter more.
LEMMA EncodeMore ==
  ASSUME NEW s \in Seq(Parameters), NEW p \in Parameters
  PROVE  /\ encodeVariablePart(s \o <<p>>) = appendParameter(encodeVariablePart(s), p)
         /\ encodeVariablePart(s) \in Wires
<1>1. PICK base \in Wires : base = Wire(nil, <<>>)
  <2>1. Wire(nil, <<>>) \in Wires
    BY DEF Wire, Wires
  <2> QED BY <2>1
<1>2. FoldLeft(appendParameter, base, s \o <<p>>) = appendParameter(FoldLeft(appendParameter, base, s), p)
  BY AppendMore
<1> QED BY <1>1, <1>2, EncodeTypes DEF encodeVariablePart

\* The octets of a list whose values fit, and of one parameter more.
EncodedLen(s) == Len(encodeVariablePart(s).octets)

\* A list fits if what it begins with and its last parameter do.
LEMMA FitMore ==
  ASSUME NEW s \in Seq(Parameters), NEW p \in Parameters
  PROVE  AllFit(s \o <<p>>) <=> AllFit(s) /\ ~(Len(p.value) > 255)
<1>1. PICK n \in Nat : n = Len(s)
  OBVIOUS
<1>2. PICK r \in Seq(Parameters) : r = s \o <<p>>
  BY OneMore
<1>3. Len(r) = n + 1 /\ r[n + 1] = p /\ \A i \in 1 .. n : r[i] = s[i]
  BY <1>1, <1>2, OneMore
<1>4. \A i \in 1 .. n + 1 : i \in 1 .. n \/ i = n + 1
  OBVIOUS
<1>5. n + 1 \in 1 .. n + 1 /\ \A i \in 1 .. n : i \in 1 .. n + 1
  OBVIOUS
<1> QED BY <1>1, <1>2, <1>3, <1>4, <1>5 DEF AllFit

\* A parameter takes two octets and its value.
LEMMA LenMore ==
  ASSUME NEW s \in Seq(Parameters), NEW p \in Parameters, AllFit(s), ~(Len(p.value) > 255)
  PROVE  EncodedLen(s \o <<p>>) = EncodedLen(s) + 2 + Len(p.value) /\ EncodedLen(s) \in Nat
<1>1. encodeVariablePart(s).err = nil /\ encodeVariablePart(s) \in Wires
  BY ScanEncode, EncodeTypes
<1>2. PICK w \in Wires : w = encodeVariablePart(s) /\ w.err = nil
  BY <1>1
<1>3. appendParameter(w, p) = Wire(nil, w.octets \o Coded(p)) /\ Coded(p) \in Seq(Octet)
  BY <1>2, AppendCoded
<1>4. encodeVariablePart(s \o <<p>>).octets = w.octets \o Coded(p)
  <2>1. \A e, o : Wire(e, o).octets = o
    BY DEF Wire
  <2>2. encodeVariablePart(s \o <<p>>) = appendParameter(w, p)
    BY <1>2, EncodeMore
  <2> QED BY <1>3, <2>1, <2>2
<1>5. PICK x \in Seq(Octet), y \in Seq(Octet) : x = w.octets /\ y = Coded(p)
  BY <1>3 DEF Wires
<1>6. Len(x \o y) = Len(x) + Len(y) /\ Len(x) \in Nat
  OBVIOUS
<1>7. Len(y) = 2 + Len(p.value) /\ Len(p.value) \in Nat
  BY <1>5, CodedOctets, ParameterTypes
<1>8. \A i \in Nat, j \in Nat : i + (2 + j) = i + 2 + j
  OBVIOUS
<1> QED BY <1>2, <1>4, <1>5, <1>6, <1>7, <1>8, ZenonT(40) DEF EncodedLen

\* No parameters take no octets.
LEMMA NothingFits == AllFit(<<>>) /\ EncodedLen(<<>>) = 0
<1>1. AllFit(<<>>)
  BY DEF AllFit
<1>2. encodeVariablePart(<<>>).octets = <<>>
  BY EncodeNothing DEF Wire
<1> QED BY <1>1, <1>2 DEF EncodedLen

\* Two lists in a row.
LEMMA TwoLists ==
  ASSUME NEW x \in Seq(Parameters), NEW y \in Seq(Parameters)
  PROVE  /\ AllFit(x \o y) <=> AllFit(x) /\ AllFit(y)
         /\ AllFit(x) /\ AllFit(y) => EncodedLen(x \o y) = EncodedLen(x) + EncodedLen(y)
         /\ EncodedLen(x) \in Nat
<1> DEFINE Good(s) == /\ AllFit(x \o s) <=> AllFit(x) /\ AllFit(s)
                      /\ AllFit(x) /\ AllFit(s) => EncodedLen(x \o s) = EncodedLen(x) + EncodedLen(s)
           T == {s \in Seq(Parameters) : Good(s)}
<1>1. \A s \in Seq(Parameters) : EncodedLen(s) \in Nat
  BY EncodeTypes DEF EncodedLen, Wires
<1>2. <<>> \in T
  <2>1. x \o <<>> = x /\ <<>> \in Seq(Parameters)
    BY NoList
  <2>2. EncodedLen(x) + 0 = EncodedLen(x)
    BY <1>1
  <2>3. Good(<<>>)
    BY <2>1, <2>2, NothingFits
  <2> QED BY <2>1, <2>3
<1>3. ASSUME NEW s \in Seq(Parameters), NEW p \in Parameters, s \in T PROVE s \o <<p>> \in T
  <2>1. PICK xs \in Seq(Parameters) : xs = x \o s
    BY ListsAssociate
  <2>2. x \o (s \o <<p>>) = xs \o <<p>> /\ s \o <<p>> \in Seq(Parameters)
    <3>1. <<p>> \in Seq(Parameters)
      OBVIOUS
    <3>2. (x \o s) \o <<p>> = x \o (s \o <<p>>)
      BY <3>1, ListsAssociate
    <3> QED BY <2>1, <3>2, OneMore
  <2>3. AllFit(xs) <=> AllFit(x) /\ AllFit(s)
    BY <1>3, <2>1
  <2>4. AllFit(xs \o <<p>>) <=> AllFit(x) /\ AllFit(s \o <<p>>)
    BY <2>3, FitMore
  <2>5. ASSUME AllFit(x), AllFit(s \o <<p>>)
        PROVE  EncodedLen(xs \o <<p>>) = EncodedLen(x) + EncodedLen(s \o <<p>>)
    <3>1. AllFit(xs) /\ AllFit(s) /\ ~(Len(p.value) > 255)
      BY <2>3, <2>5, FitMore
    <3>2. /\ EncodedLen(xs \o <<p>>) = EncodedLen(xs) + 2 + Len(p.value)
          /\ EncodedLen(s \o <<p>>) = EncodedLen(s) + 2 + Len(p.value)
      BY <3>1, LenMore
    <3>3. EncodedLen(xs) = EncodedLen(x) + EncodedLen(s)
      BY <1>3, <2>1, <2>5, <3>1
    <3>4. EncodedLen(x) \in Nat /\ EncodedLen(s) \in Nat /\ Len(p.value) \in Nat
      BY <1>1, ParameterTypes
    <3>5. PICK i \in Nat, j \in Nat, k \in Nat :
            i = EncodedLen(x) /\ j = EncodedLen(s) /\ k = Len(p.value)
      BY <3>4
    <3>6. EncodedLen(xs \o <<p>>) = (i + j) + 2 + k /\ EncodedLen(s \o <<p>>) = j + 2 + k
      BY <3>2, <3>3, <3>5
    <3>7. (i + j) + 2 + k = i + (j + 2 + k)
      OBVIOUS
    <3> QED BY <3>5, <3>6, <3>7
  <2> HIDE DEF Good
  <2>6. Good(s \o <<p>>)
    BY <2>2, <2>4, <2>5 DEF Good
  <2> QED BY <2>2, <2>6
<1>4. y \in T
  <2> HIDE DEF T
  <2> QED BY <1>2, <1>3, ListInduction
<1> QED BY <1>1, <1>4

\* The unknown parameters, with one parameter more; what is kept is unknown.
LEMMA UnknownStep ==
  /\ Unknown(<<>>) = <<>>
  /\ \A s \in Seq(Parameters) : Unknown(s) \in Seq(Parameters)
  /\ \A s \in Seq(Parameters), p \in Parameters :
       Unknown(s \o <<p>>) = IF p.code \in KnownParams THEN Unknown(s) ELSE Unknown(s) \o <<p>>
<1>1. PICK none \in ParameterList : none = <<>>
  BY NoList DEF ParameterList
<1>2. Unknown(<<>>) = <<>>
  BY <1>1, KeepMore DEF Unknown
<1>3. ASSUME NEW s \in Seq(Parameters) PROVE Unknown(s) \in Seq(Parameters)
  BY <1>1, KeepMore DEF Unknown, ParameterList
<1>4. ASSUME NEW s \in Seq(Parameters), NEW p \in Parameters
      PROVE  Unknown(s \o <<p>>) = IF p.code \in KnownParams THEN Unknown(s) ELSE Unknown(s) \o <<p>>
  <2>1. Unknown(s \o <<p>>) = KeepUnknown(Unknown(s), p)
    BY <1>1, KeepMore DEF Unknown
  <2>2. PICK u \in Seq(Parameters) : u = Unknown(s)
    BY <1>3
  <2>3. Append(u, p) = u \o <<p>>
    BY OneMore
  <2> QED BY <2>1, <2>2, <2>3 DEF KeepUnknown
<1> QED BY <1>2, <1>3, <1>4

\* Leaving out the known parameters twice is leaving them out once.
LEMMA UnknownKept ==
  ASSUME NEW s \in Seq(Parameters)
  PROVE  /\ Unknown(Unknown(s)) = Unknown(s)
         /\ AllFit(s) => AllFit(Unknown(s))
<1> DEFINE Good(r) == Unknown(Unknown(r)) = Unknown(r) /\ (AllFit(r) => AllFit(Unknown(r)))
           T == {r \in Seq(Parameters) : Good(r)}
<1>1. <<>> \in T
  <2>1. Good(<<>>)
    BY UnknownStep
  <2> QED BY <2>1, NoList
<1>2. ASSUME NEW r \in Seq(Parameters), NEW p \in Parameters, r \in T PROVE r \o <<p>> \in T
  <2>1. PICK u \in Seq(Parameters) : u = Unknown(r)
    BY UnknownStep
  <2>2. Unknown(u) = u /\ (AllFit(r) => AllFit(u))
    BY <1>2, <2>1
  <2>3. r \o <<p>> \in Seq(Parameters) /\ u \o <<p>> \in Seq(Parameters)
    BY OneMore
  <2>4. AllFit(r \o <<p>>) <=> AllFit(r) /\ ~(Len(p.value) > 255)
    BY FitMore
  <2>5. AllFit(u \o <<p>>) <=> AllFit(u) /\ ~(Len(p.value) > 255)
    BY FitMore
  <2>6. CASE p.code \in KnownParams
    <3>1. Unknown(r \o <<p>>) = u
      BY <2>1, <2>6, UnknownStep
    <3> QED BY <2>2, <2>3, <2>4, <3>1
  <2>7. CASE p.code \notin KnownParams
    <3>1. Unknown(r \o <<p>>) = u \o <<p>> /\ Unknown(u \o <<p>>) = u \o <<p>>
      BY <2>1, <2>2, <2>7, UnknownStep
    <3> QED BY <2>2, <2>3, <2>4, <2>5, <3>1
  <2> QED BY <2>6, <2>7
<1>3. s \in T
  <2> HIDE DEF T
  <2> QED BY <1>1, <1>2, ListInduction
<1> QED BY <1>3

\* The last loop of encodeCRCCVariablePart encodes the unknown parameters.
LEMMA EncodeUnknown ==
  ASSUME NEW known \in Seq(Parameters), NEW s \in Seq(Parameters)
  PROVE  FoldLeft(appendUnknown, encodeVariablePart(known), s) = encodeVariablePart(known \o Unknown(s))
<1>1. PICK base \in Wires : base = encodeVariablePart(known)
  BY EncodeTypes
<1> DEFINE T == {r \in Seq(Parameters) :
                   FoldLeft(appendUnknown, base, r) = encodeVariablePart(known \o Unknown(r))}
<1>2. <<>> \in T
  <2>1. FoldLeft(appendUnknown, base, <<>>) = base
    BY UnknownMore
  <2>2. known \o Unknown(<<>>) = known
    BY UnknownStep, NoList
  <2> QED BY <1>1, <2>1, <2>2, NoList
<1>3. ASSUME NEW r \in Seq(Parameters), NEW p \in Parameters, r \in T PROVE r \o <<p>> \in T
  <2>1. PICK u \in Seq(Parameters) : u = Unknown(r)
    BY UnknownStep
  <2>2. PICK ku \in Seq(Parameters) : ku = known \o u
    BY ListsAssociate
  <2>3. FoldLeft(appendUnknown, base, r \o <<p>>) = appendUnknown(encodeVariablePart(ku), p)
    <3>1. FoldLeft(appendUnknown, base, r \o <<p>>) = appendUnknown(FoldLeft(appendUnknown, base, r), p)
      BY UnknownMore
    <3>2. FoldLeft(appendUnknown, base, r) = encodeVariablePart(ku)
      BY <1>3, <2>1, <2>2
    <3> QED BY <3>1, <3>2
  <2>4. r \o <<p>> \in Seq(Parameters)
    BY OneMore
  <2>5. CASE p.code \in KnownParams
    <3>1. Unknown(r \o <<p>>) = u
      BY <2>1, <2>5, UnknownStep
    <3> QED BY <2>2, <2>3, <2>4, <2>5, <3>1 DEF appendUnknown
  <2>6. CASE p.code \notin KnownParams
    <3>1. Unknown(r \o <<p>>) = u \o <<p>>
      BY <2>1, <2>6, UnknownStep
    <3>2. known \o (u \o <<p>>) = ku \o <<p>>
      <4>1. <<p>> \in Seq(Parameters)
        OBVIOUS
      <4>2. (known \o u) \o <<p>> = known \o (u \o <<p>>)
        BY <4>1, ListsAssociate, SMTT(40)
      <4> QED BY <2>2, <4>2
    <3>3. encodeVariablePart(ku \o <<p>>) = appendParameter(encodeVariablePart(ku), p)
      BY EncodeMore
    <3> QED BY <2>3, <2>4, <2>6, <3>1, <3>2, <3>3 DEF appendUnknown
  <2> QED BY <2>5, <2>6
<1>4. s \in T
  <2> HIDE DEF T
  <2> QED BY <1>2, <1>3, ListInduction
<1> QED BY <1>1, <1>4

-----------------------------------------------------------------------------
(* The preferred maximum                                                   *)

\* An octet of a sequence, and a piece of it.
LEMMA OctetAt ==
  ASSUME NEW v \in Seq(Octet)
  PROVE  \A i \in 1 .. Len(v) : v[i] \in Octet
  OBVIOUS

\* Octets are integers.
LEMMA OctetIsInt ==
  ASSUME NEW v \in Seq(Octet)
  PROVE  \A i \in 1 .. Len(v) : v[i] \in Int
<1>1. Octet \subseteq Int
  BY DEF Octet
<1>2. \A i \in 1 .. Len(v) : v[i] \in Octet
  BY OctetAt
<1> QED BY <1>1, <1>2

\* A part of a buffer: its length and its octets.
LEMMA PieceOf ==
  ASSUME NEW v \in Seq(Octet), NEW i \in Int, NEW j \in Int, 1 <= i, i - 1 <= j, j <= Len(v)
  PROVE  /\ SubSeq(v, i, j) \in Seq(Octet) /\ Len(SubSeq(v, i, j)) = (j - i) + 1
         /\ \A k \in 1 .. (j - i) + 1 : SubSeq(v, i, j)[k] = v[(i - 1) + k]
<1>1. PICK n \in Nat : n = Len(v)
  OBVIOUS
<1> QED BY <1>1

\* The number of up to four octets.
Num1(v) == v[1]
Num2(v) == 256 * Num1(v) + v[2]
Num3(v) == 256 * Num2(v) + v[3]
Num4(v) == 256 * Num3(v) + v[4]
Num(v, i) == IF i = 0 THEN 0 ELSE IF i = 1 THEN Num1(v) ELSE IF i = 2 THEN Num2(v)
             ELSE IF i = 3 THEN Num3(v) ELSE Num4(v)

\* BigEndian of up to four octets, written out.
LEMMA BigEndianNum ==
  ASSUME NEW v \in Seq(Octet), Len(v) \in 1 .. 4
  PROVE  BigEndian(v) = Num(v, Len(v))
<1>1. PICK n \in 1 .. 4 : n = Len(v)
  OBVIOUS
<1>2. \A i \in 1 .. n : v[i] \in Int
  BY <1>1, OctetIsInt
<1> DEFINE Body(g) == [i \in 0 .. Len(v) |-> IF i = 0 THEN 0 ELSE 256 * g[i - 1] + v[i]]
           upTo == CHOOSE g : g = Body(g)
           f == [i \in 0 .. Len(v) |-> Num(v, i)]
<1>3. BigEndian(v) = upTo[Len(v)]
  BY DEF BigEndian
<1>4. \A i \in 1 .. n : Num(v, i) = 256 * Num(v, i - 1) + v[i]
  <2>1. Num(v, 1) = 256 * Num(v, 0) + v[1]
    <3>1. v[1] \in Int
      BY <1>2
    <3>2. v[1] = 256 * 0 + v[1]
      BY <3>1
    <3> QED BY <3>2 DEF Num, Num1
  <2>2. Num(v, 2) = 256 * Num(v, 1) + v[2] /\ Num(v, 3) = 256 * Num(v, 2) + v[3] /\ Num(v, 4) = 256 * Num(v, 3) + v[4]
    BY DEF Num, Num2, Num3, Num4
  <2>3. \A i \in 1 .. n : i = 1 \/ i = 2 \/ i = 3 \/ i = 4
    OBVIOUS
  <2>4. 1 - 1 = 0 /\ 2 - 1 = 1 /\ 3 - 1 = 2 /\ 4 - 1 = 3
    OBVIOUS
  <2> HIDE DEF Num
  <2> QED BY <2>1, <2>2, <2>3, <2>4
<1>5. Num(v, 0) = 0
  BY DEF Num
<1> HIDE DEF Num
<1>6. f = Body(f)
  <2>1. ASSUME NEW i \in 0 .. Len(v) PROVE f[i] = IF i = 0 THEN 0 ELSE 256 * f[i - 1] + v[i]
    <3>1. CASE i = 0
      BY <1>5, <3>1
    <3>2. CASE i # 0
      <4>1. i \in 1 .. n /\ i - 1 \in 0 .. Len(v)
        BY <1>1, <3>2
      <4> QED BY <1>4, <3>2, <4>1
    <3> QED BY <3>1, <3>2
  <2> QED BY <2>1
<1>7. upTo = Body(upTo)
  <2> HIDE DEF Body, f
  <2> QED BY <1>6
<1> HIDE DEF upTo
<1> DEFINE S == {i \in 0 .. n : upTo[i] = Num(v, i)}
<1>8. 0 \in S
  BY <1>1, <1>5, <1>7
<1>9. ASSUME NEW i \in 1 .. n, i - 1 \in S PROVE i \in S
  <2>1. i \in 0 .. Len(v) /\ i # 0 /\ i \in 0 .. n
    BY <1>1
  <2>2. upTo[i] = 256 * upTo[i - 1] + v[i]
    BY <1>7, <2>1
  <2> QED BY <1>4, <1>9, <2>1, <2>2
<1>10. n \in S
  <2>1. n \in 0 .. n /\ n \in Nat
    OBVIOUS
  <2> HIDE DEF S
  <2> QED BY <1>8, <1>9, <2>1, Induction
<1> QED BY <1>1, <1>3, <1>10

\* A uint32, by the most significant of its octets.
Is32Bit(u) == u \div 16777216 <= 255

\* A number of 32 bits is the number of its four octets.
LEMMA FourOctets ==
  ASSUME NEW u \in Nat, Is32Bit(u)
  PROVE  /\ u \div 16777216 \in Octet /\ (u \div 65536) % 256 \in Octet
         /\ (u \div 256) % 256 \in Octet /\ u % 256 \in Octet
         /\ u = 256 * (256 * (256 * (u \div 16777216) + ((u \div 65536) % 256)) + ((u \div 256) % 256)) + (u % 256)
<1>1. PICK q1 \in Nat : q1 = u \div 256
  BY SMT
<1>2. PICK q2 \in Nat : q2 = q1 \div 256 /\ q2 = u \div 65536
  BY <1>1, SMT
<1>3. PICK q3 \in Nat : q3 = q2 \div 256 /\ q3 = u \div 16777216
  BY <1>1, <1>2, SMT
<1>4. u = 256 * q1 + (u % 256) /\ u % 256 \in 0 .. 255
  BY <1>1, SMT
<1>5. q1 = 256 * q2 + (q1 % 256) /\ q1 % 256 \in 0 .. 255
  BY <1>2, SMT
<1>6. q2 = 256 * q3 + (q2 % 256) /\ q2 % 256 \in 0 .. 255
  BY <1>3, SMT
<1>7. q3 \in 0 .. 255
  BY <1>3, SMT DEF Is32Bit
<1> QED BY <1>1, <1>2, <1>3, <1>4, <1>5, <1>6, <1>7, SMT DEF Octet

\* What encodePreferredMaxUnits leaves of the four octets.
LEMMA Shortest ==
  ASSUME NEW u \in Nat, u # 0, Is32Bit(u)
  PROVE  \E o \in Seq(Octet), i \in 1 .. 4 :
           /\ Len(o) = 4 /\ encodePreferredMaxUnits(u) = SubSeq(o, i, 4)
           /\ o[i] # 0 /\ \A j \in 1 .. i - 1 : o[j] = 0
           /\ u = Num(o, 4)
<1> DEFINE octets == <<u \div 16777216, (u \div 65536) % 256, (u \div 256) % 256, u % 256>>
           Leads(i) == octets[i] # 0 /\ \A j \in 1 .. i - 1 : octets[j] = 0
           lead == CHOOSE i \in 1 .. 4 : Leads(i)
<1>1. octets \in Seq(Octet) /\ Len(octets) = 4
  BY FourOctets, SMT
<1>2. u = Num(octets, 4)
  <2>1. /\ octets[1] = u \div 16777216 /\ octets[2] = (u \div 65536) % 256
        /\ octets[3] = (u \div 256) % 256 /\ octets[4] = u % 256
    BY SMT
  <2>2. Num(octets, 4) = 256 * (256 * (256 * octets[1] + octets[2]) + octets[3]) + octets[4]
    BY SMT DEF Num, Num1, Num2, Num3, Num4
  <2> HIDE DEF octets
  <2> QED BY <2>1, <2>2, FourOctets, SMT
<1>3. \E i \in 1 .. 4 : Leads(i)
  <2> HIDE DEF octets
  <2>1. octets[1] # 0 \/ octets[2] # 0 \/ octets[3] # 0 \/ octets[4] # 0
    BY <1>2, SMT DEF Num, Num1, Num2, Num3, Num4
  <2>2. \/ Leads(1) \/ Leads(2) \/ Leads(3) \/ Leads(4)
    BY <2>1, SMT
  <2> HIDE DEF Leads
  <2> QED BY <2>2, SMT
<1>4. encodePreferredMaxUnits(u) = SubSeq(octets, lead, 4)
  BY SMT DEF encodePreferredMaxUnits
<1>5. lead \in 1 .. 4 /\ Leads(lead)
  <2> HIDE DEF Leads, octets
  <2> QED BY <1>3, SMT
<1> HIDE DEF octets, lead
<1> QED BY <1>1, <1>2, <1>4, <1>5

\* The last octets of four.
LEMMA FourPiece ==
  ASSUME NEW o \in Seq(Octet), Len(o) = 4, NEW i \in 1 .. 4
  PROVE  /\ SubSeq(o, i, 4) \in Seq(Octet) /\ Len(SubSeq(o, i, 4)) = 5 - i
         /\ \A k \in 1 .. 5 - i : SubSeq(o, i, 4)[k] = o[(i - 1) + k]
         /\ o[1] \in 0 .. 255 /\ o[2] \in 0 .. 255 /\ o[3] \in 0 .. 255 /\ o[4] \in 0 .. 255
<1>1. PICK n \in Nat : n = 4 /\ n = Len(o)
  OBVIOUS
<1>2. o[1] \in Octet /\ o[2] \in Octet /\ o[3] \in Octet /\ o[4] \in Octet
  <2>1. \A k \in 1 .. Len(o) : o[k] \in Octet
    BY OctetAt
  <2>2. 1 \in 1 .. Len(o) /\ 2 \in 1 .. Len(o) /\ 3 \in 1 .. Len(o) /\ 4 \in 1 .. Len(o)
    OBVIOUS
  <2> QED BY <2>1, <2>2
<1>3. /\ 1 <= i /\ i - 1 <= n /\ n <= Len(o) /\ i \in Int /\ n \in Int
      /\ (n - i) + 1 = 5 - i
  BY <1>1
<1>4. /\ SubSeq(o, i, n) \in Seq(Octet) /\ Len(SubSeq(o, i, n)) = (n - i) + 1
      /\ \A k \in 1 .. (n - i) + 1 : SubSeq(o, i, n)[k] = o[(i - 1) + k]
  BY <1>3, PieceOf
<1> QED BY <1>1, <1>2, <1>3, <1>4 DEF Octet

\* decodePreferredMaxUnits reads what encodePreferredMaxUnits wrote.
LEMMA PreferredBack ==
  ASSUME NEW u \in Nat, u # 0, Is32Bit(u)
  PROVE  /\ encodePreferredMaxUnits(u) \in Seq(Octet) /\ Len(encodePreferredMaxUnits(u)) \in 1 .. 4
         /\ decodePreferredMaxUnits(encodePreferredMaxUnits(u)) = u
<1>1. PICK o \in Seq(Octet), i \in 1 .. 4 :
           /\ Len(o) = 4 /\ encodePreferredMaxUnits(u) = SubSeq(o, i, 4)
           /\ o[i] # 0 /\ \A j \in 1 .. i - 1 : o[j] = 0
           /\ u = Num(o, 4)
  BY Shortest
<1>2. PICK v \in Seq(Octet) : v = SubSeq(o, i, 4)
  <2>1. SubSeq(o, i, 4) \in Seq(Octet)
    BY <1>1, FourPiece
  <2> QED BY <2>1
<1>3. Len(v) = 5 - i /\ \A k \in 1 .. 5 - i : v[k] = o[(i - 1) + k]
  BY <1>1, <1>2, FourPiece
<1>4. Len(v) \in 1 .. 4
  BY <1>3
<1>5. PICK a \in 0 .. 255, b \in 0 .. 255, c \in 0 .. 255, d \in 0 .. 255 :
        a = o[1] /\ b = o[2] /\ c = o[3] /\ d = o[4]
  <2>1. o[1] \in 0 .. 255 /\ o[2] \in 0 .. 255 /\ o[3] \in 0 .. 255 /\ o[4] \in 0 .. 255
    BY <1>1, FourPiece
  <2> QED BY <2>1
<1>6. u = 256 * (256 * (256 * a + b) + c) + d
  BY <1>1, <1>5 DEF Num, Num1, Num2, Num3, Num4
<1>7. BigEndian(v) = u
  <2>1. BigEndian(v) = Num(v, Len(v))
    BY <1>4, BigEndianNum
  <2>2. CASE i = 1
    <3>1. Len(v) = 4 /\ v[1] = a /\ v[2] = b /\ v[3] = c /\ v[4] = d
      BY <1>3, <1>5, <2>2
    <3> QED BY <1>6, <2>1, <3>1 DEF Num, Num1, Num2, Num3, Num4
  <2>3. CASE i = 2
    <3>1. Len(v) = 3 /\ v[1] = b /\ v[2] = c /\ v[3] = d /\ a = 0
      BY <1>1, <1>3, <1>5, <2>3
    <3>2. BigEndian(v) = 256 * (256 * b + c) + d
      BY <2>1, <3>1 DEF Num, Num1, Num2, Num3
    <3> QED BY <1>6, <3>1, <3>2
  <2>4. CASE i = 3
    <3>1. Len(v) = 2 /\ v[1] = c /\ v[2] = d /\ a = 0 /\ b = 0
      BY <1>1, <1>3, <1>5, <2>4
    <3>2. BigEndian(v) = 256 * c + d
      BY <2>1, <3>1 DEF Num, Num1, Num2
    <3> QED BY <1>6, <3>1, <3>2
  <2>5. CASE i = 4
    <3>1. Len(v) = 1 /\ v[1] = d /\ a = 0 /\ b = 0 /\ c = 0
      BY <1>1, <1>3, <1>5, <2>5
    <3>2. BigEndian(v) = d
      BY <2>1, <3>1 DEF Num, Num1
    <3> QED BY <1>6, <3>1, <3>2
  <2> QED BY <2>2, <2>3, <2>4, <2>5
<1> QED BY <1>1, <1>2, <1>4, <1>7 DEF decodePreferredMaxUnits

\* A value that was decoded is encoded in no more octets.
LEMMA PreferredShort ==
  ASSUME NEW v \in Seq(Octet), decodePreferredMaxUnits(v) # None
  PROVE  /\ Len(v) \in 1 .. 4 /\ decodePreferredMaxUnits(v) = BigEndian(v)
         /\ BigEndian(v) \in Nat /\ BigEndian(v) # 0 /\ Is32Bit(BigEndian(v))
         /\ Len(encodePreferredMaxUnits(BigEndian(v))) <= Len(v)
<1>1. Len(v) \in 1 .. 4 /\ BigEndian(v) # 0 /\ decodePreferredMaxUnits(v) = BigEndian(v)
  BY DEF decodePreferredMaxUnits
<1>2. PICK n \in 1 .. 4 : n = Len(v)
  BY <1>1
<1>3. BigEndian(v) = Num(v, n)
  BY <1>1, <1>2, BigEndianNum
<1>4. \A k \in 1 .. n : v[k] \in 0 .. 255
  <2>1. \A k \in 1 .. Len(v) : v[k] \in Octet
    BY OctetAt
  <2> QED BY <1>2, <2>1 DEF Octet
<1>5. PICK u \in Nat : /\ u = BigEndian(v) /\ u <= 4294967295 /\ (n <= 3 => u <= 16777215)
                       /\ (n <= 2 => u <= 65535) /\ (n <= 1 => u <= 255)
  <2>1. CASE n = 1
    <3>1. PICK a \in 0 .. 255 : a = v[1]
      BY <1>4, <2>1, SMT
    <3>2. BigEndian(v) = a
      BY <1>3, <2>1, <3>1, SMT DEF Num, Num1
    <3> QED BY <2>1, <3>2, SMT
  <2>2. CASE n = 2
    <3>1. PICK a \in 0 .. 255, b \in 0 .. 255 : a = v[1] /\ b = v[2]
      <4>1. v[1] \in 0 .. 255 /\ v[2] \in 0 .. 255
        BY <1>4, <2>2, SMT
      <4> QED BY <4>1
    <3>2. BigEndian(v) = 256 * a + b
      BY <1>3, <2>2, <3>1, SMT DEF Num, Num1, Num2
    <3>3. 256 * a + b \in Nat /\ 256 * a + b <= 65535
      BY SMT
    <3> QED BY <2>2, <3>2, <3>3, SMT
  <2>3. CASE n = 3
    <3>1. PICK a \in 0 .. 255, b \in 0 .. 255, c \in 0 .. 255 : a = v[1] /\ b = v[2] /\ c = v[3]
      <4>1. v[1] \in 0 .. 255 /\ v[2] \in 0 .. 255 /\ v[3] \in 0 .. 255
        BY <1>4, <2>3, SMT
      <4> QED BY <4>1
    <3>2. BigEndian(v) = 256 * (256 * a + b) + c
      BY <1>3, <2>3, <3>1, SMT DEF Num, Num1, Num2, Num3
    <3>3. 256 * (256 * a + b) + c \in Nat /\ 256 * (256 * a + b) + c <= 16777215
      BY SMT
    <3> QED BY <2>3, <3>2, <3>3, SMT
  <2>4. CASE n = 4
    <3>1. PICK a \in 0 .. 255, b \in 0 .. 255, c \in 0 .. 255, d \in 0 .. 255 :
            a = v[1] /\ b = v[2] /\ c = v[3] /\ d = v[4]
      <4>1. v[1] \in 0 .. 255 /\ v[2] \in 0 .. 255 /\ v[3] \in 0 .. 255 /\ v[4] \in 0 .. 255
        BY <1>4, <2>4, SMT
      <4> QED BY <4>1
    <3>2. BigEndian(v) = 256 * (256 * (256 * a + b) + c) + d
      BY <1>3, <2>4, <3>1, SMT DEF Num, Num1, Num2, Num3, Num4
    <3>3. 256 * (256 * (256 * a + b) + c) + d \in Nat /\ 256 * (256 * (256 * a + b) + c) + d <= 4294967295
      BY SMT
    <3> QED BY <2>4, <3>2, <3>3, SMT
  <2> QED BY <2>1, <2>2, <2>3, <2>4, SMT
<1>6. Is32Bit(u) /\ u # 0
  <2>1. Is32Bit(u)
    BY <1>5, SMT DEF Is32Bit
  <2>2. u = BigEndian(v)
    BY <1>5, SMT
  <2> QED BY <1>1, <2>1, <2>2
<1>7. PICK o \in Seq(Octet), i \in 1 .. 4 :
           /\ Len(o) = 4 /\ encodePreferredMaxUnits(u) = SubSeq(o, i, 4)
           /\ o[i] # 0 /\ \A j \in 1 .. i - 1 : o[j] = 0
           /\ u = Num(o, 4)
  BY <1>6, Shortest
<1>8. PICK a \in 0 .. 255, b \in 0 .. 255, c \in 0 .. 255, d \in 0 .. 255 :
        a = o[1] /\ b = o[2] /\ c = o[3] /\ d = o[4]
  <2>1. o[1] \in 0 .. 255 /\ o[2] \in 0 .. 255 /\ o[3] \in 0 .. 255 /\ o[4] \in 0 .. 255
    BY <1>7, FourPiece
  <2> QED BY <2>1
<1>9. u = 256 * (256 * (256 * a + b) + c) + d
  BY <1>7, <1>8 DEF Num, Num1, Num2, Num3, Num4
<1>10. (n <= 3 => a = 0) /\ (n <= 2 => b = 0) /\ (n <= 1 => c = 0)
  BY <1>5, <1>9, SMT
<1>11. 5 - i <= n
  <2>1. i = 1 => a # 0
    BY <1>7, <1>8
  <2>2. i = 2 => b # 0
    BY <1>7, <1>8
  <2>3. i = 3 => c # 0
    BY <1>7, <1>8
  <2> QED BY <1>10, <2>1, <2>2, <2>3
<1>12. Len(SubSeq(o, i, 4)) = 5 - i
  BY <1>7, FourPiece
<1>13. u = BigEndian(v)
  BY <1>5, SMT
<1> QED BY <1>1, <1>2, <1>6, <1>7, <1>11, <1>12, <1>13

-----------------------------------------------------------------------------
(* The variable part of a CR or CC, there and back                         *)

\* The parameters of the fields of a CR or CC, in the order they are encoded.
CallingSlot(t) == IF t.calling = Absent THEN <<>> ELSE <<[code |-> ParamCallingSelector, value |-> t.calling[1]]>>
CalledSlot(t) == IF t.called = Absent THEN <<>> ELSE <<[code |-> ParamCalledSelector, value |-> t.called[1]]>>
SizeSlot(t) == IF t.size = None THEN <<>> ELSE <<[code |-> ParamTPDUSize, value |-> <<t.size>>]>>
PrefSlot(t) ==
  IF t.pref = None THEN <<>>
  ELSE <<[code |-> ParamPreferredMaxTPDUSize, value |-> encodePreferredMaxUnits(t.pref)]>>
KnownList(t) == CallingSlot(t) \o CalledSlot(t) \o SizeSlot(t) \o PrefSlot(t)

\* A slot is empty or holds one parameter.
IsSlot(slot, absent, code, value) ==
  \/ absent /\ slot = <<>>
  \/ ~absent /\ \E p \in Parameters : p.code = code /\ p.value = value /\ slot = <<p>>

\* What each of the four fields of a CR or CC puts on the wire.
LEMMA Slots ==
  ASSUME NEW t \in TPDU, t.pref # 0
  PROVE  /\ IsSlot(CallingSlot(t), t.calling = Absent, ParamCallingSelector, t.calling[1])
         /\ IsSlot(CalledSlot(t), t.called = Absent, ParamCalledSelector, t.called[1])
         /\ IsSlot(SizeSlot(t), t.size = None, ParamTPDUSize, <<t.size>>)
         /\ IsSlot(PrefSlot(t), t.pref = None, ParamPreferredMaxTPDUSize, encodePreferredMaxUnits(t.pref))
         /\ t.calling # Absent => t.calling = <<t.calling[1]>>
         /\ t.called # Absent => t.called = <<t.called[1]>>
         /\ t.pref # None => t.pref \in Nat /\ Is32Bit(t.pref)
<1>1. ASSUME NEW code \in Octet, NEW value \in Seq(Octet)
      PROVE  \E p \in Parameters : p.code = code /\ p.value = value /\ <<[code |-> code, value |-> value]>> = <<p>>
  <2>1. [code |-> code, value |-> value] \in Parameters
    BY DEF Parameters, OctetString
  <2>2. PICK p \in Parameters : p = [code |-> code, value |-> value]
    BY <2>1
  <2> QED BY <2>2
<1>2. /\ ParamCallingSelector \in Octet /\ ParamCalledSelector \in Octet
      /\ ParamTPDUSize \in Octet /\ ParamPreferredMaxTPDUSize \in Octet
  BY DEF ParamCallingSelector, ParamCalledSelector, ParamTPDUSize, ParamPreferredMaxTPDUSize, Octet
<1>3. ASSUME NEW s \in Selector, s # Absent PROVE s[1] \in Seq(Octet) /\ s = <<s[1]>>
  <2>1. s \in Seq(Seq(Octet)) /\ Len(s) <= 1 /\ s # <<>>
    BY <1>3 DEF Selector, OctetString, Absent
  <2>2. PICK n \in Nat : n = Len(s) /\ n # 0
    BY <2>1, EmptySeq
  <2>3. Len(s) = 1
    <3>1. n <= 1
      BY <2>1, <2>2
    <3>2. n = 1
      BY <2>2, <3>1, SMT
    <3> QED BY <2>2, <3>2
  <2> QED BY <2>1, <2>3
<1>4. IsSlot(CallingSlot(t), t.calling = Absent, ParamCallingSelector, t.calling[1])
  <2>1. CASE t.calling = Absent
    BY <2>1 DEF IsSlot, CallingSlot
  <2>2. CASE t.calling # Absent
    <3>1. t.calling[1] \in Seq(Octet)
      BY <1>3, <2>2, TPDUFields
    <3>2. PICK p \in Parameters : p.code = ParamCallingSelector /\ p.value = t.calling[1] /\ CallingSlot(t) = <<p>>
      BY <1>1, <1>2, <2>2, <3>1 DEF CallingSlot
    <3> QED BY <2>2, <3>2 DEF IsSlot
  <2> QED BY <2>1, <2>2
<1>5. IsSlot(CalledSlot(t), t.called = Absent, ParamCalledSelector, t.called[1])
  <2>1. CASE t.called = Absent
    BY <2>1 DEF IsSlot, CalledSlot
  <2>2. CASE t.called # Absent
    <3>1. t.called[1] \in Seq(Octet)
      BY <1>3, <2>2, TPDUFields
    <3>2. PICK p \in Parameters : p.code = ParamCalledSelector /\ p.value = t.called[1] /\ CalledSlot(t) = <<p>>
      BY <1>1, <1>2, <2>2, <3>1 DEF CalledSlot
    <3> QED BY <2>2, <3>2 DEF IsSlot
  <2> QED BY <2>1, <2>2
<1>6. IsSlot(SizeSlot(t), t.size = None, ParamTPDUSize, <<t.size>>)
  <2>1. CASE t.size = None
    BY <2>1 DEF IsSlot, SizeSlot
  <2>2. CASE t.size # None
    <3>1. t.size \in Octet
      BY <2>2, TPDUNumbers
    <3>0. <<t.size>> \in Seq(Octet)
      BY <3>1
    <3>2. PICK w \in Seq(Octet) : w = <<t.size>>
      BY <3>0
    <3>3. PICK p \in Parameters : p.code = ParamTPDUSize /\ p.value = w /\ <<[code |-> ParamTPDUSize, value |-> w]>> = <<p>>
      BY <1>1, <1>2
    <3> QED BY <2>2, <3>2, <3>3 DEF IsSlot, SizeSlot
  <2> QED BY <2>1, <2>2
<1>7. t.pref # None => t.pref \in Nat /\ Is32Bit(t.pref)
  BY TPDUNumbers, TPDUPreferred, SMT DEF Is32Bit
<1>8. IsSlot(PrefSlot(t), t.pref = None, ParamPreferredMaxTPDUSize, encodePreferredMaxUnits(t.pref))
  <2>1. CASE t.pref = None
    BY <2>1 DEF IsSlot, PrefSlot
  <2>2. CASE t.pref # None
    <3>1. encodePreferredMaxUnits(t.pref) \in Seq(Octet)
      BY <1>7, <2>2, PreferredBack
    <3>2. PICK p \in Parameters : /\ p.code = ParamPreferredMaxTPDUSize /\ p.value = encodePreferredMaxUnits(t.pref)
                                  /\ PrefSlot(t) = <<p>>
      BY <1>1, <1>2, <2>2, <3>1 DEF PrefSlot
    <3> QED BY <2>2, <3>2 DEF IsSlot
  <2> QED BY <2>1, <2>2
<1> QED BY <1>3, <1>4, <1>5, <1>6, <1>7, <1>8, TPDUFields

\* A slot is a list of parameters.
LEMMA SlotTypes ==
  ASSUME NEW slot, NEW absent \in BOOLEAN, NEW code, NEW value, IsSlot(slot, absent, code, value)
  PROVE  slot \in Seq(Parameters)
<1>1. CASE slot = <<>>
  BY <1>1
<1>2. CASE \E p \in Parameters : slot = <<p>>
  BY <1>2
<1> QED BY <1>1, <1>2 DEF IsSlot

\* The slots are a list, which is what MarshalBinary encodes before the
\* unknown parameters.
LEMMA KnownTypes ==
  ASSUME NEW t \in TPDU, t.pref # 0
  PROVE  /\ CallingSlot(t) \in Seq(Parameters) /\ CalledSlot(t) \in Seq(Parameters)
         /\ SizeSlot(t) \in Seq(Parameters) /\ PrefSlot(t) \in Seq(Parameters)
         /\ KnownList(t) \in Seq(Parameters)
<1>1. /\ CallingSlot(t) \in Seq(Parameters) /\ CalledSlot(t) \in Seq(Parameters)
      /\ SizeSlot(t) \in Seq(Parameters) /\ PrefSlot(t) \in Seq(Parameters)
  <2>1. /\ (t.calling = Absent) \in BOOLEAN /\ (t.called = Absent) \in BOOLEAN
        /\ (t.size = None) \in BOOLEAN /\ (t.pref = None) \in BOOLEAN
    OBVIOUS
  <2> QED BY <2>1, Slots, SlotTypes
<1> QED BY <1>1, ListsAssociate DEF KnownList

\* encodeCRCCVariablePart encodes the slots and then the unknown parameters.
LEMMA EncodeLists ==
  ASSUME NEW t \in TPDU, t.pref # 0
  PROVE  encodeCRCCVariablePart(t) = encodeVariablePart(KnownList(t) \o Unknown(t.params))
<1>1. encodeCRCCVariablePart(t) = FoldLeft(appendUnknown, encodeVariablePart(KnownList(t)), t.params)
  BY DEF encodeCRCCVariablePart, KnownList, CallingSlot, CalledSlot, SizeSlot, PrefSlot
<1>2. t.params \in Seq(Parameters)
  BY TPDUFields DEF ParameterList
<1> QED BY <1>1, <1>2, KnownTypes, EncodeUnknown

\* It refuses a preferred maximum of zero.
LEMMA EncodeCRCC ==
  ASSUME NEW t \in TPDU, encodeCRCCVariablePart(t).err = nil
  PROVE  /\ t.pref # 0
         /\ encodeCRCCVariablePart(t) = encodeVariablePart(KnownList(t) \o Unknown(t.params))
<1>1. t.pref # 0
  BY DEF encodeCRCCVariablePart, Wire, nil
<1> QED BY <1>1, EncodeLists

\* The result of the parser for parameters of a CR or CC.
Applied(s) == FoldLeft(applyParameter, NoCRCC, s)

\* What parseCRCCVariablePart has found has its types.
LEMMA AppliedTypes ==
  ASSUME NEW s \in Seq(Parameters)
  PROVE  Applied(s) \in Found
<1>1. NoCRCC \in Found
  BY DEF NoCRCC, Found, Absent
<1> QED BY <1>1, ApplyMore DEF Applied

\* One more parameter is one more turn of its loop.
LEMMA AppliedMore ==
  ASSUME NEW s \in Seq(Parameters), NEW p \in Parameters
  PROVE  Applied(s \o <<p>>) = applyParameter(Applied(s), p)
<1>1. NoCRCC \in Found
  BY DEF NoCRCC, Found, Absent
<1> QED BY <1>1, ApplyMore DEF Applied

\* A parameter of legal length is taken.
LEMMA ApplyTakes ==
  ASSUME NEW r \in Found, r.err = nil, NEW p \in Parameters,
         p.code = ParamTPDUSize => Len(p.value) = 1,
         p.code = ParamPreferredMaxTPDUSize => decodePreferredMaxUnits(p.value) # None
  PROVE  applyParameter(r, p).err = nil
<1>1. CASE p.code = ParamCallingSelector
  BY <1>1 DEF applyParameter, Found, ParamCallingSelector
<1>2. CASE p.code = ParamCalledSelector
  BY <1>2 DEF applyParameter, Found, ParamCalledSelector, ParamCallingSelector
<1>3. CASE p.code = ParamTPDUSize
  BY <1>3 DEF applyParameter, Found, ParamCalledSelector, ParamCallingSelector, ParamTPDUSize
<1>4. CASE p.code = ParamPreferredMaxTPDUSize
  BY <1>4 DEF applyParameter, Found, ParamCalledSelector, ParamCallingSelector, ParamTPDUSize,
    ParamPreferredMaxTPDUSize
<1>5. CASE p.code \notin {ParamCallingSelector, ParamCalledSelector, ParamTPDUSize, ParamPreferredMaxTPDUSize}
  <2>1. applyParameter(r, p) = [r EXCEPT !.params = Append(@, p)]
    BY <1>5 DEF applyParameter
  <2> QED BY <2>1 DEF Found
<1> QED BY <1>1, <1>2, <1>3, <1>4, <1>5

\* The fields of a result.
Holds(r, calling, called, size, pref, params) ==
  /\ r.err = nil /\ r.calling = calling /\ r.called = called
  /\ r.size = size /\ r.pref = pref /\ r.params = params

\* The four known codes differ.
LEMMA ParamCodesApart ==
  /\ ParamCallingSelector # ParamCalledSelector /\ ParamCallingSelector # ParamTPDUSize
  /\ ParamCallingSelector # ParamPreferredMaxTPDUSize /\ ParamCalledSelector # ParamTPDUSize
  /\ ParamCalledSelector # ParamPreferredMaxTPDUSize /\ ParamTPDUSize # ParamPreferredMaxTPDUSize
  /\ ParamCallingSelector \in KnownParams /\ ParamCalledSelector \in KnownParams
  /\ ParamTPDUSize \in KnownParams /\ ParamPreferredMaxTPDUSize \in KnownParams
  BY DEF ParamCallingSelector, ParamCalledSelector, ParamTPDUSize, ParamPreferredMaxTPDUSize, KnownParams

\* One parameter more, known or unknown.
LEMMA AppliedOne ==
  ASSUME NEW s \in Seq(Parameters), NEW p \in Parameters,
         NEW calling, NEW called, NEW size, NEW pref, NEW params,
         Holds(Applied(s), calling, called, size, pref, params),
         p.code = ParamTPDUSize => Len(p.value) = 1,
         p.code = ParamPreferredMaxTPDUSize => decodePreferredMaxUnits(p.value) # None
  PROVE  Holds(Applied(s \o <<p>>),
           IF p.code = ParamCallingSelector THEN <<p.value>> ELSE calling,
           IF p.code = ParamCalledSelector THEN <<p.value>> ELSE called,
           IF p.code = ParamTPDUSize THEN p.value[1] ELSE size,
           IF p.code = ParamPreferredMaxTPDUSize THEN BigEndian(p.value) ELSE pref,
           KeepUnknown(params, p))
<1>1. PICK r \in Found : r = Applied(s)
  BY AppliedTypes
<1>2. r.err = nil
  BY <1>1 DEF Holds
<1>3. applyParameter(r, p).err = nil
  BY <1>2, ApplyTakes
<1>4. Applied(s \o <<p>>) = applyParameter(r, p)
  BY <1>1, AppliedMore
<1>5. PICK n : n = applyParameter(r, p)
  OBVIOUS
<1>6. /\ n.calling = IF p.code = ParamCallingSelector THEN <<p.value>> ELSE r.calling
      /\ n.called = IF p.code = ParamCalledSelector THEN <<p.value>> ELSE r.called
      /\ n.size = IF p.code = ParamTPDUSize THEN p.value[1] ELSE r.size
      /\ n.pref = IF p.code = ParamPreferredMaxTPDUSize THEN BigEndian(p.value) ELSE r.pref
      /\ n.params = KeepUnknown(r.params, p)
  BY <1>3, <1>5, ApplyStep
<1>7. /\ r.calling = calling /\ r.called = called /\ r.size = size /\ r.pref = pref /\ r.params = params
  BY <1>1 DEF Holds
<1>8. Applied(s \o <<p>>) = n /\ n.err = nil
  BY <1>3, <1>4, <1>5
<1> QED BY <1>6, <1>7, <1>8 DEF Holds

\* The fields of a CR or CC, one slot after the other.
LEMMA CallingApplied ==
  ASSUME NEW t \in TPDU, t.pref # 0, NEW s \in Seq(Parameters), NEW called, NEW size, NEW pref, NEW params,
         Holds(Applied(s), Absent, called, size, pref, params)
  PROVE  Holds(Applied(s \o CallingSlot(t)), t.calling, called, size, pref, params)
<1>1. CASE t.calling = Absent
  <2>1. CallingSlot(t) = <<>> /\ s \o <<>> = s
    BY <1>1, NoList DEF CallingSlot
  <2> QED BY <1>1, <2>1
<1>2. CASE ~(t.calling = Absent)
  <2>1. PICK p \in Parameters : p.code = ParamCallingSelector /\ p.value = t.calling[1] /\ CallingSlot(t) = <<p>>
    BY <1>2, Slots DEF IsSlot
  <2>2. <<p.value>> = t.calling
    BY <1>2, <2>1, Slots
  <2>3. KeepUnknown(params, p) = params
    BY <2>1, ParamCodesApart DEF KeepUnknown
  <2>4. Holds(Applied(s \o <<p>>),
          IF p.code = ParamCallingSelector THEN <<p.value>> ELSE Absent,
          IF p.code = ParamCalledSelector THEN <<p.value>> ELSE called,
          IF p.code = ParamTPDUSize THEN p.value[1] ELSE size,
          IF p.code = ParamPreferredMaxTPDUSize THEN BigEndian(p.value) ELSE pref,
          KeepUnknown(params, p))
    BY <2>1, <2>2, ParamCodesApart, AppliedOne
  <2> QED BY <2>1, <2>2, <2>3, <2>4, ParamCodesApart
<1> QED BY <1>1, <1>2

\* The same for the called selector.
LEMMA CalledApplied ==
  ASSUME NEW t \in TPDU, t.pref # 0, NEW s \in Seq(Parameters), NEW calling, NEW size, NEW pref, NEW params,
         Holds(Applied(s), calling, Absent, size, pref, params)
  PROVE  Holds(Applied(s \o CalledSlot(t)), calling, t.called, size, pref, params)
<1>1. CASE t.called = Absent
  <2>1. CalledSlot(t) = <<>> /\ s \o <<>> = s
    BY <1>1, NoList DEF CalledSlot
  <2> QED BY <1>1, <2>1
<1>2. CASE ~(t.called = Absent)
  <2>1. PICK p \in Parameters : p.code = ParamCalledSelector /\ p.value = t.called[1] /\ CalledSlot(t) = <<p>>
    BY <1>2, Slots DEF IsSlot
  <2>2. <<p.value>> = t.called
    BY <1>2, <2>1, Slots
  <2>3. KeepUnknown(params, p) = params
    BY <2>1, ParamCodesApart DEF KeepUnknown
  <2>4. Holds(Applied(s \o <<p>>),
          IF p.code = ParamCallingSelector THEN <<p.value>> ELSE calling,
          IF p.code = ParamCalledSelector THEN <<p.value>> ELSE Absent,
          IF p.code = ParamTPDUSize THEN p.value[1] ELSE size,
          IF p.code = ParamPreferredMaxTPDUSize THEN BigEndian(p.value) ELSE pref,
          KeepUnknown(params, p))
    BY <2>1, <2>2, ParamCodesApart, AppliedOne
  <2> QED BY <2>1, <2>2, <2>3, <2>4, ParamCodesApart
<1> QED BY <1>1, <1>2

\* The same for the TPDU size.
LEMMA SizeApplied ==
  ASSUME NEW t \in TPDU, t.pref # 0, NEW s \in Seq(Parameters), NEW calling, NEW called, NEW pref, NEW params,
         Holds(Applied(s), calling, called, None, pref, params)
  PROVE  Holds(Applied(s \o SizeSlot(t)), calling, called, t.size, pref, params)
<1>1. CASE t.size = None
  <2>1. SizeSlot(t) = <<>> /\ s \o <<>> = s
    BY <1>1, NoList DEF SizeSlot
  <2> QED BY <1>1, <2>1
<1>2. CASE ~(t.size = None)
  <2>1. PICK p \in Parameters : p.code = ParamTPDUSize /\ p.value = <<t.size>> /\ SizeSlot(t) = <<p>>
    BY <1>2, Slots DEF IsSlot
  <2>2. p.value[1] = t.size /\ Len(p.value) = 1
    BY <2>1
  <2>3. KeepUnknown(params, p) = params
    BY <2>1, ParamCodesApart DEF KeepUnknown
  <2>4. Holds(Applied(s \o <<p>>),
          IF p.code = ParamCallingSelector THEN <<p.value>> ELSE calling,
          IF p.code = ParamCalledSelector THEN <<p.value>> ELSE called,
          IF p.code = ParamTPDUSize THEN p.value[1] ELSE None,
          IF p.code = ParamPreferredMaxTPDUSize THEN BigEndian(p.value) ELSE pref,
          KeepUnknown(params, p))
    BY <2>1, <2>2, ParamCodesApart, AppliedOne
  <2> QED BY <2>1, <2>2, <2>3, <2>4, ParamCodesApart
<1> QED BY <1>1, <1>2

\* The same for the preferred maximum.
LEMMA PrefApplied ==
  ASSUME NEW t \in TPDU, t.pref # 0, NEW s \in Seq(Parameters), NEW calling, NEW called, NEW size, NEW params,
         Holds(Applied(s), calling, called, size, None, params)
  PROVE  Holds(Applied(s \o PrefSlot(t)), calling, called, size, t.pref, params)
<1>1. CASE t.pref = None
  <2>1. PrefSlot(t) = <<>> /\ s \o <<>> = s
    BY <1>1, NoList DEF PrefSlot
  <2> QED BY <1>1, <2>1
<1>2. CASE ~(t.pref = None)
  <2>1. PICK p \in Parameters : p.code = ParamPreferredMaxTPDUSize /\ p.value = encodePreferredMaxUnits(t.pref) /\ PrefSlot(t) = <<p>>
    BY <1>2, Slots DEF IsSlot
  <2>2. /\ BigEndian(p.value) = t.pref
        /\ decodePreferredMaxUnits(p.value) # None
    <3>1. t.pref \in Nat /\ Is32Bit(t.pref)
      BY <1>2, Slots
    <3>2. decodePreferredMaxUnits(encodePreferredMaxUnits(t.pref)) = t.pref
      BY <3>1, PreferredBack
    <3>3. decodePreferredMaxUnits(p.value) = t.pref
      BY <2>1, <3>2
    <3>4. decodePreferredMaxUnits(p.value) # None
      BY <1>2, <3>3
    <3> QED BY <3>3, <3>4 DEF decodePreferredMaxUnits
  <2>3. KeepUnknown(params, p) = params
    BY <2>1, ParamCodesApart DEF KeepUnknown
  <2>4. Holds(Applied(s \o <<p>>),
          IF p.code = ParamCallingSelector THEN <<p.value>> ELSE calling,
          IF p.code = ParamCalledSelector THEN <<p.value>> ELSE called,
          IF p.code = ParamTPDUSize THEN p.value[1] ELSE size,
          IF p.code = ParamPreferredMaxTPDUSize THEN BigEndian(p.value) ELSE None,
          KeepUnknown(params, p))
    BY <2>1, <2>2, ParamCodesApart, AppliedOne
  <2> QED BY <2>1, <2>2, <2>3, <2>4, ParamCodesApart
<1> QED BY <1>1, <1>2

\* All four slots fill their fields, and leave no unknown parameter.
LEMMA KnownApplied ==
  ASSUME NEW t \in TPDU, t.pref # 0
  PROVE  Holds(Applied(KnownList(t)), t.calling, t.called, t.size, t.pref, <<>>)
<1>1. Holds(Applied(<<>>), Absent, Absent, None, None, <<>>)
  <2>1. NoCRCC \in Found
    BY DEF NoCRCC, Found, Absent
  <2>2. Applied(<<>>) = NoCRCC
    BY <2>1, ApplyMore DEF Applied
  <2> QED BY <2>2 DEF Holds, NoCRCC
<1>2. <<>> \o CallingSlot(t) = CallingSlot(t) /\ <<>> \in Seq(Parameters)
  BY KnownTypes, NoList
<1>3. Holds(Applied(CallingSlot(t)), t.calling, Absent, None, None, <<>>)
  <2>1. Holds(Applied(<<>> \o CallingSlot(t)), t.calling, Absent, None, None, <<>>)
    BY <1>1, <1>2, CallingApplied
  <2> QED BY <1>2, <2>1
<1>4. /\ CallingSlot(t) \in Seq(Parameters) /\ CallingSlot(t) \o CalledSlot(t) \in Seq(Parameters)
      /\ CallingSlot(t) \o CalledSlot(t) \o SizeSlot(t) \in Seq(Parameters)
  BY KnownTypes, ListsAssociate
<1>5. Holds(Applied(CallingSlot(t) \o CalledSlot(t)), t.calling, t.called, None, None, <<>>)
  BY <1>3, <1>4, CalledApplied
<1>6. Holds(Applied(CallingSlot(t) \o CalledSlot(t) \o SizeSlot(t)), t.calling, t.called, t.size, None, <<>>)
  BY <1>4, <1>5, SizeApplied
<1>7. Holds(Applied(CallingSlot(t) \o CalledSlot(t) \o SizeSlot(t) \o PrefSlot(t)),
        t.calling, t.called, t.size, t.pref, <<>>)
  BY <1>4, <1>6, PrefApplied
<1> QED BY <1>7 DEF KnownList

\* The unknown parameters behind them are kept and change nothing else.
LEMMA UnknownApplied ==
  ASSUME NEW known \in Seq(Parameters), NEW calling, NEW called, NEW size, NEW pref,
         Holds(Applied(known), calling, called, size, pref, <<>>)
  PROVE  \A s \in Seq(Parameters) : Holds(Applied(known \o Unknown(s)), calling, called, size, pref, Unknown(s))
<1> DEFINE T == {s \in Seq(Parameters) : Holds(Applied(known \o Unknown(s)), calling, called, size, pref, Unknown(s))}
<1>1. <<>> \in T
  <2>1. Unknown(<<>>) = <<>> /\ known \o <<>> = known /\ <<>> \in Seq(Parameters)
    BY UnknownStep, NoList
  <2> QED BY <2>1
<1>2. ASSUME NEW s \in Seq(Parameters), NEW p \in Parameters, s \in T PROVE s \o <<p>> \in T
  <2>1. s \o <<p>> \in Seq(Parameters)
    BY OneMore
  <2>2. CASE p.code \in KnownParams
    <3>1. Unknown(s \o <<p>>) = Unknown(s)
      BY <2>2, UnknownStep
    <3> QED BY <1>2, <2>1, <3>1
  <2>3. CASE p.code \notin KnownParams
    <3>1. Unknown(s \o <<p>>) = Unknown(s) \o <<p>>
      BY <2>3, UnknownStep
    <3>2. PICK u \in Seq(Parameters) : u = Unknown(s)
      BY UnknownStep
    <3>3. PICK x \in Seq(Parameters) : x = known \o u
      BY ListsAssociate
    <3>4. known \o (u \o <<p>>) = x \o <<p>>
      <4>1. <<p>> \in Seq(Parameters)
        OBVIOUS
      <4> QED BY <3>3, <4>1, ListsAssociate
    <3>5. Holds(Applied(x), calling, called, size, pref, u)
      BY <1>2, <3>2, <3>3
    <3>6. /\ p.code # ParamCallingSelector /\ p.code # ParamCalledSelector
          /\ p.code # ParamTPDUSize /\ p.code # ParamPreferredMaxTPDUSize
      BY <2>3, ParamCodesApart
    <3>7. Holds(Applied(x \o <<p>>),
            IF p.code = ParamCallingSelector THEN <<p.value>> ELSE calling,
            IF p.code = ParamCalledSelector THEN <<p.value>> ELSE called,
            IF p.code = ParamTPDUSize THEN p.value[1] ELSE size,
            IF p.code = ParamPreferredMaxTPDUSize THEN BigEndian(p.value) ELSE pref,
            KeepUnknown(u, p))
      BY <3>5, <3>6, AppliedOne
    <3>8. KeepUnknown(u, p) = u \o <<p>>
      BY <2>3, OneMore DEF KeepUnknown
    <3>9. Holds(Applied(x \o <<p>>), calling, called, size, pref, u \o <<p>>)
      BY <3>6, <3>7, <3>8
    <3> QED BY <2>1, <3>1, <3>2, <3>4, <3>9
  <2> QED BY <2>2, <2>3
<1> HIDE DEF T
<1>3. \A s \in Seq(Parameters) : s \in T
  BY <1>1, <1>2, ListInduction
<1> QED BY <1>3 DEF T

\* What was encoded is parsed back.
LEMMA CRCCBack ==
  ASSUME NEW t \in TPDU, encodeCRCCVariablePart(t).err = nil
  PROVE  /\ encodeCRCCVariablePart(t).octets \in Seq(Octet)
         /\ Holds(parseCRCCVariablePart(encodeCRCCVariablePart(t).octets),
                  t.calling, t.called, t.size, t.pref, Unknown(t.params))
<1>1. /\ t.pref # 0
      /\ encodeCRCCVariablePart(t) = encodeVariablePart(KnownList(t) \o Unknown(t.params))
  BY EncodeCRCC
<1>2. KnownList(t) \in Seq(Parameters) /\ t.params \in Seq(Parameters) /\ Unknown(t.params) \in Seq(Parameters)
  BY <1>1, KnownTypes, UnknownStep, TPDUFields DEF ParameterList
<1>3. PICK ps \in Seq(Parameters) : ps = KnownList(t) \o Unknown(t.params)
  BY <1>2, ListsAssociate
<1>4. encodeVariablePart(ps).err = nil
  BY <1>1, <1>3
<1>5. /\ encodeVariablePart(ps).octets \in Seq(Octet)
      /\ scan(encodeVariablePart(ps).octets) = [err |-> nil, params |-> ps]
  BY <1>4, EncodedFit, ScanEncode
<1>6. PICK v \in Seq(Octet) : v = encodeVariablePart(ps).octets
  BY <1>5
<1>7. scan(v).err = nil /\ scan(v).params = ps
  BY <1>5, <1>6
<1>8. Holds(Applied(ps), t.calling, t.called, t.size, t.pref, Unknown(t.params))
  BY <1>1, <1>2, <1>3, KnownApplied, UnknownApplied
<1>9. PICK r \in Found : r = Applied(ps)
  BY AppliedTypes
<1>10. parseCRCCVariablePart(v) = [r EXCEPT !.err = Then(@, nil)]
  BY <1>7, <1>9 DEF parseCRCCVariablePart, Applied
<1>11. r.err = nil
  BY <1>8, <1>9 DEF Holds
<1>12. Holds(parseCRCCVariablePart(v), t.calling, t.called, t.size, t.pref, Unknown(t.params))
  <2>1. Then(r.err, nil) = nil
    BY <1>11 DEF Then
  <2>2. PICK x : x = parseCRCCVariablePart(v)
    OBVIOUS
  <2>3. /\ x.err = nil /\ x.calling = r.calling /\ x.called = r.called
        /\ x.size = r.size /\ x.pref = r.pref /\ x.params = r.params
    BY <1>10, <2>1, <2>2 DEF Found
  <2> QED BY <1>8, <1>9, <2>2, <2>3 DEF Holds
<1> QED BY <1>1, <1>3, <1>5, <1>6, <1>12

-----------------------------------------------------------------------------
(* Decoding undoes marshalling                                             *)

\* Two sequences after each other: where the octets of either are.
LEMMA Joined ==
  ASSUME NEW x \in Seq(Octet), NEW y \in Seq(Octet)
  PROVE  /\ x \o y \in Seq(Octet) /\ Len(x \o y) = Len(x) + Len(y)
         /\ \A i \in 1 .. Len(x) : (x \o y)[i] = x[i]
         /\ \A i \in 1 .. Len(y) : (x \o y)[Len(x) + i] = y[i]
  OBVIOUS

\* A part of the first of two joined buffers.
LEMMA FirstPiece ==
  ASSUME NEW u \in Seq(Octet), NEW w \in Seq(Octet), NEW i \in Int, NEW j \in Int,
         1 <= i, i - 1 <= j, j <= Len(u)
  PROVE  SubSeq(u \o w, i, j) = SubSeq(u, i, j)
<1>1. PICK n \in Nat, m \in Nat : n = Len(u) /\ m = Len(w)
  OBVIOUS
<1>2. PICK v \in Seq(Octet) : v = u \o w
  <2>1. u \o w \in Seq(Octet)
    OBVIOUS
  <2> QED BY <2>1
<1>3. Len(v) = n + m /\ \A k \in 1 .. n : v[k] = u[k]
  BY <1>1, <1>2
<1>4. j <= n
  BY <1>1
<1> DEFINE x == SubSeq(v, i, j)
           y == SubSeq(u, i, j)
<1>5. x \in Seq(Octet) /\ Len(x) = (j - i) + 1 /\ \A k \in 1 .. (j - i) + 1 : x[k] = v[(i - 1) + k]
  <2>1. j <= Len(v)
    BY <1>3, <1>4
  <2> QED BY <2>1, PieceOf
<1>6. y \in Seq(Octet) /\ Len(y) = (j - i) + 1 /\ \A k \in 1 .. (j - i) + 1 : y[k] = u[(i - 1) + k]
  BY PieceOf
<1>7. \A k \in 1 .. (j - i) + 1 : (i - 1) + k \in 1 .. n
  BY <1>4
<1> HIDE DEF x, y
<1>8. \A k \in 1 .. (j - i) + 1 : x[k] = y[k]
  BY <1>3, <1>5, <1>6, <1>7
<1>9. x = y
  BY <1>5, <1>6, <1>8, SeqEqual
<1> QED BY <1>2, <1>9 DEF x, y

\* The second of two joined buffers.
LEMMA SecondPiece ==
  ASSUME NEW u \in Seq(Octet), NEW w \in Seq(Octet)
  PROVE  SubSeq(u \o w, Len(u) + 1, Len(u) + Len(w)) = w
<1>1. PICK k \in Nat : k = Len(w)
  OBVIOUS
<1>2. 1 <= 1 /\ 1 - 1 <= k /\ k <= Len(w)
  BY <1>1
<1>3. SubSeq(u \o w, Len(u) + 1, Len(u) + k) = SubSeq(w, 1, k)
  BY <1>2, ShiftedPiece
<1>4. SubSeq(w, 1, k) = w
  BY <1>1, SubSeqFull
<1> QED BY <1>1, <1>3, <1>4

\* Octets laid out as LI, fixed and variable part and user data.
Laid(b, fixed, v, data, n, li) ==
  /\ b \in Seq(Octet) /\ b[1] = li /\ li \in n .. 254 /\ li = n + Len(v)
  /\ Len(b) = (1 + li) + Len(data)
  /\ \A i \in 1 .. n : b[1 + i] = fixed[i]
  /\ SubSeq(b, 2 + n, 1 + li) = v
  /\ SubSeq(b, (1 + li) + 1, Len(b)) = data

\* Where assemble puts the parts of a TPDU.
LEMMA AssembleLays ==
  ASSUME NEW fixed \in Seq(Octet), NEW n \in 1 .. 6, Len(fixed) = n, NEW var \in Wires, NEW data \in Seq(Octet),
         assemble(fixed, var, data).err = nil
  PROVE  /\ var.err = nil /\ var.octets \in Seq(Octet)
         /\ \E li \in Nat : Laid(assemble(fixed, var, data).octets, fixed, var.octets, data, n, li)
<1>1. PICK v \in Seq(Octet) : v = var.octets
  BY DEF Wires
<1>2. PICK li \in Nat, m \in Nat : m = Len(v) /\ li = n + m
  <2>1. Len(v) \in Nat /\ n + Len(v) \in Nat
    OBVIOUS
  <2> QED BY <2>1
<1>3. assemble(fixed, var, data) = IF var.err # nil THEN var
        ELSE IF li > MaxLI THEN Wire("ErrInvalidLI", <<>>) ELSE Wire(nil, <<li>> \o fixed \o v \o data)
  BY <1>1, <1>2 DEF assemble
<1>4. \A e, o : Wire(e, o).err = e /\ Wire(e, o).octets = o
  BY DEF Wire
<1>5. var.err = nil /\ ~(li > 254)
  BY <1>3, <1>4 DEF nil, MaxLI
<1>6. PICK h \in Seq(Octet) : h = <<li>> \o fixed /\ Len(h) = 1 + n /\ h[1] = li /\ \A i \in 1 .. n : h[1 + i] = fixed[i]
  <2>1. li \in Octet
    <3>1. ~(li > 254)
      BY <1>5
    <3> QED BY <3>1, SMT DEF Octet
  <2>2. PICK o \in Seq(Octet) : o = <<li>>
    <3>1. <<li>> \in Seq(Octet)
      BY <2>1
    <3> QED BY <3>1
  <2>3. Len(o) = 1 /\ o[1] = li
    BY <2>2
  <2>4. PICK x \in Seq(Octet) : x = o \o fixed
    BY Joined
  <2>5. Len(x) = 1 + n /\ x[1] = li /\ \A i \in 1 .. n : x[1 + i] = fixed[i]
    <3>1. /\ Len(o \o fixed) = Len(o) + Len(fixed)
          /\ \A i \in 1 .. Len(o) : (o \o fixed)[i] = o[i]
          /\ \A i \in 1 .. Len(fixed) : (o \o fixed)[Len(o) + i] = fixed[i]
      BY Joined
    <3> QED BY <2>3, <2>4, <3>1
  <2> QED BY <2>2, <2>4, <2>5
<1>7. PICK g \in Seq(Octet) : g = h \o v /\ Len(g) = 1 + li /\ (\A i \in 1 .. 1 + n : g[i] = h[i]) /\ SubSeq(g, 2 + n, 1 + li) = v
  <2>1. PICK x \in Seq(Octet) : x = h \o v
    BY Joined
  <2>2. Len(x) = 1 + li /\ \A i \in 1 .. 1 + n : x[i] = h[i]
    <3>1. Len(x) = (1 + n) + m
      BY <1>2, <1>6, <2>1, Joined
    <3>2. (1 + n) + m = 1 + li
      BY <1>2
    <3> QED BY <1>6, <2>1, <3>1, <3>2, Joined
  <2>3. SubSeq(x, 2 + n, 1 + li) = v
    <3>1. 2 + n = Len(h) + 1 /\ 1 + li = Len(h) + Len(v)
      BY <1>2, <1>6
    <3>2. SubSeq(h \o v, Len(h) + 1, Len(h) + Len(v)) = v
      BY SecondPiece
    <3> QED BY <2>1, <3>1, <3>2
  <2> QED BY <2>1, <2>2, <2>3
<1>8. PICK d \in Nat : d = Len(data)
  OBVIOUS
<1>9. PICK b \in Seq(Octet) : b = g \o data
  BY Joined
<1>10. Len(b) = (1 + li) + d /\ \A i \in 1 .. 1 + li : b[i] = g[i]
  <2>1. Len(g \o data) = Len(g) + Len(data) /\ \A i \in 1 .. Len(g) : (g \o data)[i] = g[i]
    BY Joined
  <2> QED BY <1>7, <1>8, <1>9, <2>1
<1>11. b[1] = li /\ \A i \in 1 .. n : b[1 + i] = fixed[i]
  <2>1. 1 \in 1 .. 1 + n /\ 1 \in 1 .. 1 + li
    BY <1>2
  <2>2. \A i \in 1 .. n : 1 + i \in 1 .. 1 + n /\ 1 + i \in 1 .. 1 + li
    BY <1>2
  <2> QED BY <1>6, <1>7, <1>10, <2>1, <2>2
<1>12. SubSeq(b, 2 + n, 1 + li) = v
  <2>1. 1 <= 2 + n /\ (2 + n) - 1 <= 1 + li /\ 1 + li <= Len(g) /\ 2 + n \in Int /\ 1 + li \in Int
    BY <1>2, <1>7
  <2> QED BY <1>7, <1>9, <2>1, FirstPiece
<1>13. SubSeq(b, (1 + li) + 1, Len(b)) = data
  <2>1. (1 + li) + 1 = Len(g) + 1 /\ Len(b) = Len(g) + Len(data)
    BY <1>7, <1>8, <1>10
  <2>2. SubSeq(g \o data, Len(g) + 1, Len(g) + Len(data)) = data
    BY SecondPiece
  <2> QED BY <1>9, <2>1, <2>2
<1>14. assemble(fixed, var, data).octets = b
  <2>1. ~(li > MaxLI)
    BY <1>5 DEF MaxLI
  <2>2. assemble(fixed, var, data) = Wire(nil, <<li>> \o fixed \o v \o data)
    BY <1>3, <1>5, <2>1
  <2>3. <<li>> \o fixed \o v \o data = b
    BY <1>6, <1>7, <1>9
  <2> QED BY <1>4, <2>2, <2>3
<1>15. li \in n .. 254
  BY <1>2, <1>5
<1>16. Laid(b, fixed, v, data, n, li)
  BY <1>2, <1>8, <1>10, <1>11, <1>12, <1>13, <1>15 DEF Laid
<1> QED BY <1>1, <1>5, <1>14, <1>16

\* What the header of octets laid out so tells a decoder.
HeaderTells(b, v, data, n, li) ==
  /\ b \in Seq(Octet) /\ Len(b) \in Nat /\ ~(Len(b) < 1 + n) /\ ~(Len(b) < HeaderLength(b))
  /\ b[1] = li /\ li \in n .. 254 /\ ReadLI(b) = nil /\ HeaderLength(b) = 1 + li
  /\ SubSeq(b, 2 + n, HeaderLength(b)) = v /\ userData(b) = data

\* What a decoder finds in such octets: LI, variable part and user data.
LEMMA LaidHeader ==
  ASSUME NEW b, NEW fixed, NEW v, NEW data \in Seq(Octet), NEW n \in 1 .. 6, NEW li \in Nat,
         Laid(b, fixed, v, data, n, li)
  PROVE  HeaderTells(b, v, data, n, li)
<1>1. /\ b \in Seq(Octet) /\ b[1] = li /\ li \in n .. 254 /\ Len(b) = (1 + li) + Len(data)
      /\ SubSeq(b, 2 + n, 1 + li) = v /\ SubSeq(b, (1 + li) + 1, Len(b)) = data
  BY DEF Laid
<1>2. HeaderLength(b) = 1 + li
  BY <1>1 DEF HeaderLength
<1>3. PICK d \in Nat, len \in Nat : d = Len(data) /\ len = Len(b) /\ len = (1 + li) + d
  <2>1. Len(data) \in Nat /\ Len(b) \in Nat
    BY <1>1
  <2> QED BY <1>1, <2>1
<1>4. ~(len < 1) /\ ~(len < 1 + n) /\ ~(len < 1 + li) /\ ~(li > 254)
  BY <1>1, <1>3
<1>5. ReadLI(b) = nil
  BY <1>1, <1>3, <1>4 DEF ReadLI, MaxLI
<1> QED BY <1>1, <1>2, <1>3, <1>4, <1>5 DEF userData, HeaderTells

\* A number of two octets is read back.
LEMMA Uint16Back ==
  ASSUME NEW u \in Uint16s
  PROVE  /\ Octets(u) \in Seq(Octet) /\ Len(Octets(u)) = 2
         /\ 256 * Octets(u)[1] + Octets(u)[2] = u
<1>1. Octets(u)[1] = u \div 256 /\ Octets(u)[2] = u % 256
  BY DEF Octets
<1>2. u \in Nat
  BY DEF Uint16s
<1>3. 256 * (u \div 256) + (u % 256) = u
  BY <1>2, SMT
<1> QED BY <1>1, <1>3, OctetsTypes

\* So are TPDU-NR and EOT, and the code with the credit.
NrOctet(t) == (t.nr % 128) + (IF t.eot THEN 128 ELSE 0)
CodeOctet(t) == TPDUType[t.type] + (IF t.type \in HasCDT THEN t.cdt % 16 ELSE 0)

\* TPDU-NR and EOT are read from the octet they were written into.
LEMMA NrBack ==
  ASSUME NEW m \in 0 .. 127, NEW eot \in BOOLEAN, NEW o, o = m + (IF eot THEN 128 ELSE 0)
  PROVE  o \in Octet /\ o % 128 = m /\ (o >= 128 <=> eot)
<1>1. CASE eot
  <2>1. o = m + 128
    BY <1>1
  <2>2. o \in 0 .. 255 /\ o % 128 = m /\ o >= 128
    BY <2>1, SMT
  <2> QED BY <1>1, <2>2 DEF Octet
<1>2. CASE ~eot
  <2>1. o = m + 0
    BY <1>2
  <2>2. o \in 0 .. 255 /\ o % 128 = m /\ ~(o >= 128)
    BY <2>1, SMT
  <2> QED BY <1>2, <2>2 DEF Octet
<1> QED BY <1>1, <1>2

\* The code octet is one of the type, with the credit in its low bits.
LEMMA CodeBack ==
  ASSUME NEW t \in TPDU, t.type # "DT"
  PROVE  /\ CodeOctet(t) \in Octet /\ HasCode(t.type, CodeOctet(t))
         /\ t.type \in HasCDT => CodeOctet(t) % 16 = t.cdt % 16
<1>1. t.type \in {"CR", "CC", "DR", "DC", "ER", "ED", "AK", "EA", "RJ"}
  BY TPDUFields, TypeTable
<1>2. CASE t.type \in {"DR", "DC", "ER", "ED", "EA"}
  <2>1. PICK c \in 16 .. 192 : c = TPDUType[t.type] /\ HasCode(t.type, c)
    <3>1. TPDUType[t.type] \in 16 .. 192
      BY <1>2, SMT DEF TPDUType
    <3>2. HasCode(t.type, TPDUType[t.type])
      BY <1>2, CodeTable, SMT DEF TPDUType
    <3> QED BY <3>1, <3>2
  <2>2. t.type \notin HasCDT
    BY <1>2 DEF HasCDT
  <2>3. CodeOctet(t) = c
    <3>1. CodeOctet(t) = c + 0
      BY <2>1, <2>2 DEF CodeOctet
    <3> QED BY <3>1
  <2>4. c \in Octet
    BY DEF Octet
  <2> QED BY <2>1, <2>2, <2>3, <2>4
<1>3. CASE t.type \in {"CR", "CC", "AK", "RJ"}
  <2>1. t.type \in HasCDT
    BY <1>3 DEF HasCDT
  <2>2. PICK m \in 0 .. 15 : m = t.cdt % 16
    <3>1. t.cdt \in Octet
      BY <2>1, TPDUNumbers, TPDURequired
    <3>2. t.cdt % 16 \in 0 .. 15
      BY <3>1 DEF Octet
    <3> QED BY <3>2
  <2>3. CodeOctet(t) = TPDUType[t.type] + m
    BY <2>1, <2>2 DEF CodeOctet
  <2>4. ASSUME NEW c \in {224, 208, 96, 80} PROVE c + m \in c .. c + 15 /\ c + m \in Octet /\ (c + m) % 16 = m
    BY SMT DEF Octet
  <2>5. CASE t.type = "CR"
    <3>1. TPDUType[t.type] = 224 /\ 224 + 15 = 239
      BY <2>5, SMT DEF TPDUType
    <3> QED BY <2>2, <2>3, <2>4, <2>5, <3>1, CodeTable
  <2>6. CASE t.type = "CC"
    <3>1. TPDUType[t.type] = 208 /\ 208 + 15 = 223
      BY <2>6, SMT DEF TPDUType
    <3> QED BY <2>2, <2>3, <2>4, <2>6, <3>1, CodeTable
  <2>7. CASE t.type = "AK"
    <3>1. TPDUType[t.type] = 96 /\ 96 + 15 = 111
      BY <2>7, SMT DEF TPDUType
    <3> QED BY <2>2, <2>3, <2>4, <2>7, <3>1, CodeTable
  <2>8. CASE t.type = "RJ"
    <3>1. TPDUType[t.type] = 80 /\ 80 + 15 = 95
      BY <2>8, SMT DEF TPDUType
    <3> QED BY <2>2, <2>3, <2>4, <2>8, <3>1, CodeTable
  <2> QED BY <1>3, <2>5, <2>6, <2>7, <2>8
<1> QED BY <1>1, <1>2, <1>3

\* The octets of a fixed part.
FixedShape(f, t) ==
  LET last == f[FixedPartLength[t.type]] IN
  /\ f \in Seq(Octet) /\ Len(f) = FixedPartLength[t.type] /\ f[1] = CodeOctet(t)
  /\ 256 * f[2] + f[3] = t.dst
  /\ t.type \in HasSource => 256 * f[4] + f[5] = t.src
  /\ t.type \in HasOption => last = t.opt
  /\ t.type = "ED" => last = NrOctet(t)

\* The octets of the fixed part hold the fields of the TPDU.
LEMMA FixedRead ==
  ASSUME NEW t \in TPDU, t.type # "DT", t.dst # None, t.type = "ED" => t.nr # None
  PROVE  FixedShape(fixedPart(t), t)
<1> DEFINE src == IF t.type \in HasSource THEN Octets(t.src) ELSE <<>>
           last == IF t.type \in HasOption THEN <<t.opt>> ELSE IF t.type = "ED" THEN <<NrOctet(t)>> ELSE <<>>
<1>1. fixedPart(t) = <<CodeOctet(t)>> \o Octets(t.dst) \o src \o last
  BY DEF fixedPart, CodeOctet, NrOctet
<1>2. PICK d \in Seq(Octet) : d = Octets(t.dst) /\ Len(d) = 2 /\ 256 * d[1] + d[2] = t.dst
  <2>1. t.dst \in Uint16s
    BY TPDUNumbers
  <2> QED BY <2>1, Uint16Back
<1>3. PICK h \in Seq(Octet) : h = <<CodeOctet(t)>> /\ Len(h) = 1 /\ h[1] = CodeOctet(t)
  <2>1. CodeOctet(t) \in Octet
    BY CodeBack
  <2>2. <<CodeOctet(t)>> \in Seq(Octet) /\ Len(<<CodeOctet(t)>>) = 1 /\ <<CodeOctet(t)>>[1] = CodeOctet(t)
    BY <2>1
  <2> QED BY <2>2
<1>4. PICK a \in Seq(Octet) : a = h \o d /\ Len(a) = 3 /\ a[1] = CodeOctet(t) /\ a[2] = d[1] /\ a[3] = d[2]
  <2>1. /\ h \o d \in Seq(Octet) /\ Len(h \o d) = Len(h) + Len(d)
        /\ \A i \in 1 .. Len(h) : (h \o d)[i] = h[i]
        /\ \A i \in 1 .. Len(d) : (h \o d)[Len(h) + i] = d[i]
    BY Joined
  <2>2. Len(h \o d) = 3 /\ (h \o d)[1] = CodeOctet(t) /\ (h \o d)[2] = d[1] /\ (h \o d)[3] = d[2]
    BY <1>2, <1>3, <2>1
  <2> QED BY <2>1, <2>2
<1>5. 256 * a[2] + a[3] = t.dst
  BY <1>2, <1>4
<1>6. ASSUME t.type \in HasSource
      PROVE  \E c \in Seq(Octet) :
               /\ c = a \o src /\ Len(c) = 5 /\ (\A i \in 1 .. 3 : c[i] = a[i]) /\ 256 * c[4] + c[5] = t.src
  <2>1. t.src \in Uint16s
    BY <1>6, TPDUNumbers, TPDURequired
  <2>2. PICK s \in Seq(Octet) : s = src /\ Len(s) = 2 /\ 256 * s[1] + s[2] = t.src
    BY <1>6, <2>1, Uint16Back
  <2>3. /\ a \o s \in Seq(Octet) /\ Len(a \o s) = Len(a) + Len(s)
        /\ \A i \in 1 .. Len(a) : (a \o s)[i] = a[i]
        /\ \A i \in 1 .. Len(s) : (a \o s)[Len(a) + i] = s[i]
    BY Joined
  <2>4. Len(a \o s) = 5 /\ (\A i \in 1 .. 3 : (a \o s)[i] = a[i]) /\ (a \o s)[4] = s[1] /\ (a \o s)[5] = s[2]
    <3>1. Len(a) = 3 /\ Len(s) = 2
      BY <1>4, <2>2
    <3> QED BY <2>3, <3>1
  <2>5. PICK c \in Seq(Octet) : c = a \o s
    BY <2>3
  <2>6. Len(c) = 5 /\ (\A i \in 1 .. 3 : c[i] = a[i]) /\ c[4] = s[1] /\ c[5] = s[2]
    BY <2>4, <2>5
  <2>7. 256 * c[4] + c[5] = t.src
    BY <2>2, <2>6
  <2> QED BY <2>2, <2>5, <2>6, <2>7
<1>7. t.type \notin HasSource => a \o src = a
  BY <1>4
<1>8. ASSUME t.type \in HasOption \/ t.type = "ED", NEW c \in Seq(Octet), NEW k \in Nat, Len(c) = k
      PROVE  \E f \in Seq(Octet) :
               /\ f = c \o last /\ Len(f) = k + 1 /\ (\A i \in 1 .. k : f[i] = c[i])
               /\ t.type \in HasOption => f[k + 1] = t.opt
               /\ t.type = "ED" => f[k + 1] = NrOctet(t)
  <2>1. PICK l \in Seq(Octet) : /\ l = last /\ Len(l) = 1
                                /\ t.type \in HasOption => l[1] = t.opt
                                /\ t.type = "ED" => l[1] = NrOctet(t)
    <3>1. CASE t.type \in HasOption
      <4>1. t.opt \in Octet /\ t.type # "ED"
        BY <3>1, TPDUNumbers, TPDURequired DEF HasOption
      <4>2. <<t.opt>> \in Seq(Octet) /\ Len(<<t.opt>>) = 1 /\ <<t.opt>>[1] = t.opt
        BY <4>1
      <4> QED BY <3>1, <4>1, <4>2
    <3>2. CASE t.type = "ED"
      <4>1. t.nr \in Octet /\ t.eot \in BOOLEAN /\ t.type \notin HasOption
        BY <3>2, TPDUNumbers, TPDUFields DEF HasOption
      <4>2. NrOctet(t) \in Octet
        BY <4>1, NrTypes DEF NrOctet
      <4>3. <<NrOctet(t)>> \in Seq(Octet) /\ Len(<<NrOctet(t)>>) = 1 /\ <<NrOctet(t)>>[1] = NrOctet(t)
        BY <4>2
      <4> QED BY <3>2, <4>1, <4>3
    <3> QED BY <1>8, <3>1, <3>2
  <2>2. /\ c \o l \in Seq(Octet) /\ Len(c \o l) = Len(c) + Len(l)
        /\ \A i \in 1 .. Len(c) : (c \o l)[i] = c[i]
        /\ \A i \in 1 .. Len(l) : (c \o l)[Len(c) + i] = l[i]
    BY Joined
  <2>3. Len(c \o l) = k + 1 /\ (\A i \in 1 .. k : (c \o l)[i] = c[i]) /\ (c \o l)[k + 1] = l[1]
    BY <1>8, <2>1, <2>2, SMTT(40)
  <2> QED BY <2>1, <2>2, <2>3
<1> HIDE DEF src
<1>9. t.type \in {"CR", "CC", "DR", "DC", "ER", "ED", "AK", "EA", "RJ"}
  BY TPDUFields, TypeTable
<1>10. fixedPart(t) = (a \o src) \o last
  BY <1>1, <1>2, <1>3, <1>4
<1>11. CASE t.type \in {"CR", "CC", "DR"}
  <2>1. FixedPartLength[t.type] = 6 /\ t.type \in HasSource /\ t.type \in HasOption /\ t.type # "ED"
    BY <1>11, SMT DEF FixedPartLength, HasSource, HasOption
  <2>2. PICK c \in Seq(Octet) :
          /\ c = a \o src /\ Len(c) = 5 /\ (\A i \in 1 .. 3 : c[i] = a[i]) /\ 256 * c[4] + c[5] = t.src
    BY <1>6, <2>1
  <2>3. PICK f \in Seq(Octet) : f = c \o last /\ Len(f) = 5 + 1 /\ (\A i \in 1 .. 5 : f[i] = c[i]) /\ f[5 + 1] = t.opt
    <3>1. Len(c) = 5 /\ 5 \in Nat
      BY <2>2
    <3> QED BY <1>8, <2>1, <3>1
  <2>4. f[1] = a[1] /\ f[2] = a[2] /\ f[3] = a[3] /\ f[4] = c[4] /\ f[5] = c[5] /\ Len(f) = 6 /\ f[6] = t.opt
    BY <2>2, <2>3, SMTT(40)
  <2>5. fixedPart(t) = f
    BY <1>10, <2>2, <2>3
  <2>6. 256 * f[2] + f[3] = t.dst /\ 256 * f[4] + f[5] = t.src
    BY <1>5, <2>2, <2>4
  <2>7. FixedShape(f, t)
    BY <1>4, <2>1, <2>4, <2>6 DEF FixedShape
  <2> QED BY <2>5, <2>7
<1>12. CASE t.type = "DC"
  <2>1. FixedPartLength[t.type] = 5 /\ t.type \in HasSource /\ t.type \notin HasOption /\ t.type # "ED"
    BY <1>12, SMT DEF FixedPartLength, HasSource, HasOption
  <2>2. PICK c \in Seq(Octet) :
          /\ c = a \o src /\ Len(c) = 5 /\ (\A i \in 1 .. 3 : c[i] = a[i]) /\ 256 * c[4] + c[5] = t.src
    BY <1>6, <2>1
  <2>3. fixedPart(t) = c
    <3>1. last = <<>> /\ c \o <<>> = c
      BY <2>1
    <3> QED BY <1>10, <2>2, <3>1
  <2>4. c[1] = a[1] /\ c[2] = a[2] /\ c[3] = a[3]
    BY <2>2, SMTT(40)
  <2>5. 256 * c[2] + c[3] = t.dst
    BY <1>5, <2>4
  <2>6. FixedShape(c, t)
    BY <1>4, <2>1, <2>2, <2>4, <2>5 DEF FixedShape
  <2> QED BY <2>3, <2>6
<1>13. CASE t.type \in {"ER", "ED", "AK", "EA", "RJ"}
  <2>1. FixedPartLength[t.type] = 4 /\ t.type \notin HasSource /\ (t.type \in HasOption \/ t.type = "ED")
    BY <1>13, SMT DEF FixedPartLength, HasSource, HasOption
  <2>2. PICK f \in Seq(Octet) : /\ f = a \o last /\ Len(f) = 3 + 1 /\ (\A i \in 1 .. 3 : f[i] = a[i])
                                /\ t.type \in HasOption => f[3 + 1] = t.opt
                                /\ t.type = "ED" => f[3 + 1] = NrOctet(t)
    BY <1>4, <1>8, <2>1
  <2>3. /\ f[1] = a[1] /\ f[2] = a[2] /\ f[3] = a[3] /\ Len(f) = 4
        /\ t.type \in HasOption => f[4] = t.opt
        /\ t.type = "ED" => f[4] = NrOctet(t)
    BY <2>2
  <2>4. fixedPart(t) = f
    BY <1>7, <1>10, <2>1, <2>2
  <2>5. 256 * f[2] + f[3] = t.dst
    BY <1>5, <2>3
  <2>6. FixedShape(f, t)
    BY <1>4, <2>1, <2>3, <2>5 DEF FixedShape
  <2> QED BY <2>4, <2>6
<1> QED BY <1>9, <1>11, <1>12, <1>13

\* A field that a type has not got has no value.
LEMMA TPDUAbsent ==
  ASSUME NEW t \in TPDU
  PROVE  /\ t.type \notin HasCDT => t.cdt = None
         /\ t.type \notin HasSource => t.src = None
         /\ t.type \notin HasOption => t.opt = None
         /\ t.type \notin {"DT", "ED"} => t.dst # None /\ t.nr = None /\ ~t.eot
         /\ t.type \notin {"CR", "CC"} => t.calling = Absent /\ t.called = Absent /\ t.size = None /\ t.pref = None
         /\ t.type = "RJ" => t.params = <<>>
         /\ t.type \notin HasUserData => t.data = <<>>
  BY DEF TPDU

\* A TPDU by its fields.
Fields(type, cdt, dst, src, opt, nr, eot, calling, called, size, pref, params, data) ==
  [type |-> type, cdt |-> cdt, dst |-> dst, src |-> src, opt |-> opt, nr |-> nr, eot |-> eot,
   calling |-> calling, called |-> called, size |-> size, pref |-> pref, params |-> params, data |-> data]

CanonicalCdt(t) == IF t.cdt = None THEN None ELSE t.cdt % 16
CanonicalNr(t) == IF t.nr = None THEN (IF t.type = "DT" THEN 0 ELSE None) ELSE t.nr % 128
CanonicalParams(t) == IF t.type \in {"CR", "CC"} THEN Unknown(t.params) ELSE t.params

\* What is left of a TPDU on the wire, field by field.
LEMMA CanonicalFields ==
  ASSUME NEW t \in TPDU
  PROVE  Canonical(t) = Fields(t.type, CanonicalCdt(t), t.dst, t.src, t.opt, CanonicalNr(t), t.eot,
           t.calling, t.called, t.size, t.pref, CanonicalParams(t), t.data)
<1> DEFINE R == [type : Types, cdt : Opt(Octet), dst : Opt(Uint16s), src : Opt(Uint16s),
          opt : Opt(Octet), nr : Opt(Octet), eot : BOOLEAN, calling : Selector, called : Selector,
          size : Opt(Octet), pref : Opt(Nat), params : ParameterList, data : OctetString]
<1>1. t \in R
  BY DEF TPDU
<1>2. ASSUME NEW cdt, NEW nr, NEW params
      PROVE  [t EXCEPT !.cdt = cdt, !.nr = nr, !.params = params] =
               Fields(t.type, cdt, t.dst, t.src, t.opt, nr, t.eot, t.calling, t.called, t.size, t.pref, params, t.data)
  <2> DEFINE x == [t EXCEPT !.cdt = cdt, !.nr = nr, !.params = params]
  <2>1. x \in [type : Types, cdt : {cdt}, dst : Opt(Uint16s), src : Opt(Uint16s),
          opt : Opt(Octet), nr : {nr}, eot : BOOLEAN, calling : Selector, called : Selector,
          size : Opt(Octet), pref : Opt(Nat), params : {params}, data : OctetString]
    BY <1>1
  <2>2. /\ x.type = t.type /\ x.cdt = cdt /\ x.dst = t.dst /\ x.src = t.src /\ x.opt = t.opt /\ x.nr = nr
        /\ x.calling = t.calling /\ x.called = t.called /\ x.size = t.size /\ x.pref = t.pref
        /\ x.params = params /\ x.data = t.data
    BY <1>1
  <2>3. x.eot = t.eot
    BY <1>1
  <2> HIDE DEF x
  <2>4. x = Fields(x.type, x.cdt, x.dst, x.src, x.opt, x.nr, x.eot, x.calling, x.called, x.size, x.pref, x.params, x.data)
    BY <2>1 DEF Fields
  <2>5. x = Fields(t.type, cdt, t.dst, t.src, t.opt, nr, t.eot, t.calling, t.called, t.size, t.pref, params, t.data)
    BY <2>2, <2>3, <2>4, Zenon
  <2> QED BY <2>5 DEF x
<1>3. Canonical(t) = [t EXCEPT !.cdt = CanonicalCdt(t), !.nr = CanonicalNr(t), !.params = CanonicalParams(t)]
  BY <1>1 DEF Canonical, CanonicalCdt, CanonicalNr, CanonicalParams
<1> QED BY <1>2, <1>3

\* A TPDU of which the parameters are still to come.
IsBare(t, type, cdt, dst, src, opt, nr, eot, data) ==
  t = Fields(type, cdt, dst, src, opt, nr, eot, Absent, Absent, None, None, <<>>, data)

WithParams(t, params) == [t EXCEPT !.params = params]
WithAll(t, calling, called, size, pref, params) ==
  [t EXCEPT !.calling = calling, !.called = called, !.size = size, !.pref = pref, !.params = params]

\* The decoders fill the parameters into what they have read so far.
LEMMA FieldsExcept ==
  ASSUME NEW type, NEW cdt, NEW dst, NEW src, NEW opt, NEW nr, NEW eot, NEW data, NEW t,
         IsBare(t, type, cdt, dst, src, opt, nr, eot, data)
  PROVE  \A calling, called, size, pref, params :
           /\ WithParams(t, params) =
                Fields(type, cdt, dst, src, opt, nr, eot, Absent, Absent, None, None, params, data)
           /\ WithAll(t, calling, called, size, pref, params) =
                Fields(type, cdt, dst, src, opt, nr, eot, calling, called, size, pref, params, data)
<1> TAKE calling, called, size, pref, params
<1> DEFINE R == [type : {type}, cdt : {cdt}, dst : {dst}, src : {src}, opt : {opt}, nr : {nr}, eot : {eot},
                 calling : {Absent, calling}, called : {Absent, called}, size : {None, size}, pref : {None, pref},
                 params : {<<>>, params}, data : {data}]
<1>1. t \in R
  BY DEF Fields, IsBare
<1>2. /\ t.type = type /\ t.cdt = cdt /\ t.dst = dst /\ t.src = src /\ t.opt = opt /\ t.nr = nr /\ t.eot = eot
      /\ t.calling = Absent /\ t.called = Absent /\ t.size = None /\ t.pref = None /\ t.data = data
  BY DEF Fields, IsBare
<1>3. ASSUME NEW x \in R
      PROVE  x = Fields(x.type, x.cdt, x.dst, x.src, x.opt, x.nr, x.eot, x.calling, x.called, x.size, x.pref, x.params, x.data)
  BY DEF Fields
<1>4. [t EXCEPT !.params = params] =
        Fields(type, cdt, dst, src, opt, nr, eot, Absent, Absent, None, None, params, data)
  <2>1. PICK x : x = [t EXCEPT !.params = params]
    OBVIOUS
  <2>2. x \in R
    BY <1>1, <2>1
  <2>3. /\ x.type = type /\ x.cdt = cdt /\ x.dst = dst /\ x.src = src /\ x.opt = opt /\ x.nr = nr /\ x.eot = eot
        /\ x.calling = Absent /\ x.called = Absent /\ x.size = None /\ x.pref = None
        /\ x.params = params /\ x.data = data
    BY <1>1, <1>2, <2>1
  <2> HIDE DEF R
  <2> QED BY <1>3, <2>1, <2>2, <2>3
<1>5. [t EXCEPT !.calling = calling, !.called = called, !.size = size, !.pref = pref, !.params = params] =
        Fields(type, cdt, dst, src, opt, nr, eot, calling, called, size, pref, params, data)
  <2>1. PICK x : x = [t EXCEPT !.calling = calling, !.called = called, !.size = size, !.pref = pref, !.params = params]
    OBVIOUS
  <2>2. x \in R
    BY <1>1, <2>1
  <2>3. /\ x.type = type /\ x.cdt = cdt /\ x.dst = dst /\ x.src = src /\ x.opt = opt /\ x.nr = nr /\ x.eot = eot
        /\ x.calling = calling /\ x.called = called /\ x.size = size /\ x.pref = pref
        /\ x.params = params /\ x.data = data
    BY <1>1, <1>2, <2>1
  <2> HIDE DEF R
  <2> QED BY <1>3, <2>1, <2>2, <2>3
<1> QED BY <1>4, <1>5, Zenon DEF WithParams, WithAll

\* Every decoder but that of the DT passes the header and reads the fields of
\* the fixed part that was written.
LEMMA FixedBack ==
  ASSUME NEW t \in TPDU, t.type # "DT", t.dst # None, t.type = "ED" => t.nr # None,
         NEW b, NEW v, NEW li \in Nat, Laid(b, fixedPart(t), v, t.data, FixedPartLength[t.type], li)
  PROVE  /\ b \in Seq(Octet) /\ LooksLike(t.type, b) /\ headerError(t.type, b) = nil
         /\ variablePart(t.type, b) = v
         /\ IsBare(fixedFields(t.type, b), t.type, CanonicalCdt(t), t.dst, t.src, t.opt, CanonicalNr(t), t.eot, t.data)
<1>1. PICK n \in 4 .. 6 : n = FixedPartLength[t.type]
  BY FixedLengths, TPDUFields
<1>2. PICK f \in Seq(Octet) : f = fixedPart(t) /\ FixedShape(f, t)
  BY FixedRead DEF FixedShape
<1>3. t.data \in Seq(Octet)
  BY TPDUFields DEF OctetString
<1>4. Laid(b, f, v, t.data, n, li) /\ n \in 1 .. 6
  BY <1>1, <1>2
<1>5. /\ b \in Seq(Octet) /\ Len(b) \in Nat /\ ~(Len(b) < 1 + n) /\ ~(Len(b) < HeaderLength(b))
      /\ b[1] = li /\ li \in n .. 254 /\ ReadLI(b) = nil /\ HeaderLength(b) = 1 + li
      /\ SubSeq(b, 2 + n, HeaderLength(b)) = v /\ userData(b) = t.data
  BY <1>3, <1>4, LaidHeader, ZenonT(40) DEF HeaderTells
<1>6. \A i \in 1 .. n : b[1 + i] = f[i]
  BY <1>4 DEF Laid
<1>7. b[2] = f[1] /\ b[3] = f[2] /\ b[4] = f[3] /\ b[1 + n] = f[n]
  <2>1. 1 \in 1 .. n /\ 2 \in 1 .. n /\ 3 \in 1 .. n /\ n \in 1 .. n
    OBVIOUS
  <2>2. 1 + 1 = 2 /\ 1 + 2 = 3 /\ 1 + 3 = 4
    OBVIOUS
  <2> QED BY <1>6, <2>1, <2>2
<1>8. t.type \in HasSource => b[5] = f[4] /\ b[6] = f[5]
  <2> SUFFICES ASSUME t.type \in HasSource PROVE b[5] = f[4] /\ b[6] = f[5]
    OBVIOUS
  <2>1. n \in {5, 6}
    BY <1>1, SMT DEF HasSource, FixedPartLength
  <2>2. 4 \in 1 .. n /\ 5 \in 1 .. n /\ 1 + 4 = 5 /\ 1 + 5 = 6
    BY <2>1
  <2> QED BY <1>6, <2>2
<1>9. HasCode(t.type, b[2]) /\ b[2] = CodeOctet(t)
  BY <1>2, <1>7, CodeBack DEF FixedShape
<1>10. headerError(t.type, b) = nil
  <2>1. ~(b[1] < n)
    BY <1>5
  <2>2. headerBounds(b, n) = nil
    BY <1>5, <2>1 DEF headerBounds
  <2> QED BY <1>1, <1>5, <1>9, <2>2 DEF headerError, Then
<1>11. LooksLike(t.type, b)
  <2>1. Len(b) >= 2 /\ Len(b) >= HeaderLength(b)
    BY <1>5, SMTT(40)
  <2> QED BY <1>5, <1>9, <2>1 DEF LooksLike, MinHeaderLength
<1>12. variablePart(t.type, b) = v
  BY <1>1, <1>5 DEF variablePart
<1>13. (IF t.type \in HasCDT THEN b[2] % 16 ELSE None) = CanonicalCdt(t)
  BY <1>9, CodeBack, TPDUAbsent, TPDURequired DEF CanonicalCdt
<1>14. Uint16(b, 3) = t.dst
  <2>1. 3 + 1 = 4
    OBVIOUS
  <2> QED BY <1>2, <1>7, <2>1 DEF Uint16, FixedShape
<1>15. (IF t.type \in HasSource THEN Uint16(b, 5) ELSE None) = t.src
  <2>1. 5 + 1 = 6
    OBVIOUS
  <2> QED BY <1>2, <1>8, <2>1, TPDUAbsent DEF Uint16, FixedShape
<1>16. (IF t.type \in HasOption THEN b[1 + n] ELSE None) = t.opt
  BY <1>1, <1>2, <1>7, TPDUAbsent DEF FixedShape
<1>17. /\ (IF t.type = "ED" THEN b[1 + n] % 128 ELSE None) = CanonicalNr(t)
       /\ (t.type = "ED" /\ b[1 + n] >= 128) = t.eot
  <2>1. CASE t.type = "ED"
    <3>1. t.nr \in Octet /\ t.nr # None /\ t.eot \in BOOLEAN
      BY <2>1, TPDUNumbers, TPDUFields
    <3>2. PICK m \in 0 .. 127 : m = t.nr % 128
      <4>1. PICK o \in Octet : o = t.nr
        BY <3>1
      <4>2. o % 128 \in 0 .. 127
        BY DEF Octet
      <4> QED BY <4>1, <4>2
    <3>3. b[1 + n] = m + (IF t.eot THEN 128 ELSE 0)
      BY <1>1, <1>2, <1>7, <2>1, <3>2 DEF FixedShape, NrOctet
    <3>4. b[1 + n] % 128 = m /\ (b[1 + n] >= 128 <=> t.eot)
      <4>1. PICK o : o = m + (IF t.eot THEN 128 ELSE 0)
        OBVIOUS
      <4>2. o % 128 = m /\ (o >= 128 <=> t.eot)
        BY <3>1, <4>1, NrBack, ZenonT(40)
      <4>3. b[1 + n] = o
        BY <3>3, <4>1
      <4> QED BY <4>2, <4>3
    <3>5. CanonicalNr(t) = m
      BY <2>1, <3>1, <3>2 DEF CanonicalNr
    <3>6. (t.type = "ED" /\ b[1 + n] >= 128) = t.eot
      BY <2>1, <3>1, <3>4, Zenon
    <3> QED BY <2>1, <3>4, <3>5, <3>6
  <2>2. CASE t.type # "ED"
    <3>1. t.nr = None /\ ~t.eot /\ t.eot \in BOOLEAN
      BY <2>2, TPDUAbsent, TPDUFields
    <3>2. CanonicalNr(t) = None
      BY <2>2, <3>1 DEF CanonicalNr
    <3>3. (t.type = "ED" /\ b[1 + n] >= 128) = t.eot
      BY <2>2, <3>1, Zenon
    <3> QED BY <2>2, <3>2, <3>3
  <2> QED BY <2>1, <2>2
<1>18. (IF t.type \in HasUserData THEN userData(b) ELSE <<>>) = t.data
  BY <1>5, TPDUAbsent
<1>19. fixedFields(t.type, b) =
         Fields(t.type, IF t.type \in HasCDT THEN b[2] % 16 ELSE None, Uint16(b, 3),
           IF t.type \in HasSource THEN Uint16(b, 5) ELSE None, IF t.type \in HasOption THEN b[1 + n] ELSE None,
           IF t.type = "ED" THEN b[1 + n] % 128 ELSE None, t.type = "ED" /\ b[1 + n] >= 128,
           Absent, Absent, None, None, <<>>, IF t.type \in HasUserData THEN userData(b) ELSE <<>>)
  BY <1>1, Zenon DEF fixedFields, Fields
<1>20. fixedFields(t.type, b) = Fields(t.type, CanonicalCdt(t), t.dst, t.src, t.opt, CanonicalNr(t), t.eot,
              Absent, Absent, None, None, <<>>, t.data)
  BY <1>13, <1>14, <1>15, <1>16, <1>17, <1>18, <1>19, ZenonT(40)
<1>21. IsBare(fixedFields(t.type, b), t.type, CanonicalCdt(t), t.dst, t.src, t.opt, CanonicalNr(t), t.eot, t.data)
  BY <1>20 DEF IsBare
<1> QED BY <1>5, <1>10, <1>11, <1>12, <1>21

\* Plain parameters are parsed back.
LEMMA PlainParamsBack ==
  ASSUME NEW ps \in Seq(Parameters), encodeVariablePart(ps).err = nil
  PROVE  /\ encodeVariablePart(ps).octets \in Seq(Octet)
         /\ parseVariablePart(encodeVariablePart(ps).octets) = [err |-> nil, params |-> ps]
<1>1. /\ encodeVariablePart(ps).octets \in Seq(Octet)
      /\ scan(encodeVariablePart(ps).octets) = [err |-> nil, params |-> ps]
  BY EncodedFit, ScanEncode
<1>2. scan(encodeVariablePart(ps).octets).err = nil
  BY <1>1
<1> QED BY <1>1, <1>2 DEF parseVariablePart

\* What assemble made of a TPDU with a plain list of parameters decodes to it.
LEMMA PlainBack ==
  ASSUME NEW t \in TPDU, t.type \notin {"DT", "CR", "CC"}, t.dst # None, t.type = "ED" => t.nr # None,
         assemble(fixedPart(t), encodeVariablePart(t.params), t.data).err = nil
  PROVE  LET b == assemble(fixedPart(t), encodeVariablePart(t.params), t.data).octets IN
         b \in Seq(Octet) /\ LooksLike(t.type, b) /\ decodePlain(t.type, b) = Ok(Canonical(t))
<1>1. PICK n \in 4 .. 6 : n = FixedPartLength[t.type]
  BY FixedLengths, TPDUFields
<1>2. fixedPart(t) \in Seq(Octet) /\ Len(fixedPart(t)) = n
  BY <1>1, FixedRead DEF FixedShape
<1>3. t.params \in Seq(Parameters) /\ t.data \in Seq(Octet)
  BY TPDUFields DEF ParameterList, OctetString
<1>4. PICK var \in Wires : var = encodeVariablePart(t.params)
  BY <1>3, EncodeTypes
<1>5. PICK b : b = assemble(fixedPart(t), var, t.data).octets
  OBVIOUS
<1>6. n \in 1 .. 6 /\ assemble(fixedPart(t), var, t.data).err = nil
  BY <1>4
<1>7. var.err = nil /\ \E li \in Nat : Laid(assemble(fixedPart(t), var, t.data).octets, fixedPart(t), var.octets, t.data, n, li)
  BY <1>2, <1>3, <1>6, AssembleLays
<1>8. PICK li \in Nat : Laid(b, fixedPart(t), var.octets, t.data, FixedPartLength[t.type], li)
  BY <1>1, <1>5, <1>7
<1>9. /\ b \in Seq(Octet) /\ LooksLike(t.type, b) /\ headerError(t.type, b) = nil
      /\ variablePart(t.type, b) = var.octets
      /\ IsBare(fixedFields(t.type, b), t.type, CanonicalCdt(t), t.dst, t.src, t.opt, CanonicalNr(t), t.eot, t.data)
  BY <1>8, FixedBack
<1>10. parseVariablePart(var.octets).err = nil /\ parseVariablePart(var.octets).params = t.params
  <2>1. parseVariablePart(encodeVariablePart(t.params).octets) = [err |-> nil, params |-> t.params]
    BY <1>3, <1>4, <1>7, PlainParamsBack
  <2> QED BY <1>4, <2>1
<1>11. decodePlain(t.type, b) = Ok(WithParams(fixedFields(t.type, b), t.params))
  BY <1>9, <1>10 DEF decodePlain, WithParams
<1>12. WithParams(fixedFields(t.type, b), t.params) =
         Fields(t.type, CanonicalCdt(t), t.dst, t.src, t.opt, CanonicalNr(t), t.eot,
           Absent, Absent, None, None, t.params, t.data)
  BY <1>9, FieldsExcept
<1>13. /\ t.calling = Absent /\ t.called = Absent /\ t.size = None /\ t.pref = None
       /\ CanonicalParams(t) = t.params
  BY TPDUAbsent DEF CanonicalParams
<1>14. Canonical(t) = Fields(t.type, CanonicalCdt(t), t.dst, t.src, t.opt, CanonicalNr(t), t.eot,
           Absent, Absent, None, None, t.params, t.data)
  BY <1>13, CanonicalFields
<1> QED BY <1>4, <1>5, <1>9, <1>11, <1>12, <1>14

\* So does what it made of a CR or CC.
LEMMA CRCCDecodeBack ==
  ASSUME NEW t \in TPDU, t.type \in {"CR", "CC"},
         assemble(fixedPart(t), encodeCRCCVariablePart(t), t.data).err = nil
  PROVE  LET b == assemble(fixedPart(t), encodeCRCCVariablePart(t), t.data).octets IN
         b \in Seq(Octet) /\ LooksLike(t.type, b) /\ decodeCRCC(t.type, b) = Ok(Canonical(t))
<1>0. t.type # "DT" /\ t.type # "ED" /\ t.dst # None
  BY TPDUAbsent
<1>1. PICK n \in 4 .. 6 : n = FixedPartLength[t.type]
  BY <1>0, FixedLengths, TPDUFields
<1>2. fixedPart(t) \in Seq(Octet) /\ Len(fixedPart(t)) = n
  BY <1>0, <1>1, FixedRead DEF FixedShape
<1>3. t.params \in Seq(Parameters) /\ t.data \in Seq(Octet)
  BY TPDUFields DEF ParameterList, OctetString
<1>4. PICK var \in Wires : var = encodeCRCCVariablePart(t)
  BY EncodeCRCCTypes
<1>5. PICK b : b = assemble(fixedPart(t), var, t.data).octets
  OBVIOUS
<1>6. n \in 1 .. 6 /\ assemble(fixedPart(t), var, t.data).err = nil
  BY <1>4
<1>7. var.err = nil /\ \E li \in Nat : Laid(assemble(fixedPart(t), var, t.data).octets, fixedPart(t), var.octets, t.data, n, li)
  BY <1>2, <1>3, <1>6, AssembleLays
<1>8. PICK li \in Nat : Laid(b, fixedPart(t), var.octets, t.data, FixedPartLength[t.type], li)
  BY <1>1, <1>5, <1>7
<1>9. /\ b \in Seq(Octet) /\ LooksLike(t.type, b) /\ headerError(t.type, b) = nil
      /\ variablePart(t.type, b) = var.octets
      /\ IsBare(fixedFields(t.type, b), t.type, CanonicalCdt(t), t.dst, t.src, t.opt, CanonicalNr(t), t.eot, t.data)
  BY <1>0, <1>8, FixedBack
<1>10. PICK r : r = parseCRCCVariablePart(var.octets)
  OBVIOUS
<1>11. /\ r.err = nil /\ r.calling = t.calling /\ r.called = t.called
       /\ r.size = t.size /\ r.pref = t.pref /\ r.params = Unknown(t.params)
  <2>1. Holds(parseCRCCVariablePart(encodeCRCCVariablePart(t).octets),
              t.calling, t.called, t.size, t.pref, Unknown(t.params))
    BY <1>4, <1>7, CRCCBack
  <2> QED BY <1>4, <1>10, <2>1 DEF Holds
<1>12. decodeCRCC(t.type, b) =
         Ok(WithAll(fixedFields(t.type, b), t.calling, t.called, t.size, t.pref, Unknown(t.params)))
  <2>1. decodeCRCC(t.type, b) = IF headerError(t.type, b) # nil THEN Fail(headerError(t.type, b))
          ELSE IF r.err # nil THEN Fail(r.err)
          ELSE Ok(WithAll(fixedFields(t.type, b), r.calling, r.called, r.size, r.pref, r.params))
    BY <1>9, <1>10 DEF decodeCRCC, WithAll
  <2> QED BY <1>9, <1>11, <2>1
<1>13. WithAll(fixedFields(t.type, b), t.calling, t.called, t.size, t.pref, Unknown(t.params)) =
         Fields(t.type, CanonicalCdt(t), t.dst, t.src, t.opt, CanonicalNr(t), t.eot,
           t.calling, t.called, t.size, t.pref, Unknown(t.params), t.data)
  BY <1>9, FieldsExcept
<1>14. Canonical(t) = Fields(t.type, CanonicalCdt(t), t.dst, t.src, t.opt, CanonicalNr(t), t.eot,
           t.calling, t.called, t.size, t.pref, Unknown(t.params), t.data)
  BY CanonicalFields DEF CanonicalParams
<1> QED BY <1>4, <1>5, <1>9, <1>12, <1>13, <1>14

\* TPDU-NR has seven bits.
LEMMA NrRange ==
  ASSUME NEW o \in Octet
  PROVE  o % 128 \in 0 .. 127
  BY DEF Octet

\* A DT by its LI, its last octet and the place of its references.
LEMMA DTBack ==
  ASSUME NEW t \in TPDU, t.type = "DT", t.dst = None => t.params = <<>>, MarshalDT(t).err = nil
  PROVE  LET b == MarshalDT(t).octets IN
         b \in Seq(Octet) /\ LooksLike("DT", b) /\ DecodeDT(b) = Ok(Canonical(t))
<1>1. PICK m \in 0 .. 127 : m = IF t.nr = None THEN 0 ELSE t.nr % 128
  <2>1. CASE t.nr = None
    BY <2>1
  <2>2. CASE t.nr # None
    <3>1. PICK o \in Octet : o = t.nr
      BY <2>2, TPDUNumbers
    <3>2. o % 128 \in 0 .. 127
      BY NrRange
    <3> QED BY <2>2, <3>1, <3>2
  <2> QED BY <2>1, <2>2
<1>2. t.data \in Seq(Octet) /\ t.params \in Seq(Parameters)
  BY TPDUFields DEF OctetString, ParameterList
<1>2a. PICK eot \in BOOLEAN : eot = t.eot
  BY TPDUFields
<1>3. PICK o \in Octet : o = m + (IF t.eot THEN 128 ELSE 0) /\ o % 128 = m /\ (o >= 128 <=> eot)
  <2>1. PICK x : x = m + (IF eot THEN 128 ELSE 0)
    OBVIOUS
  <2>2. x \in Octet /\ x % 128 = m /\ (x >= 128 <=> eot)
    BY <2>1, NrBack, ZenonT(40)
  <2>3. x = m + (IF t.eot THEN 128 ELSE 0)
    BY <1>2a, <2>1
  <2> QED BY <2>2, <2>3
<1>4. 240 \in Octet
  BY DEF Octet
<1>5. \E fixed \in Seq(Octet), n \in {2, 4} :
        /\ MarshalDT(t) = assemble(fixed, encodeVariablePart(t.params), t.data)
        /\ Len(fixed) = n /\ fixed[1] = 240 /\ fixed[n] = o /\ (n = 2 <=> t.dst = None)
        /\ n = 4 => 256 * fixed[2] + fixed[3] = t.dst
  <2>1. MarshalDT(t) = assemble(IF t.dst = None THEN <<240, o>> ELSE <<240>> \o Octets(t.dst) \o <<o>>,
                                encodeVariablePart(t.params), t.data)
    BY <1>1, <1>3 DEF MarshalDT
  <2>2. CASE t.dst = None
    <3>1. <<240, o>> \in Seq(Octet) /\ Len(<<240, o>>) = 2 /\ <<240, o>>[1] = 240 /\ <<240, o>>[2] = o
      BY <1>4
    <3>2. MarshalDT(t) = assemble(<<240, o>>, encodeVariablePart(t.params), t.data)
      BY <2>1, <2>2
    <3>3. PICK f \in Seq(Octet) : f = <<240, o>>
      BY <3>1
    <3>4. Len(f) = 2 /\ f[1] = 240 /\ f[2] = o
      BY <3>1, <3>3
    <3>5. PICK n \in {2, 4} : n = 2
      OBVIOUS
    <3>6. MarshalDT(t) = assemble(f, encodeVariablePart(t.params), t.data)
      BY <3>2, <3>3
    <3> QED BY <2>2, <3>4, <3>5, <3>6
  <2>3. CASE t.dst # None
    <3>1. PICK d \in Seq(Octet) : d = Octets(t.dst) /\ Len(d) = 2 /\ 256 * d[1] + d[2] = t.dst
      BY <2>3, TPDUNumbers, Uint16Back
    <3>2. PICK h \in Seq(Octet), l \in Seq(Octet) : h = <<240>> /\ l = <<o>>
      <4>1. <<240>> \in Seq(Octet) /\ <<o>> \in Seq(Octet)
        BY <1>4
      <4> QED BY <4>1
    <3>3. Len(h) = 1 /\ h[1] = 240 /\ Len(l) = 1 /\ l[1] = o
      BY <3>2
    <3>4. /\ h \o d \in Seq(Octet) /\ Len(h \o d) = Len(h) + Len(d)
          /\ \A i \in 1 .. Len(h) : (h \o d)[i] = h[i]
          /\ \A i \in 1 .. Len(d) : (h \o d)[Len(h) + i] = d[i]
      BY Joined
    <3>5. Len(d) = 2
      BY <3>1
    <3>6. PICK a \in Seq(Octet) : a = h \o d /\ Len(a) = 3 /\ a[1] = 240 /\ a[2] = d[1] /\ a[3] = d[2]
      <4>1. Len(h \o d) = 3 /\ (h \o d)[1] = 240 /\ (h \o d)[2] = d[1] /\ (h \o d)[3] = d[2]
        BY <3>3, <3>4, <3>5
      <4> QED BY <3>4, <4>1
    <3>7. /\ a \o l \in Seq(Octet) /\ Len(a \o l) = Len(a) + Len(l)
          /\ \A i \in 1 .. Len(a) : (a \o l)[i] = a[i]
          /\ \A i \in 1 .. Len(l) : (a \o l)[Len(a) + i] = l[i]
      BY Joined
    <3>8. PICK f \in Seq(Octet) : f = a \o l
      BY <3>7
    <3>8a. Len(f) = 4 /\ f[1] = 240 /\ f[2] = d[1] /\ f[3] = d[2] /\ f[4] = o
      <4>1. /\ Len(a \o l) = 4 /\ (a \o l)[1] = a[1] /\ (a \o l)[2] = a[2] /\ (a \o l)[3] = a[3]
            /\ (a \o l)[4] = l[1]
        <5>1. Len(a) = 3 /\ Len(l) = 1
          BY <3>3, <3>6
        <5> QED BY <3>7, <5>1
      <4>2. a[1] = 240 /\ a[2] = d[1] /\ a[3] = d[2] /\ l[1] = o
        BY <3>3, <3>6
      <4> QED BY <3>8, <4>1, <4>2
    <3>9. 256 * f[2] + f[3] = t.dst
      BY <3>1, <3>8a
    <3>10. MarshalDT(t) = assemble(f, encodeVariablePart(t.params), t.data)
      BY <2>1, <2>3, <3>1, <3>2, <3>6, <3>8
    <3>11. PICK n \in {2, 4} : n = 4
      OBVIOUS
    <3>12. n # 2
      BY <3>11
    <3> QED BY <2>3, <3>8a, <3>9, <3>10, <3>11, <3>12
  <2> QED BY <2>2, <2>3
<1>6. PICK fixed \in Seq(Octet), n \in {2, 4} :
        /\ MarshalDT(t) = assemble(fixed, encodeVariablePart(t.params), t.data)
        /\ Len(fixed) = n /\ fixed[1] = 240 /\ fixed[n] = o /\ (n = 2 <=> t.dst = None)
        /\ n = 4 => 256 * fixed[2] + fixed[3] = t.dst
  BY <1>5
<1>7. PICK var \in Wires : var = encodeVariablePart(t.params)
  BY <1>2, EncodeTypes
<1>8. PICK b : b = MarshalDT(t).octets
  OBVIOUS
<1>9. assemble(fixed, var, t.data).err = nil /\ b = assemble(fixed, var, t.data).octets
  BY <1>6, <1>7, <1>8
<1>10. n \in 1 .. 6 /\ Len(fixed) = n
  BY <1>6
<1>11. /\ var.err = nil /\ var.octets \in Seq(Octet)
       /\ \E li \in Nat : Laid(assemble(fixed, var, t.data).octets, fixed, var.octets, t.data, n, li)
  BY <1>2, <1>9, <1>10, AssembleLays
<1>12. PICK li \in Nat : Laid(b, fixed, var.octets, t.data, n, li)
  BY <1>9, <1>11
<1>13. /\ b \in Seq(Octet) /\ Len(b) \in Nat /\ ~(Len(b) < 1 + n) /\ ~(Len(b) < HeaderLength(b))
       /\ b[1] = li /\ li \in n .. 254 /\ ReadLI(b) = nil /\ HeaderLength(b) = 1 + li
       /\ SubSeq(b, 2 + n, HeaderLength(b)) = var.octets /\ userData(b) = t.data
  <2>1. n \in 1 .. 6 /\ t.data \in Seq(Octet)
    BY <1>2, <1>10
  <2>2. HeaderTells(b, var.octets, t.data, n, li)
    BY <1>12, <2>1, LaidHeader
  <2> QED BY <2>2 DEF HeaderTells
<1>14. li = 2 <=> n = 2
  <2>1. CASE n = 2
    <3>1. var.octets = <<>>
      <4>1. t.params = <<>>
        BY <1>6, <2>1
      <4> QED BY <1>7, <4>1, EncodeNothing DEF Wire
    <3>2. li = n + Len(var.octets)
      BY <1>12 DEF Laid
    <3>3. Len(var.octets) = 0
      BY <3>1
    <3> QED BY <2>1, <3>2, <3>3
  <2>2. CASE n = 4
    BY <1>13, <2>2
  <2> QED BY <2>1, <2>2
<1>15. b[1] \notin {0, 1, 3} /\ DTFixed(b) = n
  <2>1. li \notin {0, 1, 3}
    BY <1>13, <1>14
  <2> QED BY <1>13, <1>14, <2>1 DEF DTFixed
<1>16. b[2] = 240 /\ b[1 + n] = o /\ (n = 4 => Uint16(b, 3) = t.dst)
  <2>1. \A i \in 1 .. n : b[1 + i] = fixed[i]
    BY <1>12 DEF Laid
  <2>2. b[2] = fixed[1] /\ b[1 + n] = fixed[n]
    <3>1. 1 \in 1 .. n /\ n \in 1 .. n /\ 1 + 1 = 2
      OBVIOUS
    <3> QED BY <2>1, <3>1
  <2>3. n = 4 => b[3] = fixed[2] /\ b[3 + 1] = fixed[3]
    <3>1. n = 4 => 2 \in 1 .. n /\ 3 \in 1 .. n /\ 1 + 2 = 3 /\ 1 + 3 = 3 + 1
      OBVIOUS
    <3> QED BY <2>1, <3>1
  <2> QED BY <1>6, <2>2, <2>3 DEF Uint16
<1>17. LooksLike("DT", b)
  <2>1. HasCode("DT", 240)
    BY CodeTable, SMT
  <2>2. Len(b) >= 2 /\ Len(b) >= HeaderLength(b)
    BY <1>13
  <2> QED BY <1>13, <1>16, <2>1, <2>2 DEF LooksLike, MinHeaderLength
<1>18. DTParams(b).err = nil /\ DTParams(b).params = t.params
  <2>1. parseVariablePart(encodeVariablePart(t.params).octets) = [err |-> nil, params |-> t.params]
    BY <1>2, <1>7, <1>11, PlainParamsBack
  <2>2. DTParams(b) = [err |-> nil, params |-> t.params]
    BY <1>7, <1>13, <1>15, <2>1 DEF DTParams
  <2> QED BY <2>2
<1>19. DecodeDT(b) = Ok(DTOf(b))
  BY <1>13, <1>15, <1>17, <1>18, DecodeDTCases
<1>20. DTOf(b) = Fields("DT", None, IF DTFixed(b) = 2 THEN None ELSE Uint16(b, 3), None, None,
         b[1 + DTFixed(b)] % 128, b[1 + DTFixed(b)] >= 128, Absent, Absent, None, None, DTParams(b).params, userData(b))
  BY DEF DTOf, Fields
<1>21. (IF DTFixed(b) = 2 THEN None ELSE Uint16(b, 3)) = t.dst
  BY <1>6, <1>15, <1>16
<1>22. b[1 + DTFixed(b)] % 128 = CanonicalNr(t)
  <2>1. CanonicalNr(t) = m
    BY <1>1 DEF CanonicalNr
  <2> QED BY <1>3, <1>15, <1>16, <2>1
<1>23. (b[1 + DTFixed(b)] >= 128) = t.eot
  <2>1. b[1 + DTFixed(b)] = o
    BY <1>15, <1>16
  <2>2. o >= 128 <=> eot
    BY <1>3
  <2>3. (o >= 128) = eot
    <3>1. (o >= 128) \in BOOLEAN
      OBVIOUS
    <3> QED BY <2>2, <3>1, Zenon
  <2> QED BY <1>2a, <2>1, <2>3, Zenon
<1>24. /\ CanonicalCdt(t) = None /\ t.src = None /\ t.opt = None /\ t.calling = Absent /\ t.called = Absent
       /\ t.size = None /\ t.pref = None /\ CanonicalParams(t) = t.params
  BY TPDUAbsent DEF CanonicalCdt, CanonicalParams, HasCDT, HasSource, HasOption
<1>25. DTOf(b) = Fields("DT", None, t.dst, None, None, CanonicalNr(t), t.eot,
         Absent, Absent, None, None, t.params, t.data)
  BY <1>13, <1>18, <1>20, <1>21, <1>22, <1>23, Zenon
<1>26. Canonical(t) = Fields("DT", None, t.dst, None, None, CanonicalNr(t), t.eot,
         Absent, Absent, None, None, t.params, t.data)
  BY <1>24, CanonicalFields
<1> QED BY <1>8, <1>13, <1>17, <1>19, <1>25, <1>26

\* Decode picks the decoder of the type.
LEMMA DecodeLooksLike ==
  ASSUME NEW b \in Seq(Octet), NEW type \in Types, LooksLike(type, b)
  PROVE  Decode(b) = DecodeAs(type, b)
<1>1. PeekType(b) = Ok([type |-> type])
  BY PeekLooksLike
<1>2. PeekType(b).err = nil /\ PeekType(b).tpdu.type = type
  BY <1>1, FailOk
<1> QED BY <1>2 DEF Decode

\* Octets that are decoded as t.
ReadAs(b, t) == b \in Seq(Octet) /\ Decode(b) = Ok(t)

\* Marshalling and decoding again, for the types without a test of their own.
LEMMA PlainReadAs ==
  ASSUME NEW t \in TPDU, t.type \in {"DR", "DC", "ER", "AK", "EA"}, Marshal(t).err = nil
  PROVE  ReadAs(Marshal(t).octets, Canonical(t))
<1>1. /\ t.type \notin {"DT", "CR", "CC"} /\ t.type # "ED" /\ t.dst # None /\ t.type \in Types
      /\ t.type # "DR" => t.data = <<>>
  BY TPDUAbsent, TPDUFields DEF HasUserData
<1>2. Marshal(t) = assemble(fixedPart(t), encodeVariablePart(t.params), t.data)
  BY <1>1 DEF Marshal, MarshalDR, MarshalDC, MarshalER, MarshalAK, MarshalEA
<1>3. PICK b : b = Marshal(t).octets
  OBVIOUS
<1>4. b \in Seq(Octet) /\ LooksLike(t.type, b) /\ decodePlain(t.type, b) = Ok(Canonical(t))
  BY <1>1, <1>2, <1>3, PlainBack
<1>5. DecodeAs(t.type, b) = decodePlain(t.type, b)
  BY DEF DecodeAs, DecodeDR, DecodeDC, DecodeER, DecodeAK, DecodeEA
<1>6. Decode(b) = Ok(Canonical(t))
  BY <1>1, <1>4, <1>5, DecodeLooksLike
<1> QED BY <1>3, <1>4, <1>6 DEF ReadAs

\* The same for an ED, whose user data is limited.
LEMMA EDReadAs ==
  ASSUME NEW t \in TPDU, t.type = "ED", Marshal(t).err = nil
  PROVE  ReadAs(Marshal(t).octets, Canonical(t))
<1>1. \A e, o : Wire(e, o).err = e
  BY DEF Wire
<1>2. /\ t.dst # None /\ t.nr # None /\ ~(Len(t.data) \notin MinEDUserDataLen .. MaxEDUserDataLen)
      /\ Marshal(t) = assemble(fixedPart(t), encodeVariablePart(t.params), t.data)
  <2>1. Marshal(t) = MarshalED(t)
    BY DEF Marshal
  <2>2. nil # "ErrMissingRequiredField" /\ nil # "ErrInvalidEDUserDataLength"
    BY DEF nil
  <2> QED BY <1>1, <2>1, <2>2 DEF MarshalED
<1>3. PICK b : b = Marshal(t).octets
  OBVIOUS
<1>4. b \in Seq(Octet) /\ LooksLike("ED", b) /\ decodePlain("ED", b) = Ok(Canonical(t))
  <2>1. t.type \notin {"DT", "CR", "CC"}
    OBVIOUS
  <2> QED BY <1>2, <1>3, <2>1, PlainBack
<1>5. Canonical(t).data = t.data
  BY CanonicalFields DEF Fields
<1>6. DecodeED(b) = decodePlain("ED", b)
  BY <1>2, <1>4, <1>5, FailOk DEF DecodeED
<1>7. Decode(b) = Ok(Canonical(t))
  <2>1. "ED" \in Types
    BY TypeTable
  <2>2. DecodeAs("ED", b) = DecodeED(b)
    BY DEF DecodeAs
  <2> QED BY <1>4, <1>6, <2>1, <2>2, DecodeLooksLike
<1> QED BY <1>3, <1>4, <1>7 DEF ReadAs

\* The same for a RJ, which has no variable part.
LEMMA RJReadAs ==
  ASSUME NEW t \in TPDU, t.type = "RJ", Marshal(t).err = nil
  PROVE  ReadAs(Marshal(t).octets, Canonical(t))
<1>1. t.params = <<>> /\ t.data = <<>> /\ t.dst # None /\ t.type \notin {"DT", "CR", "CC"} /\ t.type # "ED"
  BY TPDUAbsent DEF HasUserData
<1>2. Marshal(t) = assemble(fixedPart(t), Wire(nil, <<>>), <<>>)
  BY DEF Marshal, MarshalRJ
<1>3. Marshal(t) = assemble(fixedPart(t), encodeVariablePart(t.params), t.data)
  BY <1>1, <1>2, EncodeNothing
<1>4. PICK b : b = Marshal(t).octets
  OBVIOUS
<1>5. b \in Seq(Octet) /\ LooksLike("RJ", b) /\ decodePlain("RJ", b) = Ok(Canonical(t))
  BY <1>1, <1>3, <1>4, PlainBack
<1>6. FixedPartLength["RJ"] = 4
  BY SMT DEF FixedPartLength
<1>7. b[1] = 4
  <2>1. fixedPart(t) \in Seq(Octet) /\ Len(fixedPart(t)) = 4
    BY <1>1, <1>6, FixedRead DEF FixedShape
  <2>2. PICK w \in Wires : w = Wire(nil, <<>>) /\ w.octets = <<>>
    <3>1. Wire(nil, <<>>) \in Wires /\ Wire(nil, <<>>).octets = <<>>
      BY DEF Wire, Wires
    <3> QED BY <3>1
  <2>3. PICK d \in Seq(Octet) : d = <<>>
    <3>1. <<>> \in Seq(Octet)
      OBVIOUS
    <3> QED BY <3>1
  <2>4. assemble(fixedPart(t), w, d).err = nil /\ b = assemble(fixedPart(t), w, d).octets
    BY <1>2, <1>4, <2>2, <2>3
  <2>5. PICK n \in 1 .. 6 : n = 4
    OBVIOUS
  <2>6. \E li \in Nat : Laid(assemble(fixedPart(t), w, d).octets, fixedPart(t), w.octets, d, n, li)
    BY <2>1, <2>4, <2>5, AssembleLays
  <2>7. PICK li \in Nat : Laid(b, fixedPart(t), w.octets, d, n, li)
    BY <2>4, <2>6
  <2>8. b[1] = li /\ li = n + Len(w.octets)
    BY <2>7 DEF Laid
  <2>9. Len(w.octets) = 0
    BY <2>2
  <2> QED BY <2>5, <2>8, <2>9
<1>8. DecodeRJ(b) = decodePlain("RJ", b)
  <2>1. ~(b[1] > FixedPartLength["RJ"])
    BY <1>6, <1>7
  <2> QED BY <2>1 DEF DecodeRJ
<1>9. Decode(b) = Ok(Canonical(t))
  <2>1. "RJ" \in Types
    BY TypeTable
  <2>2. DecodeAs("RJ", b) = DecodeRJ(b)
    BY DEF DecodeAs
  <2> QED BY <1>5, <1>8, <2>1, <2>2, DecodeLooksLike
<1> QED BY <1>4, <1>5, <1>9 DEF ReadAs

\* The same for a CR, whose length is limited, and a CC.
LEMMA CRCCReadAs ==
  ASSUME NEW t \in TPDU, t.type \in {"CR", "CC"}, Marshal(t).err = nil
  PROVE  ReadAs(Marshal(t).octets, Canonical(t))
<1>1. PICK w : w = assemble(fixedPart(t), encodeCRCCVariablePart(t), t.data)
  OBVIOUS
<1>2. PICK b : b = Marshal(t).octets
  OBVIOUS
<1>3. Marshal(t) = w /\ w.err = nil /\ (t.type = "CR" => ~(Len(b) > MaxCRTPDULength))
  <2>1. CASE t.type = "CC"
    BY <1>1, <2>1 DEF Marshal, MarshalCC
  <2>2. CASE t.type = "CR"
    <3>1. Marshal(t) = IF w.err = nil /\ Len(w.octets) > MaxCRTPDULength THEN Wire("ErrLengthMismatch", <<>>) ELSE w
      BY <1>1, <2>2 DEF Marshal, MarshalCR
    <3>2. Wire("ErrLengthMismatch", <<>>).err # nil
      BY DEF Wire, nil
    <3> QED BY <1>2, <3>1, <3>2
  <2> QED BY <2>1, <2>2
<1>4. b \in Seq(Octet) /\ LooksLike(t.type, b) /\ decodeCRCC(t.type, b) = Ok(Canonical(t))
  BY <1>1, <1>2, <1>3, CRCCDecodeBack
<1>5. DecodeAs(t.type, b) = Ok(Canonical(t))
  <2>1. CASE t.type = "CC"
    BY <1>4, <2>1 DEF DecodeAs, DecodeCC
  <2>2. CASE t.type = "CR"
    <3>1. headerError("CR", b) = nil
      BY <1>4, <2>2, FailOk DEF decodeCRCC
    <3>2. ~(Len(b) < 1 + FixedPartLength["CR"])
      BY <3>1 DEF headerError, nil
    <3>3. DecodeCR(b) = decodeCRCC("CR", b)
      BY <1>3, <2>2, <3>2 DEF DecodeCR
    <3> QED BY <1>4, <2>2, <3>3 DEF DecodeAs
  <2> QED BY <2>1, <2>2
<1>6. Decode(b) = Ok(Canonical(t))
  BY <1>4, <1>5, DecodeLooksLike, TPDUFields
<1> QED BY <1>2, <1>4, <1>6 DEF ReadAs

\* Every type: decoding undoes marshalling, but for the DT without destination
\* reference that has parameters.
LEMMA DecodeMarshal ==
  ASSUME NEW t \in TPDU, Marshal(t).err = nil, ~(t.type = "DT" /\ t.dst = None /\ t.params # <<>>)
  PROVE  ReadAs(Marshal(t).octets, Canonical(t))
<1>1. t.type \in {"CR", "CC", "DR", "DC", "DT", "ER", "ED", "AK", "EA", "RJ"}
  BY TPDUFields, TypeTable
<1>2. CASE t.type = "DT"
  <2>1. Marshal(t) = MarshalDT(t)
    BY <1>2 DEF Marshal
  <2>2. PICK b : b = MarshalDT(t).octets
    OBVIOUS
  <2>3. b \in Seq(Octet) /\ LooksLike("DT", b) /\ DecodeDT(b) = Ok(Canonical(t))
    BY <1>2, <2>1, <2>2, DTBack
  <2>4. "DT" \in Types /\ DecodeAs("DT", b) = DecodeDT(b)
    BY TypeTable DEF DecodeAs
  <2>5. Decode(b) = Ok(Canonical(t))
    BY <2>3, <2>4, DecodeLooksLike
  <2> QED BY <2>1, <2>2, <2>3, <2>5 DEF ReadAs
<1> QED BY <1>1, <1>2, PlainReadAs, EDReadAs, RJReadAs, CRCCReadAs

\* Where what is on its way came from, and what was made of it.
HistoryInv ==
  /\ stage = "idle" => given = NoTPDU
  /\ given # NoTPDU => given \in TPDU /\ sent = Marshal(given)
  /\ got.err = nil /\ stage \in {"forwarded", "over"} => forwarded = Marshal(got.tpdu)
  /\ stage = "over" /\ forwarded.err = nil => regot = Decode(forwarded.octets)

\* In every exchange: what was sent is what MarshalBinary made of the TPDU that was
\* given, what was forwarded what it made of the one that was got, and what was got
\* again what Decode made of that.
THEOREM HistoryInvariant == Spec => []HistoryInv
<1>1. Init => HistoryInv
  BY FailOk DEF Init, HistoryInv
<1>2. ExchangeInv /\ HistoryInv /\ [Next]_vars => HistoryInv'
  <2> SUFFICES ASSUME ExchangeInv, HistoryInv, [Next]_vars PROVE HistoryInv'
    OBVIOUS
  <2>1. CASE Send
    <3>1. given' \in TPDU /\ sent' = Marshal(given')
      BY <2>1, TpdusAssumption DEF Send
    <3>2. /\ got' = got /\ got.err # nil /\ forwarded' = forwarded /\ forwarded.err # nil
          /\ stage' \in {"sent", "over"}
      BY <2>1 DEF Send, ExchangeInv
    <3> QED BY <3>1, <3>2 DEF HistoryInv
  <2>2. CASE Arrive
    <3>1. given' = given /\ given = NoTPDU /\ stage' = "sent"
      BY <2>2 DEF Arrive, HistoryInv
    <3> QED BY <3>1 DEF HistoryInv
  <2>3. CASE Receive
    <3>1. /\ given' = given /\ sent' = sent /\ forwarded' = forwarded /\ forwarded.err # nil
          /\ stage' = IF got'.err = nil THEN "received" ELSE "over"
      BY <2>3 DEF Receive, ExchangeInv
    <3> QED BY <3>1 DEF HistoryInv
  <2>4. CASE Forward
    <3>1. /\ given' = given /\ sent' = sent /\ got' = got /\ forwarded' = Marshal(got.tpdu)
          /\ stage' = IF forwarded'.err = nil THEN "forwarded" ELSE "over"
      BY <2>4 DEF Forward
    <3> QED BY <3>1 DEF HistoryInv
  <2>5. CASE ReceiveAgain
    <3>1. /\ given' = given /\ sent' = sent /\ got' = got /\ forwarded' = forwarded
          /\ stage = "forwarded" /\ stage' = "over" /\ regot' = Decode(forwarded.octets)
      BY <2>5 DEF ReceiveAgain
    <3> QED BY <3>1 DEF HistoryInv
  <2>6. CASE UNCHANGED vars
    BY <2>6 DEF vars, HistoryInv
  <2> QED BY <2>1, <2>2, <2>3, <2>4, <2>5, <2>6 DEF Next
<1> QED BY <1>1, <1>2, ExchangeInvariant, PTL DEF Spec

\* Whatever TPDU a user builds, with any parameters and data: MarshalBinary
\* refuses it, or makes octets that Decode turns back into it, but for what has
\* no room on the wire.  The DT without destination reference that has
\* parameters is the one exception.
THEOREM MarshalledDecodes == Spec => []MarshalDecodes
<1>1. ExchangeInv /\ HistoryInv => MarshalDecodes
  <2> SUFFICES ASSUME ExchangeInv, HistoryInv, given # NoTPDU, sent.err = nil, stage # "sent",
                      ~(given.type = "DT" /\ given.dst = None /\ given.params # <<>>)
               PROVE  got = Ok(Canonical(given))
    BY DEF MarshalDecodes
  <2>1. given \in TPDU /\ sent = Marshal(given) /\ stage # "idle"
    BY DEF HistoryInv
  <2>2. got = Decode(sent.octets)
    BY <2>1 DEF ExchangeInv
  <2>3. ReadAs(Marshal(given).octets, Canonical(given))
    BY <2>1, DecodeMarshal
  <2> QED BY <2>1, <2>2, <2>3 DEF ReadAs
<1> QED BY <1>1, ExchangeInvariant, HistoryInvariant, PTL

-----------------------------------------------------------------------------
(* What is decoded can be forwarded                                        *)

\* Fields of a fixed part as a decoder fills them in.
Proper(type, cdt, dst, src, opt, nr, eot, data) ==
  /\ cdt \in Octet \cup {None} /\ dst \in Uint16s \cup {None} /\ src \in Uint16s \cup {None}
  /\ opt \in Octet \cup {None} /\ nr \in Octet \cup {None} /\ eot \in BOOLEAN /\ data \in Seq(Octet)
  /\ type \in HasCDT <=> cdt # None
  /\ type \in HasSource <=> src # None
  /\ type \in HasOption <=> opt # None
  /\ dst = None \/ nr # None \/ eot => type \in {"DT", "ED"}
  /\ type = "DT" => nr # None
  /\ data # <<>> => type \in HasUserData
  /\ cdt # None => cdt % 16 = cdt
  /\ nr # None => nr % 128 = nr

\* Fields of a variable part.
ProperParams(type, calling, called, size, pref, params) ==
  /\ calling \in Selector /\ called \in Selector /\ size \in Octet \cup {None} /\ pref \in Nat \cup {None}
  /\ params \in Seq(Parameters)
  /\ calling # Absent \/ called # Absent \/ size # None \/ pref # None => type \in {"CR", "CC"}
  /\ params # <<>> => type # "RJ"
  /\ pref # None => Is32Bit(pref)
  /\ type \in {"CR", "CC"} => Unknown(params) = params

\* A TPDU with such fields is one that a user could have built, and nothing of
\* it has no room on the wire.
LEMMA ProperTPDU ==
  ASSUME NEW type \in Types, NEW cdt, NEW dst, NEW src, NEW opt, NEW nr, NEW eot, NEW data,
         NEW calling, NEW called, NEW size, NEW pref, NEW params, NEW t,
         Proper(type, cdt, dst, src, opt, nr, eot, data),
         ProperParams(type, calling, called, size, pref, params),
         t = Fields(type, cdt, dst, src, opt, nr, eot, calling, called, size, pref, params, data)
  PROVE  t \in TPDU /\ Canonical(t) = t
<1>1. /\ t.type = type /\ t.cdt = cdt /\ t.dst = dst /\ t.src = src /\ t.opt = opt /\ t.nr = nr
      /\ t.calling = calling /\ t.called = called /\ t.size = size /\ t.pref = pref
      /\ t.params = params /\ t.data = data
  BY DEF Fields
<1>2. t.eot = eot
  BY DEF Fields
<1>3. t \in [type : Types, cdt : Opt(Octet), dst : Opt(Uint16s), src : Opt(Uint16s),
          opt : Opt(Octet), nr : Opt(Octet), eot : BOOLEAN, calling : Selector, called : Selector,
          size : Opt(Octet), pref : Opt(Nat), params : ParameterList, data : OctetString]
  <2>1. /\ cdt \in Opt(Octet) /\ dst \in Opt(Uint16s) /\ src \in Opt(Uint16s) /\ opt \in Opt(Octet)
        /\ nr \in Opt(Octet) /\ data \in OctetString
    BY DEF Proper, Opt, OctetString
  <2>2. eot \in BOOLEAN
    BY DEF Proper
  <2>3. /\ calling \in Selector /\ called \in Selector /\ size \in Opt(Octet) /\ pref \in Opt(Nat)
        /\ params \in ParameterList
    BY DEF ProperParams, Opt, ParameterList
  <2> QED BY <2>1, <2>2, <2>3 DEF Fields
<1>4. /\ t.type \in HasCDT <=> t.cdt # None
      /\ t.type \in HasSource <=> t.src # None
      /\ t.type \in HasOption <=> t.opt # None
      /\ t.data # <<>> => t.type \in HasUserData
  BY <1>1 DEF Proper
<1>5. t.dst = None \/ t.nr # None \/ t.eot => t.type \in {"DT", "ED"}
  BY <1>1, <1>2, Zenon DEF Proper
<1>6. /\ t.calling # Absent \/ t.called # Absent \/ t.size # None \/ t.pref # None => t.type \in {"CR", "CC"}
      /\ t.params # <<>> => t.type # "RJ"
  BY <1>1 DEF ProperParams
<1>7. t.pref # None => t.pref \div 16777216 <= 255
  BY <1>1, SMT DEF ProperParams, Is32Bit
<1>8. t \in TPDU
  BY <1>3, <1>4, <1>5, <1>6, <1>7, SMT DEF TPDU
<1>9. CanonicalCdt(t) = cdt
  BY <1>1 DEF CanonicalCdt, Proper
<1>10. CanonicalNr(t) = nr
  BY <1>1 DEF CanonicalNr, Proper
<1>11. CanonicalParams(t) = params
  BY <1>1 DEF CanonicalParams, ProperParams
<1>12. Canonical(t) = Fields(t.type, CanonicalCdt(t), t.dst, t.src, t.opt, CanonicalNr(t), t.eot,
           t.calling, t.called, t.size, t.pref, CanonicalParams(t), t.data)
  BY <1>8, CanonicalFields
<1>13. Canonical(t) = Fields(type, cdt, dst, src, opt, nr, eot, calling, called, size, pref, params, data)
  BY <1>1, <1>2, <1>9, <1>10, <1>11, <1>12, Zenon
<1> QED BY <1>8, <1>13

\* The credit has four bits and TPDU-NR seven, and neither is nil.
LEMMA Remainders ==
  ASSUME NEW o \in Octet
  PROVE  /\ o % 16 \in Octet /\ (o % 16) % 16 = o % 16 /\ o % 16 # None
         /\ o % 128 \in Octet /\ (o % 128) % 128 = o % 128 /\ o % 128 # None
         /\ o # None
<1>1. o \in 0 .. 255
  BY DEF Octet
<1>2. PICK m \in 0 .. 15 : m = o % 16 /\ m % 16 = m
  <2>1. o % 16 \in 0 .. 15 /\ (o % 16) % 16 = o % 16
    BY <1>1, SMT
  <2> QED BY <2>1
<1>3. PICK k \in 0 .. 127 : k = o % 128 /\ k % 128 = k
  <2>1. o % 128 \in 0 .. 127 /\ (o % 128) % 128 = o % 128
    BY <1>1, SMT
  <2> QED BY <2>1
<1>4. m \in Octet /\ m # None /\ k \in Octet /\ k # None /\ o # None
  BY <1>1, SMT DEF Octet, None
<1> QED BY <1>2, <1>3, <1>4

\* Two octets are a uint16.
LEMMA Uint16Types ==
  ASSUME NEW x \in Octet, NEW y \in Octet
  PROVE  256 * x + y \in Uint16s /\ 256 * x + y # None
<1>1. 256 * x + y \in Uint16s
  BY SMT DEF Octet, Uint16s
<1>2. 256 * x + y # None
  BY SMT DEF Octet, None
<1> QED BY <1>1, <1>2

\* What every DecodeXX but DecodeDT fills in.
LEMMA FixedProper ==
  ASSUME NEW type \in Types, type # "DT", NEW b \in Seq(Octet), headerError(type, b) = nil
  PROVE  \E cdt, dst, src, opt, nr, eot, data :
           /\ IsBare(fixedFields(type, b), type, cdt, dst, src, opt, nr, eot, data)
           /\ Proper(type, cdt, dst, src, opt, nr, eot, data)
<1>1. PICK n \in 4 .. 6 : n = FixedPartLength[type]
  BY FixedLengths
<1>2. PICK li \in Octet : li = b[1] /\ n <= li /\ HeaderLength(b) = 1 + li /\ 1 + li <= Len(b)
  <2>1. b[1] \in Octet /\ n <= b[1] /\ HeaderLength(b) <= Len(b)
    BY <1>1, HeaderChecked
  <2> QED BY <2>1 DEF HeaderLength
<1>3. PICK len \in Nat : len = Len(b) /\ len >= 1 + n
  <2>1. li \in Nat
    BY DEF Octet
  <2>2. PICK x \in Nat : x = Len(b)
    OBVIOUS
  <2>3. x >= 1 + n
    BY <1>2, <2>1, <2>2
  <2> QED BY <2>2, <2>3
<1>4. PICK c \in Octet, x \in Octet, y \in Octet, last \in Octet : c = b[2] /\ x = b[3] /\ y = b[3 + 1] /\ last = b[1 + n]
  <2>1. 2 \in 1 .. Len(b) /\ 3 \in 1 .. Len(b) /\ 3 + 1 \in 1 .. Len(b) /\ 1 + n \in 1 .. Len(b)
    BY <1>3
  <2>2. b[2] \in Octet /\ b[3] \in Octet /\ b[3 + 1] \in Octet /\ b[1 + n] \in Octet
    BY <2>1, OctetAt
  <2> QED BY <2>2
<1> DEFINE cdt == IF type \in HasCDT THEN c % 16 ELSE None
           dst == 256 * x + y
           src == IF type \in HasSource THEN Uint16(b, 5) ELSE None
           opt == IF type \in HasOption THEN last ELSE None
           nr == IF type = "ED" THEN last % 128 ELSE None
           eot == type = "ED" /\ last >= 128
           data == IF type \in HasUserData THEN userData(b) ELSE <<>>
<1>5. IsBare(fixedFields(type, b), type, cdt, dst, src, opt, nr, eot, data)
  <2>1. Uint16(b, 3) = dst
    BY <1>4 DEF Uint16
  <2>2. fixedFields(type, b) = Fields(type, cdt, Uint16(b, 3), src, opt, nr, eot, Absent, Absent, None, None, <<>>, data)
    BY <1>1, <1>4, Zenon DEF fixedFields, Fields
  <2> QED BY <2>1, <2>2 DEF IsBare
<1>6. cdt \in Octet \cup {None} /\ (type \in HasCDT <=> cdt # None) /\ (cdt # None => cdt % 16 = cdt)
  BY Remainders
<1>7. dst \in Uint16s \cup {None} /\ dst # None
  BY Uint16Types
<1>8. src \in Uint16s \cup {None} /\ (type \in HasSource <=> src # None)
  <2>1. CASE type \in HasSource
    <3>1. n \in {5, 6}
      BY <1>1, <2>1, SMT DEF HasSource, FixedPartLength
    <3>2. 5 \in 1 .. Len(b) /\ 5 + 1 \in 1 .. Len(b)
      BY <1>3, <3>1
    <3>3. b[5] \in Octet /\ b[5 + 1] \in Octet
      BY <3>2, OctetAt
    <3>4. Uint16(b, 5) \in Uint16s /\ Uint16(b, 5) # None
      BY <3>3, Uint16Types DEF Uint16
    <3> QED BY <2>1, <3>4
  <2>2. CASE type \notin HasSource
    BY <2>2
  <2> QED BY <2>1, <2>2
<1>9. opt \in Octet \cup {None} /\ (type \in HasOption <=> opt # None)
  BY Remainders
<1>10. /\ nr \in Octet \cup {None} /\ (nr # None => type = "ED") /\ (nr # None => nr % 128 = nr)
  BY Remainders
<1>11. eot \in BOOLEAN /\ (eot => type = "ED")
  BY Zenon
<1>12. data \in Seq(Octet) /\ (data # <<>> => type \in HasUserData)
  <2>1. userData(b) \in Seq(Octet)
    <3>1. PICK m \in Nat : m = li
      BY DEF Octet
    <3>2. SubSeq(b, (1 + m) + 1, len) \in Seq(Octet)
      <4>1. 1 <= (1 + m) + 1 /\ ((1 + m) + 1) - 1 <= len /\ len <= Len(b) /\ (1 + m) + 1 \in Int
        BY <1>2, <1>3, <3>1
      <4> QED BY <4>1, PieceOf
    <3> QED BY <1>2, <1>3, <3>1, <3>2 DEF userData
  <2> QED BY <2>1
<1> HIDE DEF cdt, dst, src, opt, nr, eot, data
<1>13. dst = None \/ nr # None \/ eot => type \in {"DT", "ED"}
  BY <1>7, <1>10, <1>11, Zenon
<1>14. Proper(type, cdt, dst, src, opt, nr, eot, data)
  BY <1>6, <1>7, <1>8, <1>9, <1>10, <1>11, <1>12, <1>13, Zenon DEF Proper
<1> QED BY <1>5, <1>14

\* What a TPDU that came from octets has to be for a relay.
Relayed(t, b) ==
  /\ t \in TPDU /\ Canonical(t) = t
  /\ ~(t.type = "DT" /\ t.dst = None /\ t.params # <<>>)
  /\ Marshal(t).err = nil /\ Len(Marshal(t).octets) <= Len(b)

RelayedFrom(r, b) == r = Ok(r.tpdu) /\ Relayed(r.tpdu, b)

\* A selector may be nil.
LEMMA NoSelector == Absent \in Selector
  BY DEF Absent, Selector, OctetString

\* A TPDU decoded from a plain list of parameters can be forwarded.
LEMMA PlainRelayed ==
  ASSUME NEW type \in Types, type \notin {"CR", "CC", "DT"}, NEW b \in Seq(Octet),
         DecodeAs(type, b).err = nil
  PROVE  RelayedFrom(DecodeAs(type, b), b)
<1>1. PICK v, p : v = variablePart(type, b) /\ p = parseVariablePart(v)
  OBVIOUS
<1>2. DecodeAs(type, b) = decodePlain(type, b) /\ (type = "RJ" => v = <<>>)
  BY <1>1, DecodedPlain
<1>3. PICK t : t = WithParams(fixedFields(type, b), p.params)
  OBVIOUS
<1>4. /\ headerError(type, b) = nil /\ p.err = nil /\ decodePlain(type, b) = Ok(t)
      /\ decodePlain(type, b).tpdu = t
  <2>1. decodePlain(type, b) = IF headerError(type, b) # nil THEN Fail(headerError(type, b))
                               ELSE IF p.err # nil THEN Fail(p.err) ELSE Ok(t)
    BY <1>1, <1>3 DEF decodePlain, WithParams
  <2> QED BY <1>2, <2>1, FailOk
<1>5. p.params \in Seq(Parameters)
  <2>1. p \in Outcomes
    BY <1>1, <1>4, VariableTypes, ParseTypes
  <2> QED BY <2>1 DEF Outcomes
<1>6. type = "RJ" => p.params = <<>>
  BY <1>1, <1>2, ParseNothing DEF Finished
<1>7. PICK cdt, dst, src, opt, nr, eot, data :
        /\ IsBare(fixedFields(type, b), type, cdt, dst, src, opt, nr, eot, data)
        /\ Proper(type, cdt, dst, src, opt, nr, eot, data)
  BY <1>4, FixedProper
<1>8. t = Fields(type, cdt, dst, src, opt, nr, eot, Absent, Absent, None, None, p.params, data)
  BY <1>3, <1>7, FieldsExcept
<1>9. ProperParams(type, Absent, Absent, None, None, p.params)
  BY <1>5, <1>6, NoSelector DEF ProperParams
<1>10. t \in TPDU /\ Canonical(t) = t
  BY <1>7, <1>8, <1>9, ProperTPDU
<1>11. t.type = type
  BY <1>8 DEF Fields
<1>12. Marshal(t) = Wire(nil, IF type \in HasUserData THEN b ELSE SubSeq(b, 1, HeaderLength(b)))
  BY <1>2, <1>4, MarshalKept
<1>13. Len(SubSeq(b, 1, HeaderLength(b))) <= Len(b)
  <2>1. PICK h \in Nat : h = HeaderLength(b) /\ h <= Len(b)
    <3>1. b[1] \in Octet /\ HeaderLength(b) <= Len(b)
      BY <1>4, HeaderChecked
    <3>2. PICK m \in Octet : m = b[1]
      BY <3>1
    <3>3. 1 + m \in Nat
      BY DEF Octet
    <3>4. HeaderLength(b) \in Nat
      BY <3>2, <3>3 DEF HeaderLength
    <3> QED BY <3>1, <3>4
  <2>2. Len(SubSeq(b, 1, h)) = (h - 1) + 1
    <3>1. 1 - 1 <= h /\ 1 <= 1 /\ h \in Int
      OBVIOUS
    <3> QED BY <2>1, <3>1, PieceOf
  <2>3. (h - 1) + 1 = h
    OBVIOUS
  <2> QED BY <2>1, <2>2, <2>3
<1>14. Marshal(t).err = nil /\ Len(Marshal(t).octets) <= Len(b)
  <2>1. PICK o : o = IF type \in HasUserData THEN b ELSE SubSeq(b, 1, HeaderLength(b))
    OBVIOUS
  <2>2. Len(b) <= Len(b)
    OBVIOUS
  <2>3. Len(o) <= Len(b)
    BY <1>13, <2>1, <2>2, Zenon
  <2>4. Marshal(t) = Wire(nil, o)
    BY <1>12, <2>1
  <2>5. Marshal(t).err = nil /\ Marshal(t).octets = o
    BY <2>4 DEF Wire
  <2> QED BY <2>3, <2>5, Zenon
<1> QED BY <1>2, <1>4, <1>10, <1>11, <1>14 DEF RelayedFrom, Relayed

\* So can a DT; one without destination reference has no parameters.
LEMMA DTRelayed ==
  ASSUME NEW b \in Seq(Octet), DecodeDT(b).err = nil
  PROVE  RelayedFrom(DecodeDT(b), b)
<1>1. /\ LooksLike("DT", b) /\ b[1] \notin {0, 1, 3} /\ DTParams(b).err = nil
      /\ DTParams(b) \in Outcomes /\ DecodeDT(b) = Ok(DTOf(b)) /\ DecodeDT(b).tpdu = DTOf(b)
  <2>1. /\ LooksLike("DT", b) /\ b[1] \notin {0, 1, 3} /\ DTParams(b) \in Outcomes
        /\ DecodeDT(b) = IF DTParams(b).err # nil THEN Fail(DTParams(b).err) ELSE Ok(DTOf(b))
    BY DecodeDTCases, FailOk DEF nil
  <2> QED BY <2>1, FailOk
<1>2. PICK li \in 2 .. 254 : li = b[1] /\ li # 3 /\ HeaderLength(b) = 1 + li /\ 1 + li <= Len(b)
  <2>1. Len(b) \in Nat /\ Len(b) >= 2 /\ ReadLI(b) = nil /\ Len(b) >= HeaderLength(b)
    BY <1>1 DEF LooksLike, MinHeaderLength
  <2>2. PICK m \in Octet : m = b[1]
    BY <2>1
  <2>3. ~(m > 254)
    BY <2>1, <2>2 DEF ReadLI, MaxLI, nil
  <2>4. m \in 2 .. 254 /\ m # 3
    BY <1>1, <2>2, <2>3 DEF Octet
  <2> QED BY <2>1, <2>2, <2>4 DEF HeaderLength, Octet
<1>3. PICK n \in {2, 4} : n = DTFixed(b) /\ n <= li /\ (n = 2 => li = 2)
  <2>1. li = 2 => DTFixed(b) = 2 /\ 2 <= li
    BY <1>2 DEF DTFixed
  <2>2. li # 2 => DTFixed(b) = 4
    BY <1>2 DEF DTFixed
  <2>3. li # 3
    BY <1>2
  <2>4. li # 2 => 4 <= li
    BY <2>3
  <2> QED BY <2>1, <2>2, <2>4
<1>4. PICK len \in Nat : len = Len(b) /\ 1 + li <= len
  BY <1>2
<1>5. PICK last \in Octet : last = b[1 + n]
  <2>1. 1 + n \in 1 .. Len(b)
    BY <1>3, <1>4
  <2>2. b[1 + n] \in Octet
    BY <2>1, OctetAt
  <2> QED BY <2>2
<1>6. PICK dst \in Uint16s \cup {None} : dst = (IF DTFixed(b) = 2 THEN None ELSE Uint16(b, 3)) /\ (n = 4 => dst # None)
  <2>1. CASE n = 2
    <3>1. None \in Uint16s \cup {None}
      OBVIOUS
    <3>2. DTFixed(b) = 2 /\ n # 4
      BY <1>3, <2>1
    <3> QED BY <3>1, <3>2
  <2>2. CASE n = 4
    <3>1. 3 \in 1 .. Len(b) /\ 3 + 1 \in 1 .. Len(b)
      BY <1>3, <1>4, <2>2
    <3>2. b[3] \in Octet /\ b[3 + 1] \in Octet
      BY <3>1, OctetAt
    <3>3. Uint16(b, 3) \in Uint16s /\ Uint16(b, 3) # None
      BY <3>2, Uint16Types DEF Uint16
    <3>4. DTFixed(b) # 2
      BY <1>3, <2>2
    <3> QED BY <3>3, <3>4
  <2> QED BY <2>1, <2>2
<1>7. PICK eot \in BOOLEAN : eot = (last >= 128)
  <2>1. (last >= 128) \in BOOLEAN
    OBVIOUS
  <2> QED BY <2>1, Zenon
<1>8. PICK params \in Seq(Parameters) : params = DTParams(b).params /\ (n = 2 => params = <<>>)
  <2>1. DTParams(b).params \in Seq(Parameters)
    BY <1>1 DEF Outcomes
  <2>2. n = 2 => DTParams(b).params = <<>>
    <3> SUFFICES ASSUME n = 2 PROVE DTParams(b).params = <<>>
      OBVIOUS
    <3>1. PICK i \in Int, j \in Int : i = 4 /\ j = 3
      OBVIOUS
    <3>2. j < i
      BY <3>1
    <3>3. SubSeq(b, i, j) = <<>>
      BY <3>2, SubSeqEmpty
    <3>4. 2 + n = i /\ 1 + li = j
      BY <1>3, <3>1
    <3>5. DTParams(b) = parseVariablePart(SubSeq(b, i, j))
      BY <1>2, <1>3, <3>4 DEF DTParams
    <3> QED BY <3>3, <3>5, ParseNothing DEF Finished
  <2> QED BY <2>1, <2>2
<1>9. PICK data \in Seq(Octet) : data = userData(b)
  <2>1. SubSeq(b, (1 + li) + 1, len) \in Seq(Octet)
    <3>1. 1 <= (1 + li) + 1 /\ ((1 + li) + 1) - 1 <= len /\ len <= Len(b) /\ (1 + li) + 1 \in Int
      BY <1>4
    <3> QED BY <3>1, PieceOf
  <2>2. userData(b) \in Seq(Octet)
    BY <1>2, <1>4, <2>1 DEF userData
  <2> QED BY <2>2
<1>10. PICK nr : nr = last % 128
  OBVIOUS
<1>11. DTOf(b) = Fields("DT", None, dst, None, None, nr, eot, Absent, Absent, None, None, params, data)
  <2>1. b[1 + DTFixed(b)] = last
    BY <1>3, <1>5
  <2>2. DTOf(b) = Fields("DT", None, IF DTFixed(b) = 2 THEN None ELSE Uint16(b, 3), None, None,
         b[1 + DTFixed(b)] % 128, b[1 + DTFixed(b)] >= 128, Absent, Absent, None, None, DTParams(b).params, userData(b))
    BY DEF DTOf, Fields
  <2> QED BY <1>6, <1>7, <1>8, <1>9, <1>10, <2>1, <2>2, Zenon
<1>12. Proper("DT", None, dst, None, None, nr, eot, data)
  <2>1. nr \in Octet /\ nr % 128 = nr /\ nr # None
    BY <1>10, Remainders
  <2>2. "DT" \notin HasCDT /\ "DT" \notin HasSource /\ "DT" \notin HasOption /\ "DT" \in HasUserData
    BY DEF HasCDT, HasSource, HasOption, HasUserData
  <2> QED BY <2>1, <2>2, Zenon DEF Proper
<1>13. ProperParams("DT", Absent, Absent, None, None, params)
  BY NoSelector DEF ProperParams
<1>14. PICK t : t = DTOf(b)
  OBVIOUS
<1>15. t \in TPDU /\ Canonical(t) = t
  <2>1. "DT" \in Types
    BY TypeTable
  <2> QED BY <1>11, <1>12, <1>13, <1>14, <2>1, ProperTPDU
<1>16. ~(t.type = "DT" /\ t.dst = None /\ t.params # <<>>)
  <2>1. t.dst = dst /\ t.params = params
    BY <1>11, <1>14 DEF Fields
  <2> QED BY <1>3, <1>6, <1>8, <2>1
<1>17. Marshal(t).err = nil /\ Len(Marshal(t).octets) <= Len(b)
  <2>1. Marshal(t) = Wire(nil, [b EXCEPT ![2] = 240])
    BY <1>1, <1>14, DTKept
  <2>2. PICK o : o = [b EXCEPT ![2] = 240]
    OBVIOUS
  <2>3. Len(o) = Len(b) /\ Len(b) <= Len(b)
    BY <2>2
  <2>4. Marshal(t) = Wire(nil, o)
    BY <2>1, <2>2
  <2>5. Marshal(t).err = nil /\ Marshal(t).octets = o
    BY <2>4 DEF Wire
  <2> QED BY <2>3, <2>5, Zenon
<1> QED BY <1>1, <1>14, <1>15, <1>16, <1>17 DEF RelayedFrom, Relayed

\* The octets that a field of a CR or CC takes in the variable part.
SelectorCost(sel) == IF sel = Absent THEN 0 ELSE 2 + Len(sel[1])
SizeCost(size) == IF size = None THEN 0 ELSE 3
PreferredCost(pref) == IF pref = None THEN 0 ELSE 2 + Len(encodePreferredMaxUnits(pref))

\* The values of these fields that can be encoded.
FitSelector(sel) == sel = Absent \/ \E v \in Seq(Octet) : sel = <<v>> /\ ~(Len(v) > 255)
FitPreferred(pref) == pref = None \/ (pref \in Nat /\ pref # 0 /\ Is32Bit(pref))

\* Costs are numbers of octets, and a field that is not there costs none.
LEMMA CostTypes ==
  /\ \A sel : FitSelector(sel) => sel \in Selector /\ SelectorCost(sel) \in Nat
  /\ \A size : SizeCost(size) \in Nat
  /\ \A pref : FitPreferred(pref) => PreferredCost(pref) \in Nat
  /\ SelectorCost(Absent) = 0 /\ SizeCost(None) = 0 /\ PreferredCost(None) = 0
  /\ FitSelector(Absent) /\ FitPreferred(None)
<1>1. ASSUME NEW sel, FitSelector(sel) PROVE sel \in Selector /\ SelectorCost(sel) \in Nat
  <2>1. CASE sel = Absent
    BY <2>1, NoSelector DEF SelectorCost
  <2>2. CASE \E v \in Seq(Octet) : sel = <<v>>
    <3>1. PICK v \in Seq(Octet) : sel = <<v>>
      BY <2>2
    <3>2. sel \in Seq(Seq(Octet)) /\ Len(sel) = 1 /\ sel[1] = v
      BY <3>1
    <3>3. PICK n \in Nat : n = Len(v)
      OBVIOUS
    <3>4. 2 + n \in Nat
      OBVIOUS
    <3>5. SelectorCost(sel) \in Nat
      BY <3>2, <3>3, <3>4 DEF SelectorCost
    <3>6. sel \in Selector
      <4>1. sel \in Seq(OctetString)
        BY <3>2 DEF OctetString
      <4>2. Len(sel) <= 1
        BY <3>2
      <4> QED BY <4>1, <4>2 DEF Selector
    <3> QED BY <3>5, <3>6
  <2> QED BY <1>1, <2>1, <2>2 DEF FitSelector
<1>2. ASSUME NEW pref, FitPreferred(pref) PROVE PreferredCost(pref) \in Nat
  <2>1. CASE pref = None
    BY <2>1 DEF PreferredCost
  <2>2. CASE pref # None
    <3>1. Len(encodePreferredMaxUnits(pref)) \in 1 .. 4
      BY <1>2, <2>2, PreferredBack DEF FitPreferred
    <3>2. PICK n \in 1 .. 4 : n = Len(encodePreferredMaxUnits(pref))
      BY <3>1
    <3>3. 2 + n \in Nat
      OBVIOUS
    <3> QED BY <2>2, <3>2, <3>3 DEF PreferredCost
  <2> QED BY <2>1, <2>2
<1>3. \A size : SizeCost(size) \in Nat
  BY DEF SizeCost
<1>4. SelectorCost(Absent) = 0 /\ SizeCost(None) = 0 /\ PreferredCost(None) = 0
  BY DEF SelectorCost, SizeCost, PreferredCost
<1>5. FitSelector(Absent) /\ FitPreferred(None)
  BY DEF FitSelector, FitPreferred
<1> QED BY <1>1, <1>2, <1>3, <1>4, <1>5

\* What one parameter costs at most once it is a field.
LEMMA NewSelector ==
  ASSUME NEW v \in Seq(Octet), ~(Len(v) > 255)
  PROVE  FitSelector(<<v>>) /\ SelectorCost(<<v>>) = 2 + Len(v)
<1>1. PICK sel : sel = <<v>>
  OBVIOUS
<1>2. FitSelector(sel)
  BY <1>1 DEF FitSelector
<1>3. Len(sel) = 1 /\ sel[1] = v /\ sel # <<>>
  BY <1>1
<1>4. SelectorCost(sel) = 2 + Len(v)
  BY <1>3 DEF SelectorCost, Absent
<1> QED BY <1>1, <1>2, <1>4

\* The shortest encoding of a preferred maximum is no longer than what it was
\* read from.
LEMMA NewPreferred ==
  ASSUME NEW v \in Seq(Octet), decodePreferredMaxUnits(v) # None
  PROVE  FitPreferred(BigEndian(v)) /\ PreferredCost(BigEndian(v)) <= 2 + Len(v)
<1>1. PICK u \in Nat : u = BigEndian(v) /\ u # 0 /\ Is32Bit(u)
  BY PreferredShort
<1>2. u # None
  BY DEF None
<1>3. Len(encodePreferredMaxUnits(u)) <= Len(v)
  BY <1>1, PreferredShort
<1>4. PICK k \in 1 .. 4 : k = Len(encodePreferredMaxUnits(u))
  BY <1>1, PreferredBack
<1>5. PICK n \in Nat : n = Len(v)
  OBVIOUS
<1>6. 2 + k <= 2 + n
  BY <1>3, <1>4, <1>5
<1>7. FitPreferred(u) /\ PreferredCost(u) = 2 + k
  BY <1>1, <1>2, <1>4 DEF FitPreferred, PreferredCost
<1> QED BY <1>1, <1>5, <1>6, <1>7

\* The fields that a list fills, and the unknown parameters that it leaves,
\* take no more octets than the list did.
Within(calling, called, size, pref, u, n) ==
  /\ FitSelector(calling) /\ FitSelector(called) /\ size \in Octet \cup {None} /\ FitPreferred(pref)
  /\ u \in Nat /\ n \in Nat
  /\ SelectorCost(calling) + SelectorCost(called) + SizeCost(size) + PreferredCost(pref) + u <= n

ListWithin(s) ==
  Within(Applied(s).calling, Applied(s).called, Applied(s).size, Applied(s).pref,
         EncodedLen(Unknown(s)), EncodedLen(s))

\* One more parameter of k octets may replace a field by one that costs at most
\* k, or leave one more unknown parameter.
LEMMA WithinMore ==
  ASSUME NEW calling, NEW called, NEW size, NEW pref, NEW u, NEW n, NEW k \in Nat,
         Within(calling, called, size, pref, u, n)
  PROVE  /\ \A x : FitSelector(x) /\ SelectorCost(x) = k => Within(x, called, size, pref, u, n + k)
         /\ \A x : FitSelector(x) /\ SelectorCost(x) = k => Within(calling, x, size, pref, u, n + k)
         /\ \A x \in Octet : k = 3 => Within(calling, called, x, pref, u, n + k)
         /\ \A x : FitPreferred(x) /\ PreferredCost(x) <= k => Within(calling, called, size, x, u, n + k)
         /\ Within(calling, called, size, pref, u + k, n + k)
<1>1. PICK a \in Nat, b \in Nat, c \in Nat, d \in Nat :
        a = SelectorCost(calling) /\ b = SelectorCost(called) /\ c = SizeCost(size) /\ d = PreferredCost(pref)
  <2>1. /\ SelectorCost(calling) \in Nat /\ SelectorCost(called) \in Nat /\ SizeCost(size) \in Nat
        /\ PreferredCost(pref) \in Nat
    BY CostTypes DEF Within
  <2> QED BY <2>1
<1>2. PICK uu \in Nat, nn \in Nat : uu = u /\ nn = n /\ a + b + c + d + uu <= nn
  BY <1>1 DEF Within
<1>3. nn + k \in Nat /\ uu + k \in Nat
  OBVIOUS
<1>4. ASSUME NEW x, FitSelector(x), SelectorCost(x) = k
      PROVE  Within(x, called, size, pref, u, n + k) /\ Within(calling, x, size, pref, u, n + k)
  <2>1. k + b + c + d + uu <= nn + k /\ a + k + c + d + uu <= nn + k
    BY <1>2
  <2> QED BY <1>1, <1>2, <1>3, <1>4, <2>1 DEF Within
<1>5. ASSUME NEW x \in Octet, k = 3
      PROVE  Within(calling, called, x, pref, u, n + k)
  <2>1. a + b + 3 + d + uu <= nn + k
    BY <1>2, <1>5
  <2>2. SizeCost(x) = 3
    BY Remainders DEF SizeCost
  <2> QED BY <1>1, <1>2, <1>3, <2>1, <2>2 DEF Within
<1>6. ASSUME NEW x, FitPreferred(x), PreferredCost(x) <= k
      PROVE  Within(calling, called, size, x, u, n + k)
  <2>1. PICK e \in Nat : e = PreferredCost(x) /\ e <= k
    BY <1>6, CostTypes
  <2>2. a + b + c + e + uu <= nn + k
    BY <1>2, <2>1
  <2> QED BY <1>1, <1>2, <1>3, <1>6, <2>1, <2>2 DEF Within
<1>7. Within(calling, called, size, pref, u + k, n + k)
  <2>1. a + b + c + d + (uu + k) <= nn + k
    BY <1>2
  <2> QED BY <1>1, <1>2, <1>3, <2>1 DEF Within
<1> QED BY <1>4, <1>5, <1>6, <1>7

\* One turn of the loop of parseCRCCVariablePart keeps within the octets read.
LEMMA AppliedWithin ==
  ASSUME NEW s \in Seq(Parameters), NEW p \in Parameters, AllFit(s \o <<p>>), Applied(s \o <<p>>).err = nil,
         ListWithin(s)
  PROVE  ListWithin(s \o <<p>>)
<1>1. PICK r \in Found : r = Applied(s)
  BY AppliedTypes
<1>2. PICK more \in Seq(Parameters) : more = s \o <<p>>
  BY OneMore
<1>3. Applied(more) = applyParameter(r, p) /\ Applied(more).err = nil
  BY <1>1, <1>2, AppliedMore
<1>4. /\ AllFit(s) /\ ~(Len(p.value) > 255) /\ p.value \in Seq(Octet)
  BY FitMore, ParameterTypes
<1>5. PICK k \in Nat : k = 2 + Len(p.value)
  <2>1. PICK m \in Nat : m = Len(p.value)
    BY ParameterTypes
  <2>2. 2 + m \in Nat
    OBVIOUS
  <2> QED BY <2>1, <2>2
<1>6. PICK u \in Nat, n \in Nat : u = EncodedLen(Unknown(s)) /\ n = EncodedLen(s)
  <2>1. EncodedLen(Unknown(s)) \in Nat /\ EncodedLen(s) \in Nat
    BY UnknownStep, TwoLists
  <2> QED BY <2>1
<1>7. EncodedLen(more) = n + k
  <2>1. EncodedLen(more) = EncodedLen(s) + 2 + Len(p.value)
    BY <1>2, <1>4, LenMore
  <2>2. PICK m \in Nat : m = Len(p.value)
    BY ParameterTypes
  <2>3. n + 2 + m = n + (2 + m)
    OBVIOUS
  <2> QED BY <1>5, <1>6, <2>1, <2>2, <2>3
<1>8. EncodedLen(Unknown(more)) = IF p.code \in KnownParams THEN u ELSE u + k
  <2>1. Unknown(more) = IF p.code \in KnownParams THEN Unknown(s) ELSE Unknown(s) \o <<p>>
    BY <1>2, UnknownStep
  <2>2. EncodedLen(Unknown(s) \o <<p>>) = EncodedLen(Unknown(s)) + 2 + Len(p.value)
    BY <1>4, UnknownStep, UnknownKept, LenMore
  <2>3. PICK m \in Nat : m = Len(p.value)
    BY ParameterTypes
  <2>4. u + 2 + m = u + (2 + m)
    OBVIOUS
  <2> QED BY <1>5, <1>6, <2>1, <2>2, <2>3, <2>4
<1>9. Within(r.calling, r.called, r.size, r.pref, u, n)
  BY <1>1, <1>6 DEF ListWithin
<1>10. PICK a : a = Applied(more)
  OBVIOUS
<1>11. /\ a.calling = IF p.code = ParamCallingSelector THEN <<p.value>> ELSE r.calling
       /\ a.called = IF p.code = ParamCalledSelector THEN <<p.value>> ELSE r.called
       /\ a.size = IF p.code = ParamTPDUSize THEN p.value[1] ELSE r.size
       /\ a.pref = IF p.code = ParamPreferredMaxTPDUSize THEN BigEndian(p.value) ELSE r.pref
       /\ p.code = ParamTPDUSize => Len(p.value) = 1
       /\ p.code = ParamPreferredMaxTPDUSize => decodePreferredMaxUnits(p.value) # None
  BY <1>3, <1>10, ApplyStep
<1>12. SUFFICES Within(a.calling, a.called, a.size, a.pref, EncodedLen(Unknown(more)), n + k)
  BY <1>2, <1>7, <1>10 DEF ListWithin
<1>13. CASE p.code = ParamCallingSelector
  <2>1. FitSelector(<<p.value>>) /\ SelectorCost(<<p.value>>) = k
    BY <1>4, <1>5, NewSelector
  <2>2. Within(<<p.value>>, r.called, r.size, r.pref, u, n + k)
    BY <1>9, <2>1, WithinMore
  <2> QED BY <1>8, <1>11, <1>13, <2>2, ParamCodesApart
<1>14. CASE p.code = ParamCalledSelector
  <2>1. FitSelector(<<p.value>>) /\ SelectorCost(<<p.value>>) = k
    BY <1>4, <1>5, NewSelector
  <2>2. Within(r.calling, <<p.value>>, r.size, r.pref, u, n + k)
    BY <1>9, <2>1, WithinMore
  <2> QED BY <1>8, <1>11, <1>14, <2>2, ParamCodesApart
<1>15. CASE p.code = ParamTPDUSize
  <2>1. k = 3 /\ 1 \in 1 .. Len(p.value)
    <3>1. PICK m \in Nat : m = Len(p.value)
      BY ParameterTypes
    <3>2. m = 1
      BY <1>11, <1>15, <3>1
    <3>3. 2 + m = 3 /\ 1 \in 1 .. m
      BY <3>2
    <3> QED BY <1>5, <3>1, <3>3
  <2>2. PICK o \in Octet : o = p.value[1]
    BY <1>4, <2>1, OctetAt
  <2>3. Within(r.calling, r.called, o, r.pref, u, n + k)
    BY <1>9, <2>1, WithinMore
  <2> QED BY <1>8, <1>11, <1>15, <2>2, <2>3, ParamCodesApart
<1>16. CASE p.code = ParamPreferredMaxTPDUSize
  <2>1. FitPreferred(BigEndian(p.value)) /\ PreferredCost(BigEndian(p.value)) <= k
    BY <1>4, <1>5, <1>11, <1>16, NewPreferred
  <2>2. Within(r.calling, r.called, r.size, BigEndian(p.value), u, n + k)
    BY <1>9, <2>1, WithinMore
  <2> QED BY <1>8, <1>11, <1>16, <2>2, ParamCodesApart
<1>17. CASE p.code \notin KnownParams
  <2>1. Within(r.calling, r.called, r.size, r.pref, u + k, n + k)
    BY <1>9, WithinMore
  <2> QED BY <1>8, <1>11, <1>17, <2>1, ParamCodesApart
<1> QED BY <1>13, <1>14, <1>15, <1>16, <1>17 DEF KnownParams

\* By induction over the list: so does the whole loop.
LEMMA AllWithin ==
  ASSUME NEW s \in Seq(Parameters), AllFit(s), Applied(s).err = nil
  PROVE  ListWithin(s)
<1> DEFINE T == {x \in Seq(Parameters) : AllFit(x) /\ Applied(x).err = nil => ListWithin(x)}
<1>1. <<>> \in T
  <2>1. PICK e \in Seq(Parameters) : e = <<>>
    BY NoList
  <2>2. Applied(e) = NoCRCC
    <3>1. NoCRCC \in Found
      BY DEF NoCRCC, Found, Absent
    <3> QED BY <2>1, <3>1, ApplyMore DEF Applied
  <2>3. EncodedLen(e) = 0 /\ EncodedLen(Unknown(e)) = 0
    BY <2>1, NothingFits, UnknownStep
  <2>4. NoCRCC.calling = Absent /\ NoCRCC.called = Absent /\ NoCRCC.size = None /\ NoCRCC.pref = None
    BY DEF NoCRCC
  <2>5. 0 + 0 + 0 + 0 + 0 <= 0
    OBVIOUS
  <2>6. Within(Absent, Absent, None, None, 0, 0)
    BY <2>5, CostTypes DEF Within
  <2>7. ListWithin(e)
    BY <2>2, <2>3, <2>4, <2>6 DEF ListWithin
  <2> QED BY <2>1, <2>7
<1>2. ASSUME NEW x \in Seq(Parameters), NEW p \in Parameters, x \in T
      PROVE  x \o <<p>> \in T
  <2>1. PICK more \in Seq(Parameters) : more = x \o <<p>>
    BY OneMore
  <2>2. ASSUME AllFit(more), Applied(more).err = nil PROVE ListWithin(more)
    <3>1. AllFit(x)
      BY <2>1, <2>2, FitMore
    <3>2. Applied(x).err = nil
      BY <2>1, <2>2, AppliedTypes, AppliedMore, ApplyStep
    <3>3. ListWithin(x)
      BY <1>2, <3>1, <3>2
    <3> QED BY <2>1, <2>2, <3>3, AppliedWithin
  <2> QED BY <2>1, <2>2
<1> HIDE DEF T
<1>3. s \in T
  BY <1>1, <1>2, ListInduction
<1> QED BY <1>3 DEF T

\* A slot fits if its value does.
LEMMA SlotFits ==
  ASSUME NEW slot, NEW absent \in BOOLEAN, NEW code, NEW value, IsSlot(slot, absent, code, value),
         ~absent => ~(Len(value) > 255)
  PROVE  AllFit(slot) /\ EncodedLen(slot) = IF absent THEN 0 ELSE 2 + Len(value)
<1>1. CASE absent
  BY <1>1, NothingFits DEF IsSlot
<1>2. CASE ~absent
  <2>1. PICK p \in Parameters : p.value = value /\ slot = <<p>>
    BY <1>2 DEF IsSlot
  <2>2. PICK e \in Seq(Parameters) : e = <<>>
    BY NoList
  <2>3. <<p>> \in Seq(Parameters)
    OBVIOUS
  <2>4. slot = e \o <<p>>
    BY <2>1, <2>2, <2>3, NoList
  <2>5. AllFit(e) /\ EncodedLen(e) = 0
    BY <2>2, NothingFits
  <2>5a. ~(Len(p.value) > 255)
    BY <1>2, <2>1
  <2>6. AllFit(slot)
    BY <2>4, <2>5, <2>5a, FitMore
  <2>7. EncodedLen(slot) = EncodedLen(e) + 2 + Len(p.value)
    BY <2>4, <2>5, <2>5a, LenMore
  <2>8. PICK m \in Nat : m = Len(p.value)
    BY ParameterTypes
  <2>9. 0 + 2 + m = 2 + m
    OBVIOUS
  <2> QED BY <1>2, <2>1, <2>5, <2>6, <2>7, <2>8, <2>9
<1> QED BY <1>1, <1>2

\* The fields of a CR or CC are encoded in as many octets as they cost.
LEMMA KnownFits ==
  ASSUME NEW t \in TPDU, FitSelector(t.calling), FitSelector(t.called), FitPreferred(t.pref)
  PROVE  /\ t.pref # 0 /\ AllFit(KnownList(t))
         /\ EncodedLen(KnownList(t)) =
              SelectorCost(t.calling) + SelectorCost(t.called) + SizeCost(t.size) + PreferredCost(t.pref)
<1>1. t.pref # 0
  BY DEF FitPreferred, None
<1>2. /\ (t.calling = Absent) \in BOOLEAN /\ (t.called = Absent) \in BOOLEAN
      /\ (t.size = None) \in BOOLEAN /\ (t.pref = None) \in BOOLEAN
  OBVIOUS
<1>3. ASSUME NEW sel, FitSelector(sel), sel # Absent PROVE ~(Len(sel[1]) > 255)
  <2>1. PICK v \in Seq(Octet) : sel = <<v>> /\ ~(Len(v) > 255)
    BY <1>3 DEF FitSelector
  <2>2. sel[1] = v
    BY <2>1
  <2> QED BY <2>1, <2>2
<1>4. AllFit(CallingSlot(t)) /\ EncodedLen(CallingSlot(t)) = SelectorCost(t.calling)
  BY <1>1, <1>2, <1>3, Slots, SlotFits DEF SelectorCost
<1>5. AllFit(CalledSlot(t)) /\ EncodedLen(CalledSlot(t)) = SelectorCost(t.called)
  BY <1>1, <1>2, <1>3, Slots, SlotFits DEF SelectorCost
<1>6. AllFit(SizeSlot(t)) /\ EncodedLen(SizeSlot(t)) = SizeCost(t.size)
  <2>1. PICK one : one = <<t.size>>
    OBVIOUS
  <2>2. Len(one) = 1
    BY <2>1
  <2>3. ~(Len(one) > 255) /\ 2 + Len(one) = 3
    BY <2>2
  <2>4. IsSlot(SizeSlot(t), t.size = None, ParamTPDUSize, one)
    BY <1>1, <2>1, Slots
  <2>5. AllFit(SizeSlot(t)) /\ EncodedLen(SizeSlot(t)) = IF t.size = None THEN 0 ELSE 2 + Len(one)
    BY <1>2, <2>3, <2>4, SlotFits
  <2> QED BY <2>3, <2>5 DEF SizeCost
<1>7. AllFit(PrefSlot(t)) /\ EncodedLen(PrefSlot(t)) = PreferredCost(t.pref)
  <2>1. t.pref # None => Len(encodePreferredMaxUnits(t.pref)) \in 1 .. 4
    BY PreferredBack DEF FitPreferred
  <2>2. t.pref # None => ~(Len(encodePreferredMaxUnits(t.pref)) > 255)
    <3>1. \A k \in 1 .. 4 : ~(k > 255)
      OBVIOUS
    <3> QED BY <2>1, <3>1
  <2> QED BY <1>1, <1>2, <2>2, Slots, SlotFits DEF PreferredCost
<1>8. PICK a \in Seq(Parameters), b \in Seq(Parameters), c \in Seq(Parameters), d \in Seq(Parameters) :
        a = CallingSlot(t) /\ b = CalledSlot(t) /\ c = SizeSlot(t) /\ d = PrefSlot(t)
  BY <1>1, KnownTypes
<1>9. KnownList(t) = ((a \o b) \o c) \o d
  BY <1>8 DEF KnownList
<1>10. PICK ab \in Seq(Parameters) : ab = a \o b
  BY ListsAssociate
<1>11. PICK abc \in Seq(Parameters) : abc = ab \o c
  BY ListsAssociate
<1>12. AllFit(ab) /\ EncodedLen(ab) = EncodedLen(a) + EncodedLen(b)
  BY <1>4, <1>5, <1>8, <1>10, TwoLists
<1>13. AllFit(abc) /\ EncodedLen(abc) = EncodedLen(ab) + EncodedLen(c)
  BY <1>6, <1>8, <1>11, <1>12, TwoLists
<1>14. AllFit(abc \o d) /\ EncodedLen(abc \o d) = EncodedLen(abc) + EncodedLen(d)
  BY <1>7, <1>8, <1>13, TwoLists
<1> QED BY <1>1, <1>4, <1>5, <1>6, <1>7, <1>8, <1>9, <1>10, <1>11, <1>12, <1>13, <1>14

\* encodeCRCCVariablePart succeeds, in no more octets than the fields and the
\* unknown parameters cost.
LEMMA CRCCFits ==
  ASSUME NEW t \in TPDU, NEW u, NEW n,
         Within(t.calling, t.called, t.size, t.pref, u, n),
         AllFit(Unknown(t.params)), u = EncodedLen(Unknown(t.params))
  PROVE  /\ encodeCRCCVariablePart(t).err = nil /\ encodeCRCCVariablePart(t).octets \in Seq(Octet)
         /\ Len(encodeCRCCVariablePart(t).octets) <= n
<1>1. FitSelector(t.calling) /\ FitSelector(t.called) /\ FitPreferred(t.pref)
  BY DEF Within
<1>2. t.pref # 0 /\ AllFit(KnownList(t))
  BY <1>1, KnownFits
<1>3. EncodedLen(KnownList(t)) =
        SelectorCost(t.calling) + SelectorCost(t.called) + SizeCost(t.size) + PreferredCost(t.pref)
  BY <1>1, KnownFits
<1>4. PICK known \in Seq(Parameters), rest \in Seq(Parameters) : known = KnownList(t) /\ rest = Unknown(t.params)
  <2>1. t.params \in Seq(Parameters)
    BY TPDUFields DEF ParameterList
  <2> QED BY <1>2, <2>1, KnownTypes, UnknownStep
<1>5. PICK ps \in Seq(Parameters) : ps = known \o rest
  BY ListsAssociate
<1>6. AllFit(ps) /\ EncodedLen(ps) = EncodedLen(known) + EncodedLen(rest)
  BY <1>2, <1>4, <1>5, TwoLists
<1>7. EncodedLen(ps) <= n
  BY <1>3, <1>4, <1>6 DEF Within
<1>8. encodeCRCCVariablePart(t) = encodeVariablePart(ps)
  BY <1>2, <1>4, <1>5, EncodeLists
<1> QED BY <1>6, <1>7, <1>8, ScanEncode DEF EncodedLen

\* assemble succeeds up to an LI of 254.
LEMMA AssembleFits ==
  ASSUME NEW fixed \in Seq(Octet), NEW v \in Seq(Octet), NEW data \in Seq(Octet), NEW var,
         var.err = nil, var.octets = v, Len(fixed) + Len(v) <= 254
  PROVE  /\ assemble(fixed, var, data).err = nil
         /\ Len(assemble(fixed, var, data).octets) = 1 + Len(fixed) + Len(v) + Len(data)
<1>1. PICK f \in Nat, n \in Nat, d \in Nat : f = Len(fixed) /\ n = Len(v) /\ d = Len(data) /\ f + n <= 254
  OBVIOUS
<1>2. PICK li \in Octet : li = f + n
  <2>0. f + n <= 254 /\ f + n \in Nat
    BY <1>1
  <2>1. f + n \in 0 .. 255
    BY <2>0
  <2>2. f + n \in Octet
    BY <2>1 DEF Octet
  <2> QED BY <2>2
<1>3. PICK h \in Seq(Octet) : h = <<li>> /\ Len(h) = 1
  <2>1. <<li>> \in Seq(Octet) /\ Len(<<li>>) = 1
    OBVIOUS
  <2> QED BY <2>1
<1>4. assemble(fixed, var, data) = Wire(nil, ((h \o fixed) \o v) \o data)
  <2>1. ~(li > 254)
    BY <1>1, <1>2
  <2>2. assemble(fixed, var, data) = IF li > MaxLI THEN Wire("ErrInvalidLI", <<>>)
                                     ELSE Wire(nil, ((<<li>> \o fixed) \o v) \o data)
    BY <1>1, <1>2 DEF assemble
  <2> QED BY <1>3, <2>1, <2>2 DEF MaxLI
<1>5. PICK x \in Seq(Octet) : x = h \o fixed /\ Len(x) = Len(h) + Len(fixed)
  BY Joined
<1>6. PICK y \in Seq(Octet) : y = x \o v /\ Len(y) = Len(x) + Len(v)
  BY Joined
<1>7. PICK z \in Seq(Octet) : z = y \o data /\ Len(z) = Len(y) + Len(data)
  BY Joined
<1>8. assemble(fixed, var, data) = Wire(nil, z)
  BY <1>4, <1>5, <1>6, <1>7
<1>9. assemble(fixed, var, data).err = nil /\ assemble(fixed, var, data).octets = z
  BY <1>8 DEF Wire
<1>10. Len(z) = 1 + Len(fixed) + Len(v) + Len(data)
  BY <1>3, <1>5, <1>6, <1>7
<1> QED BY <1>9, <1>10

\* Without an error parseVariablePart returns all that the loop found.
LEMMA ParseScan ==
  ASSUME NEW v \in Seq(Octet), parseVariablePart(v).err = nil
  PROVE  scan(v).err = nil /\ parseVariablePart(v) = scan(v)
<1>1. PICK r \in Outcomes : r = scan(v)
  BY ScanTypes
<1>2. [r EXCEPT !.params = <<>>].err = r.err
  BY DEF Outcomes
<1> QED BY <1>1, <1>2 DEF parseVariablePart

\* What the variable part of a CR or CC made the fields to be can be encoded
\* again in as many octets.
LEMMA CRCCWithin ==
  ASSUME NEW v \in Seq(Octet), NEW r, r = parseCRCCVariablePart(v), r.err = nil
  PROVE  /\ r.params \in Seq(Parameters) /\ Unknown(r.params) = r.params /\ AllFit(r.params)
         /\ Within(r.calling, r.called, r.size, r.pref, EncodedLen(r.params), Len(v))
<1>1. PICK s : s = parseVariablePart(v).params
  OBVIOUS
<1>2. s \in Seq(Parameters) /\ s = scan(v).params /\ scan(v).err = nil
  <2>1. parseVariablePart(v).err = nil
    BY ParseCRCC
  <2>2. parseVariablePart(v) = scan(v) /\ scan(v).err = nil
    BY <2>1, ParseScan
  <2>3. scan(v).params \in Seq(Parameters)
    BY ScanTypes DEF Outcomes
  <2> QED BY <1>1, <2>2, <2>3
<1>3. r = Applied(s) /\ Applied(s).err = nil
  BY <1>1, ParseCRCC DEF Applied
<1>4. encodeVariablePart(s) = Wire(nil, v)
  BY <1>2, EncodeScan
<1>5. encodeVariablePart(s).err = nil /\ EncodedLen(s) = Len(v)
  BY <1>4 DEF Wire, EncodedLen
<1>6. AllFit(s)
  BY <1>2, <1>5, EncodedFit
<1>7. r.params = Unknown(s)
  BY <1>2, <1>3, ApplyAll DEF Applied
<1>8. ListWithin(s)
  BY <1>2, <1>3, <1>6, AllWithin
<1>9. Within(r.calling, r.called, r.size, r.pref, EncodedLen(r.params), Len(v))
  BY <1>3, <1>5, <1>7, <1>8 DEF ListWithin
<1> QED BY <1>2, <1>6, <1>7, <1>9, UnknownStep, UnknownKept

\* A decoded CR or CC.
LEMMA CRCCStable ==
  ASSUME NEW type \in {"CR", "CC"}, NEW b \in Seq(Octet), decodeCRCC(type, b).err = nil, NEW v, v = variablePart(type, b)
  PROVE  \E t \in TPDU : /\ decodeCRCC(type, b) = Ok(t) /\ t.type = type /\ Canonical(t) = t /\ t.data = userData(b)
                         /\ headerError(type, b) = nil /\ v \in Seq(Octet)
                         /\ Unknown(t.params) = t.params /\ AllFit(t.params)
                         /\ Within(t.calling, t.called, t.size, t.pref, EncodedLen(t.params), Len(v))
<1>1. type \in Types /\ type # "DT" /\ type # "RJ" /\ type \in HasUserData
  BY TypeTable DEF HasUserData
<1>2. PICK r : r = parseCRCCVariablePart(v)
  OBVIOUS
<1>3. PICK t : t = WithAll(fixedFields(type, b), r.calling, r.called, r.size, r.pref, r.params)
  OBVIOUS
<1>4. headerError(type, b) = nil /\ r.err = nil /\ decodeCRCC(type, b) = Ok(t)
  <2>1. decodeCRCC(type, b) = IF headerError(type, b) # nil THEN Fail(headerError(type, b))
                              ELSE IF r.err # nil THEN Fail(r.err) ELSE Ok(t)
    BY <1>2, <1>3 DEF decodeCRCC, WithAll
  <2> QED BY <2>1, FailOk
<1>5. v \in Seq(Octet)
  BY <1>1, <1>4, VariableTypes
<1>6. /\ r.params \in Seq(Parameters) /\ Unknown(r.params) = r.params /\ AllFit(r.params)
      /\ Within(r.calling, r.called, r.size, r.pref, EncodedLen(r.params), Len(v))
  BY <1>2, <1>4, <1>5, CRCCWithin
<1>7. PICK cdt, dst, src, opt, nr, eot, data :
        /\ IsBare(fixedFields(type, b), type, cdt, dst, src, opt, nr, eot, data)
        /\ Proper(type, cdt, dst, src, opt, nr, eot, data)
  BY <1>1, <1>4, FixedProper
<1>8. t = Fields(type, cdt, dst, src, opt, nr, eot, r.calling, r.called, r.size, r.pref, r.params, data)
  BY <1>3, <1>7, FieldsExcept
<1>9. ProperParams(type, r.calling, r.called, r.size, r.pref, r.params)
  <2>1. r.calling \in Selector /\ r.called \in Selector
    BY <1>6, CostTypes DEF Within
  <2>2. /\ r.size \in Octet \cup {None} /\ r.pref \in Nat \cup {None} /\ (r.pref # None => Is32Bit(r.pref))
    BY <1>6 DEF Within, FitPreferred
  <2> QED BY <1>1, <1>6, <2>1, <2>2 DEF ProperParams
<1>10. t \in TPDU /\ Canonical(t) = t
  BY <1>1, <1>7, <1>8, <1>9, ProperTPDU
<1>11. /\ t.type = type /\ t.data = data /\ t.params = r.params /\ t.calling = r.calling /\ t.called = r.called
       /\ t.size = r.size /\ t.pref = r.pref
  BY <1>8 DEF Fields
<1>12. data = userData(b)
  <2>1. fixedFields(type, b).data = data
    BY <1>7 DEF IsBare, Fields
  <2>2. fixedFields(type, b).data = userData(b)
    BY <1>1 DEF fixedFields
  <2> QED BY <2>1, <2>2
<1> QED BY <1>4, <1>5, <1>6, <1>10, <1>11, <1>12

\* A decoded CR or CC can be forwarded: neither LI nor the limit of 128 octets
\* of a CR is exceeded.
LEMMA CRCCRelayed ==
  ASSUME NEW type \in {"CR", "CC"}, NEW b \in Seq(Octet), decodeCRCC(type, b).err = nil,
         type = "CR" => Len(b) <= 128
  PROVE  RelayedFrom(decodeCRCC(type, b), b)
<1>1. PICK v : v = variablePart(type, b)
  OBVIOUS
<1>2. PICK t \in TPDU :
        /\ decodeCRCC(type, b) = Ok(t) /\ t.type = type /\ Canonical(t) = t /\ t.data = userData(b)
        /\ headerError(type, b) = nil /\ v \in Seq(Octet)
        /\ Unknown(t.params) = t.params /\ AllFit(t.params)
        /\ Within(t.calling, t.called, t.size, t.pref, EncodedLen(t.params), Len(v))
  BY <1>1, CRCCStable
<1>3. PICK var, w : var = encodeCRCCVariablePart(t) /\ w = var.octets
  OBVIOUS
<1>4. var.err = nil /\ w \in Seq(Octet) /\ Len(w) <= Len(v)
  BY <1>2, <1>3, CRCCFits
<1>5. type \in Types /\ type # "DT" /\ type # "ED" /\ t.dst # None
  BY <1>2, TypeTable, TPDUAbsent
<1>6. PICK n \in 4 .. 6 : n = FixedPartLength[type]
  BY <1>5, FixedLengths
<1>7. PICK fixed \in Seq(Octet) : fixed = fixedPart(t) /\ Len(fixed) = n
  BY <1>2, <1>5, <1>6, FixedRead DEF FixedShape
<1>8. PICK li \in Octet : li = b[1] /\ li \in n .. 254 /\ HeaderLength(b) = 1 + li /\ 1 + li <= Len(b)
  <2>1. b[1] \in Octet /\ n <= b[1] /\ HeaderLength(b) <= Len(b) /\ ReadLI(b) = nil /\ Len(b) >= 2
    BY <1>2, <1>5, <1>6, HeaderChecked DEF LooksLike, MinHeaderLength
  <2>2. PICK m \in Octet : m = b[1]
    BY <2>1
  <2>3. ~(m > 254)
    BY <2>1, <2>2 DEF ReadLI, MaxLI, nil
  <2>4. m \in n .. 254
    BY <2>1, <2>2, <2>3 DEF Octet
  <2> QED BY <2>1, <2>2, <2>4 DEF HeaderLength
<1>9. PICK m \in n .. 254, len \in Nat : m = li /\ len = Len(b) /\ 1 + m <= len
  BY <1>8
<1>10. PICK data \in Seq(Octet) : data = userData(b) /\ Len(data) = len - (1 + m)
  <2>1. PICK i \in Int : i = (1 + m) + 1
    OBVIOUS
  <2>2. 1 <= i /\ i - 1 <= len /\ len <= Len(b) /\ len \in Int
    BY <1>9, <2>1
  <2>3. SubSeq(b, i, len) \in Seq(Octet) /\ Len(SubSeq(b, i, len)) = (len - i) + 1
    BY <2>2, PieceOf
  <2>4. (len - i) + 1 = len - (1 + m)
    BY <2>1
  <2>5. userData(b) = SubSeq(b, i, len)
    BY <1>8, <1>9, <2>1 DEF userData
  <2> QED BY <2>3, <2>4, <2>5
<1>11. Len(v) = m - n
  <2>1. PICK i \in Int, j \in Int : i = 2 + n /\ j = 1 + m
    OBVIOUS
  <2>2. 1 <= i /\ i - 1 <= j /\ j <= Len(b)
    BY <1>9, <2>1
  <2>3. Len(SubSeq(b, i, j)) = (j - i) + 1
    BY <2>2, PieceOf
  <2>4. (j - i) + 1 = m - n
    BY <2>1
  <2>5. v = SubSeq(b, i, j)
    BY <1>1, <1>6, <1>8, <1>9, <2>1 DEF variablePart
  <2> QED BY <2>3, <2>4, <2>5
<1>12. PICK k \in Nat : k = Len(w) /\ k <= m - n
  BY <1>4, <1>11, SMTT(40)
<1>13. Len(fixed) + Len(w) <= 254
  <2>1. n + k <= 254
    BY <1>12
  <2> QED BY <1>7, <1>12, <2>1
<1>14. PICK a : a = assemble(fixed, var, data)
  OBVIOUS
<1>15. a.err = nil /\ Len(a.octets) = 1 + Len(fixed) + Len(w) + Len(data)
  <2>1. var.octets = w /\ var.err = nil /\ w \in Seq(Octet)
    BY <1>3, <1>4
  <2>2. /\ assemble(fixed, var, data).err = nil
        /\ Len(assemble(fixed, var, data).octets) = 1 + Len(fixed) + Len(w) + Len(data)
    BY <1>13, <2>1, AssembleFits
  <2> QED BY <1>14, <2>2
<1>16. Len(a.octets) <= len
  <2>1. 1 + n + k + (len - (1 + m)) <= len
    BY <1>9, <1>12
  <2> QED BY <1>7, <1>10, <1>12, <1>15, <2>1
<1>17. Marshal(t) = a
  <2>1. a = assemble(fixedPart(t), encodeCRCCVariablePart(t), t.data)
    BY <1>2, <1>3, <1>7, <1>10, <1>14
  <2>2. CASE type = "CC"
    BY <1>2, <2>1, <2>2 DEF Marshal, MarshalCC
  <2>3. CASE type = "CR"
    <3>1. PICK q \in Nat : q = Len(a.octets)
      <4>1. 1 + n + k + (len - (1 + m)) \in Nat
        BY <1>9
      <4> QED BY <1>7, <1>10, <1>12, <1>15, <4>1
    <3>2. len <= 128
      BY <1>9, <2>3
    <3>3. q <= len
      BY <1>16, <3>1
    <3>4. ~(q > 128)
      BY <3>2, <3>3
    <3>5. ~(Len(a.octets) > MaxCRTPDULength)
      BY <3>1, <3>4 DEF MaxCRTPDULength
    <3>6. Marshal(t) = IF a.err = nil /\ Len(a.octets) > MaxCRTPDULength THEN Wire("ErrLengthMismatch", <<>>) ELSE a
      BY <1>2, <2>1, <2>3 DEF Marshal, MarshalCR
    <3> QED BY <3>5, <3>6
  <2> QED BY <2>2, <2>3
<1>18. Relayed(t, b)
  BY <1>2, <1>5, <1>9, <1>15, <1>16, <1>17 DEF Relayed
<1> QED BY <1>2, <1>18, FailOk DEF RelayedFrom

\* Whatever octets arrive, and however many parameters they hold: what Decode
\* accepts can be marshalled, in no more octets, and decodes to the same TPDU.
THEOREM RelayedKept == Spec => []RelayKeepsTPDU
<1>1. ExchangeInv /\ HistoryInv => RelayKeepsTPDU
  <2> SUFFICES ASSUME ExchangeInv, HistoryInv PROVE RelayKeepsTPDU
    OBVIOUS
  <2>1. ASSUME got.err = nil
        PROVE  RelayedFrom(got, sent.octets)
    <3>1. PICK type \in Types, b \in Seq(Octet) : type = got.tpdu.type /\ b = sent.octets
      BY <2>1, GotDecoded
    <3>2. /\ got = DecodeAs(type, b) /\ DecodeAs(type, b).err = nil
          /\ type \in {"CR", "CC"} => got = decodeCRCC(type, b)
          /\ type = "CR" => Len(b) <= 128
      BY <2>1, <3>1, GotDecoded
    <3>3. CASE type \in {"CR", "CC"}
      BY <2>1, <3>1, <3>2, <3>3, CRCCRelayed
    <3>4. CASE type = "DT"
      <4>1. DecodeAs(type, b) = DecodeDT(b)
        BY <3>4 DEF DecodeAs
      <4> QED BY <3>1, <3>2, <4>1, DTRelayed
    <3>5. CASE type \notin {"CR", "CC", "DT"}
      BY <3>1, <3>2, <3>5, PlainRelayed
    <3> QED BY <3>3, <3>4, <3>5
  <2>2. got.err = nil /\ stage # "received" => forwarded.err = nil
    <3> SUFFICES ASSUME got.err = nil, stage # "received" PROVE forwarded.err = nil
      OBVIOUS
    <3>1. stage \in {"forwarded", "over"}
      BY DEF ExchangeInv
    <3>2. forwarded = Marshal(got.tpdu)
      BY <3>1 DEF HistoryInv
    <3> QED BY <2>1, <3>2 DEF RelayedFrom, Relayed
  <2>3. forwarded.err = nil => got.err = nil /\ forwarded = Marshal(got.tpdu)
    BY DEF ExchangeInv
  <2>4. forwarded.err = nil => Len(forwarded.octets) <= Len(sent.octets)
    BY <2>1, <2>3 DEF RelayedFrom, Relayed
  <2>5. stage = "over" /\ forwarded.err = nil => regot = got
    <3> SUFFICES ASSUME stage = "over", forwarded.err = nil PROVE regot = got
      OBVIOUS
    <3>1. PICK t \in TPDU : t = got.tpdu /\ got = Ok(t) /\ Canonical(t) = t
      BY <2>1, <2>3 DEF RelayedFrom, Relayed
    <3>2. Marshal(t).err = nil /\ ~(t.type = "DT" /\ t.dst = None /\ t.params # <<>>)
      BY <2>1, <2>3, <3>1 DEF RelayedFrom, Relayed
    <3>3. ReadAs(Marshal(t).octets, Canonical(t))
      BY <3>2, DecodeMarshal
    <3>4. regot = Decode(Marshal(t).octets)
      BY <2>3, <3>1 DEF HistoryInv
    <3> QED BY <3>1, <3>3, <3>4 DEF ReadAs
  <2> QED BY <2>2, <2>4, <2>5 DEF RelayKeepsTPDU, Decoded
<1> QED BY <1>1, ExchangeInvariant, HistoryInvariant, PTL
=============================================================================
