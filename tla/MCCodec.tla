------------------------------ MODULE MCCodec ------------------------------
(* CodecExchange for TLC: octets around every limit and format.            *)
EXTENDS CodecExchange

\* The first n octets of something long.
Some(n) == [i \in 1 .. n |-> 5]
Seqs(S, n) == UNION {[1 .. m -> S] : m \in 0 .. n}
Param(code, value) == [code |-> code, value |-> value]
Long(n) == Param(7, Some(n))

-----------------------------------------------------------------------------
(* What users marshal                                                      *)

Plain(type) ==
  [type |-> type, cdt |-> IF type \in HasCDT THEN 3 ELSE None, dst |-> 258,
   src |-> IF type \in HasSource THEN 9 ELSE None, opt |-> IF type \in HasOption THEN 200 ELSE None,
   nr |-> IF type \in {"DT", "ED"} THEN 127 ELSE None, eot |-> FALSE,
   calling |-> Absent, called |-> Absent, size |-> None, pref |-> None,
   params |-> <<>>, data |-> IF type = "ED" THEN <<6>> ELSE <<>>]

\* Lists at the limits of LI with a fixed part of 2, 4, 5 or 6 octets.
ParamLists ==
  {<<>>, <<Param(7, <<>>)>>, <<Param(197, <<1>>), Param(7, <<2>>)>>, <<Param(193, <<4>>), Param(7, <<2>>)>>,
   <<Long(119)>>, <<Long(120)>>}
    \cup {<<Long(n)>> : n \in 245 .. 251} \cup {<<Long(255)>>, <<Long(256)>>}
    \cup {<<Long(100), Long(n)>> : n \in 143 .. 147}

WithLists ==
  {[Plain(type) EXCEPT !.params = l] : type \in Types \ {"RJ"}, l \in ParamLists}
WithData ==
  {[Plain(type) EXCEPT !.data = Some(n)] : type \in HasUserData, n \in {0, 1, 16, 17, 120, 121, 122, 300}}
WithFields ==
  {[Plain(type) EXCEPT !.dst = d, !.cdt = IF @ = None THEN None ELSE 19] : type \in Types, d \in {0, 255, 65535}}
WithNumbers ==
  {[Plain(type) EXCEPT !.dst = d, !.nr = nr, !.eot = eot] :
     type \in {"DT", "ED"}, d \in {None, 7}, nr \in {None, 0, 127, 255}, eot \in BOOLEAN}
MinimalDTs ==
  {[Plain("DT") EXCEPT !.dst = None, !.params = l] : l \in ParamLists}
Negotiating ==
  {[Plain(type) EXCEPT !.calling = s, !.called = r, !.size = z, !.pref = p] :
     type \in {"CR", "CC"}, s \in {Absent, <<<<>>>>, <<Some(115)>>, <<Some(116)>>},
     r \in {Absent, <<<<1>>>>, <<Some(256)>>}, z \in {None, 10},
     p \in {None, 0, 1, 255, 256, 65535, 65536, 16777216}}

MCTpdus == WithLists \cup WithData \cup WithFields \cup WithNumbers \cup MinimalDTs \cup Negotiating

-----------------------------------------------------------------------------
(* What arrives                                                            *)

Codes == {TPDUType[t] : t \in Types} \cup {TPDUType[t] + 1 : t \in Types} \cup {0, 48, 64, 242}

\* Every code with every LI, in buffers that end before or after the header.
Framed ==
  {<<>>, <<2>>} \cup
  {<<li, code>> \o SubSeq(<<1, 2, 3, 4, 131, 7, 0, 9>>, 1, n) :
     li \in 0 .. 9 \cup {254, 255}, code \in Codes, n \in 0 .. 8}

Fixed(type) == <<TPDUType[type]>> \o SubSeq(<<1, 2, 3, 4, 0>>, 1, FixedPartLength[type] - 1)
Framing(fixed, v, data) == <<Len(fixed) + Len(v)>> \o fixed \o v \o data

\* Variable parts of any octets, well formed or not.
Odd ==
  {Framing(f, v, <<5>>) :
     f \in {Fixed("DR"), Fixed("DC"), Fixed("ED"), <<240, 1, 2, 128>>},
     v \in Seqs({0, 1, 2, 193}, 5)}
    \cup {Framing(Fixed("CC"), v, <<5>>) : v \in Seqs({0, 1, 2, 192, 240}, 5)}

\* Lists of the parameters of a CR or CC, also with an octet cut off.
Listed ==
  {Param(193, <<>>), Param(193, <<5>>), Param(194, <<6>>), Param(192, <<10>>), Param(192, <<>>),
   Param(240, <<4>>), Param(240, <<0, 0, 8>>), Param(240, <<0>>), Param(240, <<1, 0, 0, 0>>),
   Param(240, <<0, 0, 0, 0, 1>>), Param(7, <<1>>), Param(197, <<2>>), Param(206, <<>>)}
Lists ==
  {Framing(Fixed(type), encodeVariablePart(l).octets, <<>>) : type \in {"CR", "CC"}, l \in Seqs(Listed, 3)}
Cut ==
  {Framing(Fixed("CC"), Front(encodeVariablePart(l).octets), <<9>>) : l \in Seqs(Listed, 2) \ {<<>>}}

\* Minimal DTs and what differs from one in an octet; extended DTs; TPDUs at a limit.
Edges ==
  {<<2, code, nr>> \o Some(n) : code \in {240, 241}, nr \in {0, 1, 128, 129}, n \in {0, 1, 2, 300}}
    \cup {<<7, 240, 0, 1, nr>> \o v : nr \in {0, 128}, v \in {<<0, 1, 0>>, <<0, 0, 1>>, <<9, 1, 0, 5>>}}
    \cup {Framing(Fixed("CR"), <<7, n>> \o Some(n), Some(m)) : n \in {118, 119, 120}, m \in 0 .. 2}
    \cup {Framing(Fixed("CC"), <<7, n>> \o Some(n), Some(m)) : n \in 245 .. 247, m \in {0, 100}}
    \cup {Framing(Fixed("ED"), <<>>, Some(n)) : n \in {0, 1, 16, 17}}

MCArrivals == Framed \cup Odd \cup Lists \cup Cut \cup Edges
=============================================================================
