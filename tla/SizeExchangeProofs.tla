------------------------- MODULE SizeExchangeProofs -------------------------
(***************************************************************************)
(* The four invariants of SizeExchange, for every set of valid ceilings    *)
(* and whatever codes and units another implementation sends.  The TLC run *)
(* takes ten ceilings at the edges of the branches; the theorems take all  *)
(* of them.                                                                *)
(*                                                                         *)
(* None of the four is inductive: each speaks of the outcome of one end,   *)
(* which is what that end computed from parameters that crossed the wire.  *)
(* The strengthening ExchangeInv says where each value came from; what the *)
(* computations give is SizeNegotiationProofs.                             *)
(***************************************************************************)
EXTENDS SizeExchange, SizeNegotiationProofs

Wire == {SizeParams(code, units) : code \in Codes \cup {None}, units \in Units \cup {None}}

\* The configurations never change and are valid.
ConfigInv ==
  /\ client \in Ceilings /\ server \in Ceilings /\ callback \in Ceilings
  /\ profile \in Profiles

\* Where the two TPDUs' parameters came from.
WireInv ==
  /\ foreign \in {"none", "client", "server"}
  /\ step = "offer" => foreign = "none"
  /\ step # "offer" =>
       IF foreign = "client" THEN cr \in Wire ELSE cr = buildSizeOffer(client, profile)
  /\ foreign = "server" => cc \in Wire /\ step \in {"interpret", "done"}

\* Where the server's outcome came from: it has one unless the offer did not
\* decode or another server answered.
ServerInv ==
  /\ serverEnd # Pending =>
       /\ step \in {"interpret", "done"} /\ foreign # "server"
       /\ decodeSizeOffer(cr).ok
       /\ LET sel == selectSize(Offer(cr), server, callback) IN
          serverEnd = [ok |-> TRUE, effective |-> sel.effective] /\ cc = sel.params
  /\ step = "interpret" /\ foreign # "server" => serverEnd # Pending
  /\ step = "done" /\ foreign = "none" => serverEnd # Pending

\* Where the client's outcome came from.
ClientInv ==
  /\ clientEnd # Pending => step = "done"
  /\ step = "done" /\ foreign # "client" => clientEnd = interpretCCSize(Offer(cr), cc, profile)
  /\ foreign = "client" => clientEnd = Pending

ExchangeInv == ConfigInv /\ WireInv /\ ServerInv /\ ClientInv

\* The configured ceilings are integers that preflight lets through.
LEMMA CeilingFacts ==
  ASSUME ConfigInv
  PROVE  /\ client \in Int /\ ValidMax(client)
         /\ server \in Int /\ ValidMax(server)
         /\ callback \in Int /\ ValidMax(callback)
BY CeilingsAssumption DEF ConfigInv

\* A CR that decodes carries parameters of the class, whoever sent it.
LEMMA DecodedCR ==
  ASSUME ConfigInv, WireInv, step # "offer", decodeSizeOffer(cr).ok
  PROVE  cr \in DecodedParams
<1>1. CASE foreign = "client"
  <2>1. PICK code \in Codes \cup {None}, units \in Units \cup {None} : cr = SizeParams(code, units)
    BY <1>1 DEF WireInv, Wire
  <2> QED BY <2>1, DecodeChecks
<1>2. CASE foreign # "client"
  BY <1>2, CeilingFacts, OfferShape DEF WireInv, ConfigInv
<1> QED BY <1>1, <1>2

\* The two ends start with nothing computed.
LEMMA ExchangeInit == Init => ExchangeInv
<1> SUFFICES ASSUME Init PROVE ExchangeInv
  OBVIOUS
<1>1. ConfigInv
  BY DEF Init, ConfigInv
<1>2. WireInv
  BY DEF Init, WireInv
<1>3. ServerInv
  BY DEF Init, ServerInv
<1>4. ClientInv
  BY DEF Init, ClientInv
<1> QED BY <1>1, <1>2, <1>3, <1>4 DEF ExchangeInv

\* Every step of either end, of this code or another's, keeps ExchangeInv.
LEMMA ExchangeStep == ExchangeInv /\ [Next]_vars => ExchangeInv'
<1> SUFFICES ASSUME ExchangeInv, [Next]_vars PROVE ExchangeInv'
  OBVIOUS
<1> USE DEF ExchangeInv
<1>1. CASE ClientOffers
  <2>1. ConfigInv'
    BY <1>1 DEF ClientOffers, ConfigInv, config
  <2>2. WireInv'
    BY <1>1 DEF ClientOffers, WireInv, config
  <2>3. ServerInv'
    BY <1>1 DEF ClientOffers, ServerInv, WireInv, config
  <2>4. ClientInv'
    BY <1>1 DEF ClientOffers, ClientInv, WireInv, config
  <2> QED BY <2>1, <2>2, <2>3, <2>4
<1>2. CASE OtherOffers
  <2>1. ConfigInv'
    BY <1>2 DEF OtherOffers, ConfigInv, config
  <2>2. WireInv'
    BY <1>2 DEF OtherOffers, WireInv, Wire, config
  <2>3. ServerInv'
    BY <1>2 DEF OtherOffers, ServerInv, WireInv, config
  <2>4. ClientInv'
    BY <1>2 DEF OtherOffers, ClientInv, WireInv, config
  <2> QED BY <2>1, <2>2, <2>3, <2>4
<1>3. CASE ServerSelects
  <2> DEFINE sel == selectSize(Offer(cr), server, callback)
  <2>0. /\ decodeSizeOffer(cr).offer = Offer(cr)
        /\ step = "select"
        /\ foreign = "server" => FALSE
    BY <1>3 DEF ServerSelects, decodeSizeOffer, WireInv
  <2>1. ConfigInv'
    BY <1>3 DEF ServerSelects, ConfigInv, config
  <2>2. WireInv'
    BY <1>3, <2>0 DEF ServerSelects, WireInv, Wire, config
  <2>3. ServerInv'
    <3>1. CASE decodeSizeOffer(cr).ok
      <4>1. /\ serverEnd' = [ok |-> TRUE, effective |-> sel.effective] /\ cc' = sel.params
            /\ step' = "interpret" /\ UNCHANGED <<client, server, callback, profile, foreign, cr>>
        BY <1>3, <2>0, <3>1 DEF ServerSelects, config
      <4>2. serverEnd' # Pending
        BY <4>1 DEF Pending
      <4> QED BY <2>0, <3>1, <4>1, <4>2 DEF ServerInv
    <3>2. CASE ~decodeSizeOffer(cr).ok
      <4>1. step' = "done" /\ UNCHANGED <<client, server, callback, profile, foreign, cr, serverEnd, cc>>
        BY <1>3, <3>2 DEF ServerSelects, config
      <4>2. foreign = "client"
        BY <2>0, <3>2, CeilingFacts, OfferShape DEF WireInv, ConfigInv
      <4>3. serverEnd = Pending
        BY <2>0 DEF ServerInv
      <4> QED BY <4>1, <4>2, <4>3 DEF ServerInv, Pending
    <3> QED BY <3>1, <3>2
  <2>4. ClientInv'
    <3>1. clientEnd' = clientEnd /\ foreign' = foreign /\ clientEnd = Pending
      BY <1>3, <2>0 DEF ServerSelects, ClientInv
    <3>2. foreign' # "client" => step' = "interpret"
      BY <1>3, <2>0, CeilingFacts, OfferShape DEF ServerSelects, WireInv, ConfigInv
    <3> QED BY <3>1, <3>2 DEF ClientInv, Pending
  <2> QED BY <2>1, <2>2, <2>3, <2>4
<1>4. CASE OtherSelects
  <2>1. ConfigInv'
    BY <1>4 DEF OtherSelects, ConfigInv, config
  <2>2. WireInv'
    BY <1>4 DEF OtherSelects, WireInv, Wire, config
  <2>3. ServerInv'
    BY <1>4 DEF OtherSelects, ServerInv, config
  <2>4. ClientInv'
    BY <1>4 DEF OtherSelects, ClientInv, config
  <2> QED BY <2>1, <2>2, <2>3, <2>4
<1>5. CASE ClientInterprets
  <2>1. ConfigInv'
    BY <1>5 DEF ClientInterprets, ConfigInv, config
  <2>2. WireInv'
    BY <1>5 DEF ClientInterprets, WireInv, Wire, config
  <2>3. ServerInv'
    BY <1>5 DEF ClientInterprets, ServerInv, config
  <2>4. ClientInv'
    BY <1>5 DEF ClientInterprets, ClientInv, config
  <2> QED BY <2>1, <2>2, <2>3, <2>4
<1>6. CASE UNCHANGED vars
  BY <1>6 DEF vars, config, ConfigInv, WireInv, Wire, ServerInv, ClientInv
<1> QED BY <1>1, <1>2, <1>3, <1>4, <1>5, <1>6 DEF Next

\* The inductive invariant holds in every reachable state.
LEMMA ExchangeInvariant == Spec => []ExchangeInv
BY ExchangeInit, ExchangeStep, PTL DEF Spec

\* What the server's outcome is worth: the limit, rounded once.
LEMMA ServerOutcome ==
  ASSUME ExchangeInv, serverEnd.ok
  PROVE  /\ cr \in DecodedParams
         /\ InClass(Limit(cr, server, callback))
         /\ serverEnd = [ok |-> TRUE, effective |-> Selection(cr, Limit(cr, server, callback)).effective]
         /\ cc = Selection(cr, Limit(cr, server, callback)).params
<1>1. serverEnd # Pending
  BY DEF Pending
<1>2. /\ step # "offer" /\ decodeSizeOffer(cr).ok
      /\ serverEnd = [ok |-> TRUE, effective |-> selectSize(Offer(cr), server, callback).effective]
      /\ cc = selectSize(Offer(cr), server, callback).params
  BY <1>1 DEF ExchangeInv, ServerInv
<1>3. cr \in DecodedParams
  BY <1>2, DecodedCR DEF ExchangeInv
<1>4. InClass(Limit(cr, server, callback))
  BY <1>3, CeilingFacts, LimitRange DEF ExchangeInv
<1>5. selectSize(Offer(cr), server, callback) = Selection(cr, Limit(cr, server, callback))
  BY <1>3, CeilingFacts, SelectionIsRoundedLimit DEF ExchangeInv
<1> QED BY <1>2, <1>3, <1>4, <1>5

-----------------------------------------------------------------------------
\* Two ends of this code agree on the size, for every pair of ceilings, every
\* ceiling of the callback and both profiles (buildSizeOffer, selectSize and
\* interpretCCSize fit together).
THEOREM EndsAgreeOnSize == Spec => []SizesAgree
<1>1. ExchangeInv => SizesAgree
  <2> SUFFICES ASSUME ExchangeInv, step = "done", foreign = "none"
               PROVE  clientEnd.ok /\ serverEnd.ok /\ clientEnd = serverEnd
    BY DEF SizesAgree
  <2> DEFINE sel == selectSize(Offer(cr), server, callback)
  <2>1. serverEnd = [ok |-> TRUE, effective |-> sel.effective] /\ cc = sel.params
    BY DEF ExchangeInv, ServerInv
  <2>2. clientEnd = interpretCCSize(Offer(cr), cc, profile)
    BY DEF ExchangeInv, ClientInv
  <2>3. cr = buildSizeOffer(client, profile)
    BY DEF ExchangeInv, WireInv
  <2>4. profile \in Profiles
    BY DEF ExchangeInv, ConfigInv
  <2>5. interpretCCSize(Offer(cr), sel.params, profile) = [ok |-> TRUE, effective |-> sel.effective]
    BY <2>3, <2>4, CeilingFacts, InterpretsSelection DEF ExchangeInv
  <2>6. clientEnd = serverEnd
    BY <2>1, <2>2, <2>5
  <2> HIDE DEF sel
  <2> QED BY <2>1, <2>6
<1> QED BY <1>1, ExchangeInvariant, PTL

\* An end that opens works within its own ceiling and the class, whatever the
\* other end sent.
THEOREM CeilingsKept == Spec => []WithinOwnCeiling
<1>1. ExchangeInv => WithinOwnCeiling
  <2> SUFFICES ASSUME ExchangeInv PROVE WithinOwnCeiling
    OBVIOUS
  <2>1. /\ client \in Int /\ ValidMax(client) /\ server \in Int /\ ValidMax(server)
        /\ callback \in Int /\ ValidMax(callback) /\ profile \in Profiles
    BY CeilingFacts DEF ExchangeInv, ConfigInv
  <2>2. ASSUME NEW n \in Int, NEW c \in Int, ValidMax(c), 128 <= n, n <= normalizeConfiguredMax(c)
        PROVE  n \in Allowed(c)
    <3>1. normalizeConfiguredMax(c) \in Int
      BY <2>2, NormalizedRange DEF InClass
    <3> QED BY <2>2, <3>1 DEF Allowed, MinTPDULength
  <2>3. ASSUME clientEnd.ok PROVE clientEnd.effective \in Allowed(client)
    <3>1. clientEnd # Pending
      BY <2>3 DEF Pending
    <3>2. step = "done" /\ foreign # "client"
      BY <3>1 DEF ExchangeInv, ClientInv
    <3>3. cr = buildSizeOffer(client, profile) /\ clientEnd = interpretCCSize(Offer(cr), cc, profile)
      BY <3>2 DEF ExchangeInv, WireInv, ClientInv
    <3>4. \E code, units : cc = SizeParams(code, units)
      <4>1. CASE foreign = "server"
        BY <4>1 DEF ExchangeInv, WireInv, Wire
      <4>2. CASE foreign # "server"
        <5>1. serverEnd # Pending
          BY <3>2, <4>2 DEF ExchangeInv, WireInv, ServerInv
        <5>2. serverEnd.ok
          BY <5>1 DEF ExchangeInv, ServerInv
        <5>3. cc \in DecodedParams
          BY <5>2, ServerOutcome, SelectionRange
        <5> QED BY <5>3, ParamsCases
      <4> QED BY <4>1, <4>2
    <3>5. PICK code, units : cc = SizeParams(code, units)
      BY <3>4
    <3>6. /\ clientEnd.effective \in Int /\ 128 <= clientEnd.effective
          /\ clientEnd.effective <= normalizeConfiguredMax(client)
      BY <2>1, <2>3, <3>3, <3>5, InterpretRange
    <3> QED BY <2>1, <2>2, <3>6
  <2>4. ASSUME serverEnd.ok PROVE serverEnd.effective \in Allowed(server) \cap Allowed(callback)
    <3> DEFINE limit == Limit(cr, server, callback)
               effective == serverEnd.effective
    <3>1. cr \in DecodedParams /\ InClass(limit) /\ effective = Selection(cr, limit).effective
      BY <2>4, ServerOutcome
    <3>2. effective \in Int /\ 128 <= effective /\ effective <= limit
      BY <3>1, SelectionRange
    <3>3. limit <= normalizeConfiguredMax(server) /\ limit <= normalizeConfiguredMax(callback)
      BY <2>1, <3>1, LimitRange
    <3>4. /\ limit \in Int /\ normalizeConfiguredMax(server) \in Int /\ normalizeConfiguredMax(callback) \in Int
      BY <2>1, <3>1, NormalizedRange DEF InClass
    <3> HIDE DEF limit, effective
    <3>5. effective <= normalizeConfiguredMax(server) /\ effective <= normalizeConfiguredMax(callback)
      BY <3>2, <3>3, <3>4
    <3>6. effective \in Allowed(server) /\ effective \in Allowed(callback)
      BY <2>1, <2>2, <3>2, <3>5
    <3> QED BY <3>6 DEF effective
  <2> QED BY <2>3, <2>4 DEF WithinOwnCeiling
<1> QED BY <1>1, ExchangeInvariant, PTL

\* The server selects the largest size the chosen parameter can express within
\* the CR's proposal and both ceilings.
THEOREM SelectionIsOptimal == Spec => []SelectsLargest
<1>1. ExchangeInv => SelectsLargest
  <2> SUFFICES ASSUME ExchangeInv, serverEnd.ok PROVE SelectsLargest
    BY DEF SelectsLargest
  <2> DEFINE peer == Offer(cr)
             limit == Limit(cr, server, callback)
             effective == serverEnd.effective
             sel == Selection(cr, limit)
             omitted == IF peer.standard = None THEN {DefaultMaxTPDULength} ELSE {}
             sizes == IF peer.preferred # None THEN {128 * u : u \in 1 .. MaxPreferredUnitsITOT}
                      ELSE StandardSizes \cup omitted
  <2>1. cr \in DecodedParams /\ InClass(limit) /\ effective = sel.effective
    BY ServerOutcome
  <2>2. /\ sel.effective \in Int /\ 128 <= sel.effective /\ sel.effective <= limit
        /\ \/ /\ cr.units # None
              /\ sel.params.units \in 1 .. MaxPreferredUnitsITOT
              /\ sel.effective = sel.params.units * 128
           \/ /\ cr.units = None /\ cr.code = None /\ sel.effective = 65531
           \/ /\ cr.units = None
              /\ sel.params.code \in StandardCodes
              /\ sel.effective = class0StandardSize(sel.params.code)
    BY <2>1, SelectionRange
  <2>3. /\ cr.units # None =>
             \A u \in 1 .. MaxPreferredUnitsITOT : 128 * u <= limit => 128 * u <= sel.effective
        /\ cr.units = None =>
             \A code \in StandardCodes :
               class0StandardSize(code) <= limit => class0StandardSize(code) <= sel.effective
        /\ cr.units = None /\ cr.code = None /\ DefaultMaxTPDULength <= limit =>
             DefaultMaxTPDULength <= sel.effective
    BY <2>1, SelectionIsLargest
  <2>4. /\ peer.preferred = None <=> cr.units = None
        /\ peer.standard = None <=> cr.code = None
    BY <2>1, OfferSizes, ParamsCases
  <2>5. SUFFICES IsLargestWithin(effective, sizes, limit)
    BY DEF SelectsLargest, Limit
  <2>6. \A s : s \in StandardSizes <=> \E code \in StandardCodes : s = class0StandardSize(code)
    <3>1. ASSUME NEW s \in StandardSizes PROVE \E code \in StandardCodes : s = class0StandardSize(code)
      <4>1. /\ 7 \in StandardCodes /\ 8 \in StandardCodes /\ 9 \in StandardCodes /\ 10 \in StandardCodes
            /\ 11 \in StandardCodes /\ 12 \in StandardCodes /\ 13 \in StandardCodes
            /\ 14 \in StandardCodes /\ 15 \in StandardCodes /\ 16 \in StandardCodes
        BY DEF StandardCodes
      <4>2. \/ s = 128 \/ s = 256 \/ s = 512 \/ s = 1024 \/ s = 2048 \/ s = 4096
            \/ s = 8192 \/ s = 16384 \/ s = 32768 \/ s = 65536
        BY DEF StandardSizes
      <4> QED BY <4>1, <4>2, SizeTable
    <3>2. ASSUME NEW code \in StandardCodes PROVE class0StandardSize(code) \in StandardSizes
      BY SizeTable, CodeCases DEF StandardSizes
    <3> QED BY <3>1, <3>2
  <2> HIDE DEF sel, limit
  <2>7. CASE cr.units # None
    <3>1. sizes = {128 * u : u \in 1 .. MaxPreferredUnitsITOT}
      BY <2>4, <2>7
    <3>2. sel.params.units * 128 = 128 * sel.params.units
      BY <2>2, <2>7 DEF MaxPreferredUnitsITOT
    <3>3. effective \in sizes
      BY <2>1, <2>2, <2>7, <3>1, <3>2
    <3>4. \A t \in sizes : t <= limit => t <= effective
      BY <2>1, <2>3, <2>7, <3>1
    <3> QED BY <2>1, <2>2, <3>3, <3>4 DEF IsLargestWithin
  <2>8. CASE cr.units = None
    <3>1. sizes = StandardSizes \cup omitted
      BY <2>4, <2>8
    <3>2. omitted = IF cr.code = None THEN {65531} ELSE {}
      BY <2>4 DEF DefaultMaxTPDULength
    <3>3. effective \in sizes
      BY <2>1, <2>2, <2>6, <2>8, <3>1, <3>2
    <3>4. ASSUME NEW t \in sizes, t <= limit PROVE t <= effective
      <4>1. CASE t \in StandardSizes
        BY <2>1, <2>3, <2>6, <2>8, <3>4, <4>1
      <4>2. CASE t \notin StandardSizes
        <5>1. t = DefaultMaxTPDULength /\ cr.code = None
          BY <3>1, <3>2, <3>4, <4>2 DEF DefaultMaxTPDULength
        <5> QED BY <2>1, <2>3, <2>8, <3>4, <5>1
      <4> QED BY <4>1, <4>2
    <3> QED BY <2>1, <2>2, <3>3, <3>4 DEF IsLargestWithin
  <2> QED BY <2>7, <2>8
<1> QED BY <1>1, ExchangeInvariant, PTL

\* OnConnect may answer with the MaxTPDULength it was told, except the 65536 of
\* a CR with nothing but size code 0x10.
THEOREM EchoIsSafe == Spec => []EchoKeepsSelection
<1>1. ExchangeInv => EchoKeepsSelection
  <2> SUFFICES ASSUME ExchangeInv, serverEnd.ok PROVE EchoKeepsSelection
    BY DEF EchoKeepsSelection
  <2>1. cr \in DecodedParams
    BY ServerOutcome
  <2> QED BY <2>1, CeilingFacts, EchoIsNeutral
         DEF EchoKeepsSelection, indicationMaxTPDULength, ExchangeInv
<1> QED BY <1>1, ExchangeInvariant, PTL
=============================================================================
