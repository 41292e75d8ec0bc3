------------------------ MODULE SizeNegotiationProofs ------------------------
(***************************************************************************)
(* What the size operators of SizeNegotiation (size_nego.go) compute, for  *)
(* every ceiling that preflight lets through and every offer that decodes. *)
(* The proofs about the exchange (SizeExchangeProofs) and about the        *)
(* handshake (HandshakeProofs) rest on the facts at the end.               *)
(***************************************************************************)
EXTENDS SizeNegotiation, TLAPS

\* A length the class and the framing allow: MinTPDULength .. MaxITOTTPDULength.
InClass(n) == n \in Int /\ 128 <= n /\ n <= 65531

\* The parameters a CR or a CC can carry once they are decoded: the ones
\* decodeSizeOffer lets through.
DecodedParams ==
  [code : StandardCodes \cup {None}, units : (1 .. MaxPreferredUnitsITOT) \cup {None}]

-----------------------------------------------------------------------------
(* The table                                                               *)

\* class0StandardSize on the ten codes of the table.
LEMMA SizeTable ==
  /\ class0StandardSize(7) = 128 /\ class0StandardSize(8) = 256
  /\ class0StandardSize(9) = 512 /\ class0StandardSize(10) = 1024
  /\ class0StandardSize(11) = 2048 /\ class0StandardSize(12) = 4096
  /\ class0StandardSize(13) = 8192 /\ class0StandardSize(14) = 16384
  /\ class0StandardSize(15) = 32768 /\ class0StandardSize(16) = 65536
BY DEF class0StandardSize

\* The codes one by one.
LEMMA CodeCases ==
  \A code \in StandardCodes :
    \/ code = 7 \/ code = 8 \/ code = 9 \/ code = 10 \/ code = 11
    \/ code = 12 \/ code = 13 \/ code = 14 \/ code = 15 \/ code = 16
BY DEF StandardCodes

\* A standard size is an integer between the two ends of the table.
LEMMA SizeRange ==
  \A code \in StandardCodes :
    class0StandardSize(code) \in Int /\ 128 <= class0StandardSize(code) /\ class0StandardSize(code) <= 65536
BY SizeTable, CodeCases

\* A larger code stands for a larger size, and only for one.
LEMMA TableMonotone ==
  ASSUME NEW a \in StandardCodes, NEW b \in StandardCodes
  PROVE  a <= b <=> class0StandardSize(a) <= class0StandardSize(b)
BY SizeTable, CodeCases

\* fallbackCode finds the largest standard size that is not above n; there is
\* one as soon as n is not below the least of them.
LEMMA FallbackIsLargest ==
  ASSUME NEW n \in Int, n >= 128
  PROVE  /\ fallbackCode(n) \in StandardCodes
         /\ fallbackStandard(n) \in Int /\ 128 <= fallbackStandard(n) /\ fallbackStandard(n) <= n
         /\ \A code \in StandardCodes :
              class0StandardSize(code) <= n => class0StandardSize(code) <= fallbackStandard(n)
<1> DEFINE Fits(c) == /\ class0StandardSize(c) <= n
                      /\ \A larger \in StandardCodes : class0StandardSize(larger) <= n => larger <= c
<1>1. \E c \in StandardCodes : Fits(c)
  <2>1. CASE n < 256
    <3>1. Fits(7) BY <2>1, SizeTable, CodeCases
    <3> QED BY <3>1 DEF StandardCodes
  <2>2. CASE n >= 256 /\ n < 512
    <3>1. Fits(8) BY <2>2, SizeTable, CodeCases
    <3> QED BY <3>1 DEF StandardCodes
  <2>3. CASE n >= 512 /\ n < 1024
    <3>1. Fits(9) BY <2>3, SizeTable, CodeCases
    <3> QED BY <3>1 DEF StandardCodes
  <2>4. CASE n >= 1024 /\ n < 2048
    <3>1. Fits(10) BY <2>4, SizeTable, CodeCases
    <3> QED BY <3>1 DEF StandardCodes
  <2>5. CASE n >= 2048 /\ n < 4096
    <3>1. Fits(11) BY <2>5, SizeTable, CodeCases
    <3> QED BY <3>1 DEF StandardCodes
  <2>6. CASE n >= 4096 /\ n < 8192
    <3>1. Fits(12) BY <2>6, SizeTable, CodeCases
    <3> QED BY <3>1 DEF StandardCodes
  <2>7. CASE n >= 8192 /\ n < 16384
    <3>1. Fits(13) BY <2>7, SizeTable, CodeCases
    <3> QED BY <3>1 DEF StandardCodes
  <2>8. CASE n >= 16384 /\ n < 32768
    <3>1. Fits(14) BY <2>8, SizeTable, CodeCases
    <3> QED BY <3>1 DEF StandardCodes
  <2>9. CASE n >= 32768 /\ n < 65536
    <3>1. Fits(15) BY <2>9, SizeTable, CodeCases
    <3> QED BY <3>1 DEF StandardCodes
  <2>10. CASE n >= 65536
    <3>1. Fits(16) BY <2>10, SizeTable, CodeCases
    <3> QED BY <3>1 DEF StandardCodes
  <2> HIDE DEF Fits
  <2> QED BY <2>1, <2>2, <2>3, <2>4, <2>5, <2>6, <2>7, <2>8, <2>9, <2>10
<1>2. fallbackCode(n) = CHOOSE c \in StandardCodes : Fits(c)
  BY DEF fallbackCode
<1> HIDE DEF Fits
<1>3. fallbackCode(n) \in StandardCodes /\ Fits(fallbackCode(n))
  BY <1>1, <1>2
<1> USE DEF Fits
<1>4. fallbackStandard(n) \in Int /\ 128 <= fallbackStandard(n) /\ fallbackStandard(n) <= n
  <2>1. fallbackStandard(n) \in Int /\ 128 <= fallbackStandard(n)
    BY <1>3, SizeRange DEF fallbackStandard
  <2>2. fallbackStandard(n) <= n
    BY <1>3 DEF fallbackStandard
  <2> QED BY <2>1, <2>2
<1>5. ASSUME NEW code \in StandardCodes, class0StandardSize(code) <= n
      PROVE  class0StandardSize(code) <= fallbackStandard(n)
  <2>1. code <= fallbackCode(n)
    BY <1>3, <1>5
  <2> QED BY <2>1, <1>3, TableMonotone DEF fallbackStandard
<1> QED BY <1>3, <1>4, <1>5

\* A standard size is its own fallback, and its code is found again.
LEMMA FallbackOfStandard ==
  ASSUME NEW code \in StandardCodes
  PROVE  /\ fallbackStandard(class0StandardSize(code)) = class0StandardSize(code)
         /\ IsStandard(class0StandardSize(code))
<1> DEFINE n == class0StandardSize(code)
<1>1. n \in Int /\ n >= 128
  BY SizeRange
<1>2. n <= n
  BY <1>1
<1>3. IsStandard(n)
  BY DEF IsStandard
<1> HIDE DEF n
<1>4. fallbackStandard(n) \in Int /\ fallbackStandard(n) <= n
  BY <1>1, FallbackIsLargest
<1>5. n <= fallbackStandard(n)
  BY <1>1, <1>2, FallbackIsLargest DEF n
<1> USE DEF n
<1> QED BY <1>1, <1>3, <1>4, <1>5

\* class0StandardCode inverts the table.
LEMMA CodeOfStandard ==
  ASSUME NEW size, IsStandard(size)
  PROVE  /\ class0StandardCode(size) \in StandardCodes
         /\ class0StandardSize(class0StandardCode(size)) = size
BY DEF IsStandard, class0StandardCode

-----------------------------------------------------------------------------
(* Ceilings                                                                *)

\* A ceiling that preflight lets through stands for one of the class.
LEMMA NormalizedRange ==
  ASSUME NEW c \in Int, ValidMax(c)
  PROVE  InClass(normalizeConfiguredMax(c))
<1>1. CASE c = 0
  BY <1>1 DEF normalizeConfiguredMax, InClass, DefaultMaxTPDULength
<1>2. CASE c # 0
  BY <1>2 DEF ValidMax, normalizeConfiguredMax, InClass, MinTPDULength, MaxITOTTPDULength
<1> QED BY <1>1, <1>2

\* Within the class the cap on the units is never what decides: the units are
\* the ceiling rounded down to a multiple of 128 octets.
LEMMA UnitsRoundDown ==
  ASSUME NEW c \in Int, c >= 128, c <= 65531
  PROVE  /\ preferredUnits(c) \in 1 .. MaxPreferredUnitsITOT
         /\ preferredUnits(c) = c \div 128
         /\ preferredUnits(c) * 128 \in 128 .. c
         /\ \A u \in Int : u * 128 <= c => u <= preferredUnits(c)
<1>1. (c \div 128) \in 1 .. 511 /\ 128 * (c \div 128) <= c /\ c < 128 * (c \div 128) + 128
  OBVIOUS
<1>2. preferredUnits(c) = c \div 128
  BY <1>1 DEF preferredUnits, Least, MaxPreferredUnitsITOT
<1> QED BY <1>1, <1>2 DEF MaxPreferredUnitsITOT

\* A whole number of units is its own rounding.
LEMMA UnitsOfWhole ==
  ASSUME NEW u \in 1 .. MaxPreferredUnitsITOT
  PROVE  /\ u \in Int /\ u * 128 \in Int /\ 128 <= u * 128 /\ u * 128 <= 65408
         /\ (u * 128) \div 128 = u
         /\ preferredUnits(u * 128) = u
BY DEF preferredUnits, Least, MaxPreferredUnitsITOT

-----------------------------------------------------------------------------
(* Rounding commutes with taking the least                                 *)

\* A lower bound never has a larger fallback, and a fallback is final.
LEMMA FallbackMonotone ==
  ASSUME NEW m \in Int, NEW n \in Int, 128 <= m, m <= n
  PROVE  fallbackStandard(m) <= fallbackStandard(n)
<1>1. fallbackCode(m) \in StandardCodes /\ fallbackStandard(m) \in Int /\ fallbackStandard(m) <= m
  BY FallbackIsLargest
<1>2. class0StandardSize(fallbackCode(m)) <= n
  BY <1>1 DEF fallbackStandard
<1>3. class0StandardSize(fallbackCode(m)) <= fallbackStandard(n)
  BY <1>1, <1>2, FallbackIsLargest
<1> QED BY <1>3 DEF fallbackStandard

\* A fallback is its own fallback, with the same code.
LEMMA FallbackFinal ==
  ASSUME NEW n \in Int, 128 <= n
  PROVE  /\ fallbackStandard(fallbackStandard(n)) = fallbackStandard(n)
         /\ fallbackCode(fallbackStandard(n)) = fallbackCode(n)
<1>1. fallbackCode(n) \in StandardCodes /\ fallbackStandard(n) \in Int /\ 128 <= fallbackStandard(n)
  BY FallbackIsLargest
<1>2. fallbackStandard(fallbackStandard(n)) = fallbackStandard(n)
  BY <1>1, FallbackOfStandard DEF fallbackStandard
<1>3. fallbackCode(fallbackStandard(n)) \in StandardCodes
  BY <1>1, FallbackIsLargest
<1>4. class0StandardSize(fallbackCode(fallbackStandard(n))) = class0StandardSize(fallbackCode(n))
  BY <1>2 DEF fallbackStandard
<1>5. class0StandardSize(fallbackCode(n)) \in Int
  BY <1>1, SizeRange
<1>6. fallbackCode(fallbackStandard(n)) <= fallbackCode(n) /\ fallbackCode(n) <= fallbackCode(fallbackStandard(n))
  BY <1>1, <1>3, <1>4, <1>5, TableMonotone
<1> QED BY <1>1, <1>2, <1>3, <1>6 DEF StandardCodes

\* The fallback of the least is the least of the fallbacks.
LEMMA FallbackOfLeast ==
  ASSUME NEW m \in Int, NEW n \in Int, 128 <= m, 128 <= n
  PROVE  Least(fallbackStandard(m), fallbackStandard(n)) = fallbackStandard(Least(m, n))
<1>1. /\ fallbackStandard(m) \in Int /\ fallbackStandard(n) \in Int
  BY FallbackIsLargest
<1>2. CASE m < n
  BY <1>1, <1>2, FallbackMonotone DEF Least
<1>3. CASE n <= m
  BY <1>1, <1>3, FallbackMonotone DEF Least
<1> QED BY <1>2, <1>3

\* The same for units.
LEMMA UnitsOfLeast ==
  ASSUME NEW m, InClass(m), NEW n, InClass(n)
  PROVE  /\ Least(preferredUnits(m) * 128, preferredUnits(n) * 128) = preferredUnits(Least(m, n)) * 128
         /\ InClass(Least(m, n))
<1>1. m \in Int /\ n \in Int /\ 128 <= m /\ m <= 65531 /\ 128 <= n /\ n <= 65531
  BY DEF InClass
<1>2. preferredUnits(m) = m \div 128 /\ preferredUnits(n) = n \div 128
  BY <1>1, UnitsRoundDown
<1>3. m < n => (m \div 128) <= (n \div 128)
  BY <1>1
<1>4. n <= m => (n \div 128) <= (m \div 128)
  BY <1>1
<1> QED BY <1>1, <1>2, <1>3, <1>4 DEF Least, InClass

-----------------------------------------------------------------------------
(* The selection in closed form                                            *)

\* The most the CR's proposal and the two ceilings allow.
Limit(params, configured, callback) ==
  Least(clientEffectiveProposal(Offer(params)),
        Least(normalizeConfiguredMax(configured), normalizeConfiguredMax(callback)))

\* The limit, rounded once to what the chosen parameter can express.
Selection(params, limit) ==
  IF params.units # None
    THEN [effective |-> preferredUnits(limit) * 128, params |-> SizeParams(None, preferredUnits(limit))]
  ELSE IF params.code = None /\ limit = DefaultMaxTPDULength
    THEN [effective |-> limit, params |-> SizeParams(None, None)]
  ELSE [effective |-> fallbackStandard(limit), params |-> SizeParams(fallbackCode(limit), None)]

\* selectOmittedCR: the CR carries no size.
LEMMA OmittedPath ==
  ASSUME NEW server, InClass(server), NEW callback \in Int, ValidMax(callback)
  PROVE  selectOmittedCR(server, callback)
           = Selection(SizeParams(None, None), Least(server, normalizeConfiguredMax(callback)))
<1> DEFINE ceiling == IF callback # 0 THEN Least(callback, server) ELSE server
<1>1. /\ ceiling = Least(server, normalizeConfiguredMax(callback))
      /\ ceiling # 0
  BY DEF Least, normalizeConfiguredMax, ValidMax, InClass, MinTPDULength, MaxITOTTPDULength, DefaultMaxTPDULength
<1>2. normalizeStandardCeiling(ceiling) = fallbackStandard(ceiling)
  BY <1>1 DEF normalizeStandardCeiling, normalizeConfiguredMax
<1>3. selectOmittedCR(server, callback) = Selection(SizeParams(None, None), ceiling)
  BY <1>2 DEF selectOmittedCR, Selection, SizeParams
<1> QED BY <1>1, <1>3

\* selectPreferredPath rounds each ceiling and then takes the least.
LEMMA PreferredPath ==
  ASSUME NEW units \in 1 .. MaxPreferredUnitsITOT, NEW server, InClass(server),
         NEW callback \in Int, ValidMax(callback),
         NEW code
  PROVE  selectPreferredPath(units * 128, server, callback)
           = Selection(SizeParams(code, units),
                       Least(units * 128, Least(server, normalizeConfiguredMax(callback))))
<1> DEFINE peer == units * 128
           cb == normalizeConfiguredMax(callback)
           both == Least(normalizePreferredCeiling(server), peer)
           all == IF callback # 0 THEN Least(normalizePreferredCeiling(callback), both) ELSE both
           limit == Least(peer, Least(server, cb))
<1>1. InClass(cb)
  BY NormalizedRange
<1>2. InClass(peer) /\ preferredUnits(peer) * 128 = peer
  BY UnitsOfWhole DEF InClass
<1>3. normalizePreferredCeiling(server) = preferredUnits(server) * 128
  BY DEF normalizePreferredCeiling, normalizeConfiguredMax, InClass
<1>4. normalizePreferredCeiling(callback) = preferredUnits(cb) * 128
  BY DEF normalizePreferredCeiling
<1> HIDE DEF peer, cb
<1>5. both = preferredUnits(Least(server, peer)) * 128 /\ InClass(Least(server, peer))
  BY <1>2, <1>3, UnitsOfLeast
<1>6. Least(cb, Least(server, peer)) = limit /\ InClass(limit)
  BY <1>1, <1>2 DEF Least, InClass
<1>7. all = preferredUnits(limit) * 128
  <2>1. CASE callback # 0
    <3>1. Least(preferredUnits(cb) * 128, both) = preferredUnits(limit) * 128
      BY <1>1, <1>5, <1>6, UnitsOfLeast
    <3> QED BY <2>1, <3>1, <1>4
  <2>2. CASE callback = 0
    <3>1. cb = 65531
      BY <2>2 DEF cb, normalizeConfiguredMax, DefaultMaxTPDULength
    <3>2. limit = Least(server, peer)
      BY <3>1, <1>2, <1>6 DEF Least, InClass
    <3> QED BY <2>2, <3>2, <1>5
  <2> QED BY <2>1, <2>2
<1>8. preferredUnits(limit) \in 1 .. MaxPreferredUnitsITOT
  BY <1>6, UnitsRoundDown DEF InClass
<1>9. all \div 128 = preferredUnits(limit)
  BY <1>7, <1>8, UnitsOfWhole
<1>10. selectPreferredPath(peer, server, callback)
         = [effective |-> (all \div 128) * 128, params |-> SizeParams(None, all \div 128)]
  BY DEF selectPreferredPath
<1>11. Selection(SizeParams(code, units), limit)
         = [effective |-> preferredUnits(limit) * 128, params |-> SizeParams(None, preferredUnits(limit))]
  BY DEF Selection, SizeParams, None, MaxPreferredUnitsITOT
<1> HIDE DEF all, limit
<1>12. selectPreferredPath(peer, server, callback) = Selection(SizeParams(code, units), limit)
  BY <1>9, <1>10, <1>11
<1> QED BY <1>12 DEF peer, limit, cb

\* selectStandardPath likewise.
LEMMA StandardPath ==
  ASSUME NEW code \in StandardCodes, NEW server, InClass(server), NEW callback \in Int, ValidMax(callback)
  PROVE  selectStandardPath(class0StandardSize(code), server, callback)
           = Selection(SizeParams(code, None),
                       Least(class0StandardSize(code), Least(server, normalizeConfiguredMax(callback))))
<1> DEFINE peer == class0StandardSize(code)
           cb == normalizeConfiguredMax(callback)
           both == Least(normalizeStandardCeiling(server), peer)
           all == IF callback # 0 THEN Least(normalizeStandardCeiling(callback), both) ELSE both
           limit == Least(peer, Least(server, cb))
<1>1. cb \in Int /\ 128 <= cb /\ cb <= 65531
  BY NormalizedRange DEF InClass
<1>2. server \in Int /\ 128 <= server /\ server <= 65531
  BY DEF InClass
<1>3. peer \in Int /\ 128 <= peer /\ fallbackStandard(peer) = peer
  BY SizeRange, FallbackOfStandard
<1>4. normalizeStandardCeiling(server) = fallbackStandard(server)
  BY <1>2 DEF normalizeStandardCeiling, normalizeConfiguredMax
<1>5. normalizeStandardCeiling(callback) = fallbackStandard(cb)
  BY DEF normalizeStandardCeiling
<1> HIDE DEF peer, cb
<1>6. both = fallbackStandard(Least(server, peer))
  BY <1>2, <1>3, <1>4, FallbackOfLeast
<1>7. /\ Least(server, peer) \in Int /\ 128 <= Least(server, peer)
      /\ Least(cb, Least(server, peer)) = limit
      /\ limit \in Int /\ 128 <= limit
  BY <1>1, <1>2, <1>3 DEF Least
<1>8. all = fallbackStandard(limit)
  <2>1. CASE callback # 0
    BY <2>1, <1>1, <1>5, <1>6, <1>7, FallbackOfLeast
  <2>2. CASE callback = 0
    <3>1. cb = 65531
      BY <2>2 DEF cb, normalizeConfiguredMax, DefaultMaxTPDULength
    <3>2. limit = Least(server, peer)
      BY <3>1, <1>2, <1>3 DEF Least
    <3> QED BY <2>2, <3>2, <1>6
  <2> QED BY <2>1, <2>2
<1>9. fallbackStandard(all) = fallbackStandard(limit) /\ fallbackCode(all) = fallbackCode(limit)
  BY <1>7, <1>8, FallbackFinal
<1>10. selectStandardPath(peer, server, callback)
         = [effective |-> fallbackStandard(all), params |-> SizeParams(fallbackCode(all), None)]
  BY DEF selectStandardPath
<1>11. Selection(SizeParams(code, None), limit)
         = [effective |-> fallbackStandard(limit), params |-> SizeParams(fallbackCode(limit), None)]
  BY DEF Selection, SizeParams, StandardCodes, None
<1> HIDE DEF all, limit
<1>12. selectStandardPath(peer, server, callback) = Selection(SizeParams(code, None), limit)
  BY <1>9, <1>10, <1>11
<1> QED BY <1>12 DEF peer, limit, cb

\* The forms of decoded parameters.
LEMMA ParamsCases ==
  ASSUME NEW params \in DecodedParams
  PROVE  /\ params = SizeParams(params.code, params.units)
         /\ params.code \in StandardCodes \/ params.code = None
         /\ params.units \in 1 .. MaxPreferredUnitsITOT \/ params.units = None
BY DEF DecodedParams, SizeParams

\* The sizes behind decoded parameters are none of them None.
LEMMA OfferSizes ==
  ASSUME NEW params \in DecodedParams
  PROVE  /\ params.code \in StandardCodes =>
              /\ params.code # None
              /\ Offer(params).standard = class0StandardSize(params.code)
              /\ Offer(params).standard # None
         /\ params.code = None => Offer(params).standard = None
         /\ params.units \in 1 .. MaxPreferredUnitsITOT =>
              /\ params.units # None
              /\ Offer(params).preferred = params.units * 128
              /\ Offer(params).preferred # None
         /\ params.units = None => Offer(params).preferred = None
<1>1. ASSUME params.code \in StandardCodes
      PROVE  params.code # None /\ class0StandardSize(params.code) # None
  BY <1>1, SizeRange DEF StandardCodes, None
<1>2. ASSUME params.units \in 1 .. MaxPreferredUnitsITOT
      PROVE  params.units # None /\ params.units * 128 # None
  BY <1>2 DEF MaxPreferredUnitsITOT, None
<1> QED BY <1>1, <1>2 DEF Offer

\* What the client proposed is a length of at least 128 octets, and of at most
\* 65536.
LEMMA ProposalRange ==
  ASSUME NEW params \in DecodedParams
  PROVE  /\ clientEffectiveProposal(Offer(params)) \in Int
         /\ 128 <= clientEffectiveProposal(Offer(params))
         /\ params.units \in 1 .. MaxPreferredUnitsITOT =>
              clientEffectiveProposal(Offer(params)) = params.units * 128
         /\ params.units = None /\ params.code \in StandardCodes =>
              clientEffectiveProposal(Offer(params)) = class0StandardSize(params.code)
         /\ params.units = None /\ params.code = None =>
              clientEffectiveProposal(Offer(params)) = 65531
<1> DEFINE proposal == clientEffectiveProposal(Offer(params))
<1>1. CASE params.units \in 1 .. MaxPreferredUnitsITOT
  <2>1. proposal = params.units * 128 /\ params.units # None
    BY <1>1, OfferSizes DEF clientEffectiveProposal
  <2> QED BY <1>1, <2>1, UnitsOfWhole
<1>2. CASE params.units = None /\ params.code \in StandardCodes
  <2>1. proposal = class0StandardSize(params.code) /\ params.code # None
    BY <1>2, OfferSizes DEF clientEffectiveProposal
  <2>2. ~(params.units \in 1 .. MaxPreferredUnitsITOT)
    BY <1>2 DEF None, MaxPreferredUnitsITOT
  <2> QED BY <1>2, <2>1, <2>2, SizeRange
<1>3. CASE params.units = None /\ params.code = None
  <2>1. proposal = 65531
    BY <1>3, OfferSizes DEF clientEffectiveProposal, DefaultMaxTPDULength
  <2>2. ~(params.units \in 1 .. MaxPreferredUnitsITOT) /\ ~(params.code \in StandardCodes)
    BY <1>3 DEF None, MaxPreferredUnitsITOT, StandardCodes
  <2> QED BY <1>3, <2>1, <2>2
<1> QED BY <1>1, <1>2, <1>3, ParamsCases

\* The limit is within the class, within both ceilings and within the
\* proposal, and is one of the three.
LEMMA LimitRange ==
  ASSUME NEW params \in DecodedParams,
         NEW configured \in Int, ValidMax(configured),
         NEW callback \in Int, ValidMax(callback)
  PROVE  LET limit == Limit(params, configured, callback) IN
         /\ InClass(limit)
         /\ limit <= normalizeConfiguredMax(configured)
         /\ limit <= normalizeConfiguredMax(callback)
         /\ limit <= clientEffectiveProposal(Offer(params))
<1> DEFINE p == clientEffectiveProposal(Offer(params))
           s == normalizeConfiguredMax(configured)
           c == normalizeConfiguredMax(callback)
<1>1. p \in Int /\ 128 <= p
  BY ProposalRange
<1>2. s \in Int /\ 128 <= s /\ s <= 65531 /\ c \in Int /\ 128 <= c /\ c <= 65531
  BY NormalizedRange DEF InClass
<1>3. Limit(params, configured, callback) = Least(p, Least(s, c))
  BY DEF Limit
<1> HIDE DEF p, s, c
<1>4. /\ Least(p, Least(s, c)) \in Int /\ 128 <= Least(p, Least(s, c)) /\ Least(p, Least(s, c)) <= 65531
      /\ Least(p, Least(s, c)) <= s /\ Least(p, Least(s, c)) <= c /\ Least(p, Least(s, c)) <= p
  BY <1>1, <1>2 DEF Least
<1> QED BY <1>3, <1>4 DEF InClass, p, s, c

\* The three paths of selectSize compute one thing: the limit, rounded once.
\* No ceiling costs more than that rounding.
LEMMA SelectionIsRoundedLimit ==
  ASSUME NEW params \in DecodedParams,
         NEW configured \in Int, ValidMax(configured),
         NEW callback \in Int, ValidMax(callback)
  PROVE  selectSize(Offer(params), configured, callback)
           = Selection(params, Limit(params, configured, callback))
<1> DEFINE peer == Offer(params)
           s == normalizeConfiguredMax(configured)
           c == normalizeConfiguredMax(callback)
<1>1. InClass(s) /\ InClass(c)
  BY NormalizedRange
<1>2. CASE params.units \in 1 .. MaxPreferredUnitsITOT
  <2>1. selectSize(peer, configured, callback) = selectPreferredPath(params.units * 128, s, callback)
    BY <1>2, OfferSizes DEF selectSize, Omitted
  <2>2. Limit(params, configured, callback) = Least(params.units * 128, Least(s, c))
    BY <1>2, ProposalRange DEF Limit
  <2>3. selectPreferredPath(params.units * 128, s, callback)
          = Selection(SizeParams(params.code, params.units), Least(params.units * 128, Least(s, c)))
    BY <1>1, <1>2, PreferredPath
  <2> QED BY <2>1, <2>2, <2>3, ParamsCases
<1>3. CASE params.units = None /\ params.code \in StandardCodes
  <2>1. selectSize(peer, configured, callback)
          = selectStandardPath(class0StandardSize(params.code), s, callback)
    BY <1>3, OfferSizes DEF selectSize, Omitted
  <2>2. Limit(params, configured, callback) = Least(class0StandardSize(params.code), Least(s, c))
    BY <1>3, ProposalRange DEF Limit
  <2>3. selectStandardPath(class0StandardSize(params.code), s, callback)
          = Selection(SizeParams(params.code, None), Least(class0StandardSize(params.code), Least(s, c)))
    BY <1>1, <1>3, StandardPath
  <2> QED BY <2>1, <2>2, <2>3, <1>3, ParamsCases
<1>4. CASE params.units = None /\ params.code = None
  <2>1. selectSize(peer, configured, callback) = selectOmittedCR(s, callback)
    BY <1>4, OfferSizes DEF selectSize, Omitted
  <2>2. Limit(params, configured, callback) = Least(65531, Least(s, c))
    BY <1>4, ProposalRange DEF Limit
  <2>3. Least(65531, Least(s, c)) = Least(s, c)
    <3> HIDE DEF s, c
    <3> QED BY <1>1 DEF Least, InClass
  <2>4. selectOmittedCR(s, callback) = Selection(SizeParams(None, None), Least(s, c))
    BY <1>1, OmittedPath
  <2> QED BY <2>1, <2>2, <2>3, <2>4, <1>4, ParamsCases
<1> QED BY <1>2, <1>3, <1>4, ParamsCases

-----------------------------------------------------------------------------
(* The facts the exchange and the handshake rest on                        *)

\* A limit within the class, rounded, is within the class and not above it;
\* the CC names the size, or omits it when it is the default.
LEMMA SelectionRange ==
  ASSUME NEW params \in DecodedParams, NEW limit, InClass(limit)
  PROVE  LET sel == Selection(params, limit) IN
         /\ sel.effective \in Int /\ 128 <= sel.effective /\ sel.effective <= limit
         /\ sel.params \in DecodedParams
         /\ \/ /\ params.units # None
               /\ sel.params.code = None /\ sel.params.units \in 1 .. MaxPreferredUnitsITOT
               /\ sel.effective = sel.params.units * 128
            \/ /\ params.units = None /\ params.code = None
               /\ sel.params = SizeParams(None, None) /\ sel.effective = 65531
            \/ /\ params.units = None
               /\ sel.params.code \in StandardCodes /\ sel.params.units = None
               /\ sel.effective = class0StandardSize(sel.params.code)
<1> DEFINE sel == Selection(params, limit)
<1>1. limit \in Int /\ 128 <= limit /\ limit <= 65531
  BY DEF InClass
<1>2. CASE params.units # None
  <2> DEFINE u == preferredUnits(limit)
  <2>1. u \in 1 .. MaxPreferredUnitsITOT /\ u * 128 \in 128 .. limit
    BY <1>1, UnitsRoundDown
  <2>2. sel = [effective |-> u * 128, params |-> SizeParams(None, u)]
    BY <1>2 DEF Selection
  <2> HIDE DEF u
  <2>3. SizeParams(None, u) \in DecodedParams
    BY <2>1 DEF SizeParams, DecodedParams
  <2>4. u * 128 \in Int /\ 128 <= u * 128 /\ u * 128 <= limit
    BY <1>1, <2>1 DEF MaxPreferredUnitsITOT
  <2> QED BY <1>2, <2>1, <2>2, <2>3, <2>4 DEF SizeParams
<1>3. CASE params.units = None /\ params.code = None /\ limit = DefaultMaxTPDULength
  <2>1. sel = [effective |-> limit, params |-> SizeParams(None, None)]
    BY <1>3 DEF Selection
  <2>2. SizeParams(None, None) \in DecodedParams
    BY DEF SizeParams, DecodedParams
  <2> QED BY <1>1, <1>3, <2>1, <2>2 DEF DefaultMaxTPDULength
<1>4. CASE params.units = None /\ ~(params.code = None /\ limit = DefaultMaxTPDULength)
  <2>1. sel = [effective |-> fallbackStandard(limit), params |-> SizeParams(fallbackCode(limit), None)]
    BY <1>4 DEF Selection
  <2>2. /\ fallbackCode(limit) \in StandardCodes
        /\ fallbackStandard(limit) \in Int /\ 128 <= fallbackStandard(limit) /\ fallbackStandard(limit) <= limit
    BY <1>1, FallbackIsLargest
  <2>3. SizeParams(fallbackCode(limit), None) \in DecodedParams
    BY <2>2 DEF SizeParams, DecodedParams
  <2>4. fallbackStandard(limit) = class0StandardSize(fallbackCode(limit))
    BY DEF fallbackStandard
  <2> QED BY <1>4, <2>1, <2>2, <2>3, <2>4 DEF SizeParams
<1> QED BY <1>2, <1>3, <1>4

\* What the client offers: nothing, its ceiling as a standard size, or its
\* ceiling in units with the largest standard size within it.  It decodes.
LEMMA OfferShape ==
  ASSUME NEW configured \in Int, ValidMax(configured), NEW profile \in Profiles
  PROVE  LET params == buildSizeOffer(configured, profile)
             ceiling == normalizeConfiguredMax(configured)
         IN
         /\ params \in DecodedParams
         /\ decodeSizeOffer(params).ok
         /\ clientEffectiveProposal(Offer(params)) <= ceiling
         /\ \/ /\ params.units = None /\ params.code = None
               /\ ceiling = 65531 /\ profile = Compat
            \/ /\ params.units = None /\ params.code \in StandardCodes
               /\ class0StandardSize(params.code) <= ceiling
            \/ /\ params.units \in 1 .. MaxPreferredUnitsITOT /\ params.code \in StandardCodes
               /\ params.units * 128 <= ceiling
               /\ class0StandardSize(params.code) <= ceiling
<1> DEFINE params == buildSizeOffer(configured, profile)
           ceiling == normalizeConfiguredMax(configured)
           units == preferredUnits(ceiling)
<1>1. ceiling \in Int /\ 128 <= ceiling /\ ceiling <= 65531
  BY NormalizedRange DEF InClass
<1>2. \/ /\ params = SizeParams(None, None)
         /\ ceiling = 65531 /\ profile = Compat
      \/ \E code \in StandardCodes :
           params = SizeParams(code, None) /\ class0StandardSize(code) <= ceiling
      \/ \E code \in StandardCodes, u \in 1 .. MaxPreferredUnitsITOT :
           params = SizeParams(code, u) /\ u * 128 <= ceiling /\ class0StandardSize(code) <= ceiling
  <2>1. CASE profile = Compat /\ ceiling = DefaultMaxTPDULength
    BY <2>1 DEF buildSizeOffer, DefaultMaxTPDULength
  <2>2. CASE ~(profile = Compat /\ ceiling = DefaultMaxTPDULength) /\ profile = Compat /\ IsStandard(ceiling)
    <3>1. params = SizeParams(class0StandardCode(ceiling), None)
      BY <2>2 DEF buildSizeOffer
    <3>2. /\ class0StandardCode(ceiling) \in StandardCodes
          /\ class0StandardSize(class0StandardCode(ceiling)) = ceiling
      BY <2>2, CodeOfStandard
    <3>3. ceiling <= ceiling
      BY <1>1
    <3> QED BY <3>1, <3>2, <3>3
  <2>3. CASE ~(profile = Compat /\ ceiling = DefaultMaxTPDULength) /\ ~(profile = Compat /\ IsStandard(ceiling))
    <3>1. params = SizeParams(fallbackCode(units * 128), units)
      BY <2>3 DEF buildSizeOffer
    <3>2. units \in 1 .. MaxPreferredUnitsITOT /\ units * 128 \in 128 .. ceiling
      BY <1>1, UnitsRoundDown
    <3> HIDE DEF units, ceiling
    <3>3. units * 128 \in Int /\ 128 <= units * 128 /\ units * 128 <= ceiling
      BY <1>1, <3>2 DEF MaxPreferredUnitsITOT
    <3>4. /\ fallbackCode(units * 128) \in StandardCodes
          /\ fallbackStandard(units * 128) \in Int /\ fallbackStandard(units * 128) <= units * 128
      BY <3>3, FallbackIsLargest
    <3>5. class0StandardSize(fallbackCode(units * 128)) <= ceiling
      BY <1>1, <3>3, <3>4 DEF fallbackStandard
    <3> QED BY <3>1, <3>2, <3>3, <3>4, <3>5
  <2> QED BY <2>1, <2>2, <2>3
<1> HIDE DEF params, ceiling
<1>3. /\ params \in DecodedParams
      /\ \/ /\ params.units = None /\ params.code = None
            /\ ceiling = 65531 /\ profile = Compat
         \/ /\ params.units = None /\ params.code \in StandardCodes
            /\ class0StandardSize(params.code) <= ceiling
         \/ /\ params.units \in 1 .. MaxPreferredUnitsITOT /\ params.code \in StandardCodes
            /\ params.units * 128 <= ceiling
            /\ class0StandardSize(params.code) <= ceiling
  BY <1>2 DEF SizeParams, DecodedParams
<1>4. decodeSizeOffer(params).ok
  BY <1>3 DEF decodeSizeOffer
<1>5. clientEffectiveProposal(Offer(params)) <= ceiling
  BY <1>1, <1>3, ProposalRange
<1> QED BY <1>3, <1>4, <1>5 DEF params, ceiling

\* Parameters that decodeSizeOffer lets through, whoever sent them.
LEMMA DecodeChecks ==
  ASSUME NEW code, NEW units, decodeSizeOffer(SizeParams(code, units)).ok
  PROVE  SizeParams(code, units) \in DecodedParams
<1>1. code # None => code \in StandardCodes
  BY DEF decodeSizeOffer, SizeParams
<1>2. units # None => units \in 1 .. MaxPreferredUnitsITOT
  BY DEF decodeSizeOffer, SizeParams
<1> QED BY <1>1, <1>2 DEF SizeParams, DecodedParams

\* The two ends of this code: the client reads in the CC the size the server
\* selected from the client's own offer.
LEMMA InterpretsSelection ==
  ASSUME NEW configured \in Int, ValidMax(configured), NEW profile \in Profiles,
         NEW server \in Int, ValidMax(server),
         NEW callback \in Int, ValidMax(callback)
  PROVE  LET sent == Offer(buildSizeOffer(configured, profile))
             sel == selectSize(sent, server, callback)
         IN interpretCCSize(sent, sel.params, profile) = [ok |-> TRUE, effective |-> sel.effective]
<1> DEFINE params == buildSizeOffer(configured, profile)
           sent == Offer(params)
           limit == Limit(params, server, callback)
           sel == selectSize(sent, server, callback)
           cc == sel.params
<1> SUFFICES interpretCCSize(sent, cc, profile) = [ok |-> TRUE, effective |-> sel.effective]
  OBVIOUS
<1>1. /\ params \in DecodedParams
      /\ params.units = None /\ params.code = None => profile = Compat
      /\ params.units # None => params.code # None
  BY OfferShape, OfferSizes
<1> HIDE DEF params
<1>2. InClass(limit) /\ limit <= clientEffectiveProposal(sent)
  BY <1>1, LimitRange
<1>3. sel = Selection(params, limit)
  BY <1>1, SelectionIsRoundedLimit
<1> HIDE DEF limit
<1>4. limit \in Int /\ limit <= 65531
  BY <1>2 DEF InClass
<1>5. clientEffectiveProposal(sent) \in Int
  BY <1>1, ProposalRange
<1>6. /\ sel.effective \in Int /\ sel.effective <= limit
      /\ cc \in DecodedParams
      /\ \/ /\ params.units # None
            /\ cc.code = None /\ cc.units \in 1 .. MaxPreferredUnitsITOT
            /\ sel.effective = cc.units * 128
         \/ /\ params.units = None /\ params.code = None
            /\ cc = SizeParams(None, None) /\ sel.effective = 65531
         \/ /\ params.units = None
            /\ cc.code \in StandardCodes /\ cc.units = None
            /\ sel.effective = class0StandardSize(cc.code)
  BY <1>1, <1>2, <1>3, SelectionRange
<1> HIDE DEF sel
<1>7. sel.effective <= clientEffectiveProposal(sent) /\ sel.effective <= 65531
  BY <1>2, <1>4, <1>5, <1>6
<1>8. CASE /\ params.units # None
           /\ cc.code = None /\ cc.units \in 1 .. MaxPreferredUnitsITOT
           /\ sel.effective = cc.units * 128
  <2>1. params.units \in 1 .. MaxPreferredUnitsITOT
    BY <1>1, <1>8, ParamsCases
  <2>2. sent.preferred = clientEffectiveProposal(sent) /\ sent.preferred # None
    BY <1>1, <2>1, OfferSizes, ProposalRange
  <2>3. Offer(cc).preferred = cc.units * 128 /\ cc.units # None
    BY <1>6, <1>8, OfferSizes
  <2> DEFINE ok == /\ sent.preferred # None
                   /\ cc.units \in 1 .. MaxPreferredUnitsITOT
                   /\ Offer(cc).preferred <= sent.preferred
  <2>4. interpretCCSize(sent, cc, profile) = [ok |-> ok, effective |-> Offer(cc).preferred]
    BY <1>8, <2>3, Zenon DEF interpretCCSize
  <2>5. ok = TRUE
    BY <1>7, <1>8, <2>2, <2>3
  <2> HIDE DEF ok
  <2> QED BY <1>8, <2>3, <2>4, <2>5
<1>9. CASE /\ params.units = None /\ params.code = None
           /\ cc = SizeParams(None, None) /\ sel.effective = 65531
  <2>1. clientEffectiveProposal(sent) = 65531
    BY <1>1, <1>9, ProposalRange
  <2>2. Least(clientEffectiveProposal(sent), DefaultMaxTPDULength) = 65531
    BY <2>1 DEF Least, DefaultMaxTPDULength
  <2>3. cc.code = None /\ cc.units = None
    BY <1>9 DEF SizeParams
  <2> DEFINE ok == profile = Compat
  <2>4. interpretCCSize(sent, cc, profile)
          = [ok |-> ok, effective |-> Least(clientEffectiveProposal(sent), DefaultMaxTPDULength)]
    BY <2>3, Zenon DEF interpretCCSize
  <2>5. ok = TRUE
    BY <1>1, <1>9
  <2> HIDE DEF ok
  <2> QED BY <1>9, <2>2, <2>4, <2>5
<1>10. CASE /\ params.units = None
            /\ cc.code \in StandardCodes /\ cc.units = None
            /\ sel.effective = class0StandardSize(cc.code)
  <2>1. cc.code # None /\ Offer(cc).standard = sel.effective
    BY <1>6, <1>10, OfferSizes
  <2>2. CASE params.code = None
    <3>1. Omitted(sent)
      BY <1>1, <1>10, <2>2, OfferSizes DEF Omitted
    <3>2. Least(Offer(cc).standard, clientEffectiveProposal(sent)) = sel.effective
      BY <1>5, <1>6, <1>7, <2>1 DEF Least
    <3> QED BY <1>10, <2>1, <3>1, <3>2 DEF interpretCCSize
  <2>3. CASE params.code # None
    <3>1. params.code \in StandardCodes
      BY <1>1, <2>3, ParamsCases
    <3>2. sent.standard # None /\ sent.standard = clientEffectiveProposal(sent) /\ ~Omitted(sent)
      BY <1>1, <1>10, <3>1, OfferSizes, ProposalRange DEF Omitted
    <3> DEFINE ok == /\ sent.standard # None
                     /\ cc.code \in StandardCodes
                     /\ Offer(cc).standard <= sent.standard
    <3>3. interpretCCSize(sent, cc, profile) = [ok |-> ok, effective |-> Offer(cc).standard]
      BY <1>10, <2>1, <3>2, Zenon DEF interpretCCSize
    <3>4. ok = TRUE
      BY <1>7, <1>10, <2>1, <3>2
    <3> HIDE DEF ok
    <3> QED BY <2>1, <3>3, <3>4
  <2> QED BY <2>2, <2>3
<1> QED BY <1>6, <1>8, <1>9, <1>10

\* Whatever another server answers, a client that opens works within its own
\* ceiling and the class.
LEMMA InterpretRange ==
  ASSUME NEW configured \in Int, ValidMax(configured), NEW profile \in Profiles,
         NEW code, NEW units,
         interpretCCSize(Offer(buildSizeOffer(configured, profile)), SizeParams(code, units), profile).ok
  PROVE  LET effective == interpretCCSize(Offer(buildSizeOffer(configured, profile)),
                                          SizeParams(code, units), profile).effective
         IN /\ effective \in Int /\ 128 <= effective
            /\ effective <= normalizeConfiguredMax(configured)
<1> DEFINE params == buildSizeOffer(configured, profile)
           sent == Offer(params)
           ceiling == normalizeConfiguredMax(configured)
           cc == SizeParams(code, units)
           got == interpretCCSize(sent, cc, profile)
<1>1. /\ params \in DecodedParams
      /\ clientEffectiveProposal(sent) <= ceiling
      /\ params.code \in StandardCodes => class0StandardSize(params.code) <= ceiling
      /\ params.code = None => params.units = None
  <2>1. params.code \in StandardCodes => params.code # None
    BY DEF StandardCodes, None
  <2> QED BY <2>1, OfferShape
<1>2. ceiling \in Int /\ 128 <= ceiling /\ ceiling <= 65531
  BY NormalizedRange DEF InClass
<1> HIDE DEF params, ceiling
<1>3. clientEffectiveProposal(sent) \in Int /\ 128 <= clientEffectiveProposal(sent)
  BY <1>1, ProposalRange
<1>4. got.ok
  BY DEF params
<1>5. CASE code # None /\ units # None
  BY <1>4, <1>5 DEF interpretCCSize, SizeParams
<1>6. CASE code = None /\ units = None
  <2>1. got.effective = Least(clientEffectiveProposal(sent), 65531)
    BY <1>6 DEF interpretCCSize, SizeParams, DefaultMaxTPDULength
  <2>2. /\ got.effective \in Int /\ 128 <= got.effective /\ got.effective <= ceiling
    BY <1>1, <1>2, <1>3, <2>1 DEF Least
  <2> QED BY <2>2 DEF params, ceiling
<1>7. CASE code = None /\ units # None
  <2>1. /\ sent.preferred # None /\ units \in 1 .. MaxPreferredUnitsITOT
        /\ Offer(cc).preferred <= sent.preferred
        /\ got.effective = Offer(cc).preferred
        /\ Offer(cc).preferred = units * 128
    BY <1>4, <1>7 DEF interpretCCSize, SizeParams, Offer
  <2>2. units * 128 \in Int /\ 128 <= units * 128
    BY <2>1, UnitsOfWhole
  <2>3. sent.preferred = clientEffectiveProposal(sent)
    BY <2>1 DEF clientEffectiveProposal
  <2>4. /\ got.effective \in Int /\ 128 <= got.effective /\ got.effective <= ceiling
    BY <1>1, <1>2, <1>3, <2>1, <2>2, <2>3
  <2> QED BY <2>4 DEF params, ceiling
<1>8. CASE code # None /\ units = None
  <2>1. code \in StandardCodes /\ Offer(cc).standard = class0StandardSize(code)
    BY <1>4, <1>8 DEF interpretCCSize, SizeParams, Offer
  <2>2. class0StandardSize(code) \in Int /\ 128 <= class0StandardSize(code)
    BY <2>1, SizeRange
  <2>3. CASE Omitted(sent)
    <3>1. got.effective = Least(class0StandardSize(code), clientEffectiveProposal(sent))
      BY <1>8, <2>1, <2>3 DEF interpretCCSize, SizeParams
    <3>2. /\ got.effective \in Int /\ 128 <= got.effective /\ got.effective <= ceiling
      BY <1>1, <1>2, <1>3, <2>2, <3>1 DEF Least
    <3> QED BY <3>2 DEF params, ceiling
  <2>4. CASE ~Omitted(sent)
    <3>1. /\ sent.standard # None /\ class0StandardSize(code) <= sent.standard
          /\ got.effective = class0StandardSize(code)
      BY <1>4, <1>8, <2>1, <2>4 DEF interpretCCSize, SizeParams
    <3>2. params.code \in StandardCodes /\ sent.standard = class0StandardSize(params.code)
      BY <1>1, <3>1, OfferSizes, ParamsCases
    <3>3. class0StandardSize(params.code) \in Int
      BY <3>2, SizeRange
    <3>4. /\ got.effective \in Int /\ 128 <= got.effective /\ got.effective <= ceiling
      BY <1>1, <1>2, <2>2, <3>1, <3>2, <3>3
    <3> QED BY <3>4 DEF params, ceiling
  <2> QED BY <2>3, <2>4
<1> QED BY <1>5, <1>6, <1>7, <1>8

\* The rounded limit is the largest size the chosen parameter can express
\* within it: a multiple of 128 octets, or a size of the table and, when the
\* CC may omit the parameter, the default.
LEMMA SelectionIsLargest ==
  ASSUME NEW params \in DecodedParams, NEW limit, InClass(limit)
  PROVE  LET effective == Selection(params, limit).effective IN
         /\ params.units # None =>
              \A u \in 1 .. MaxPreferredUnitsITOT : 128 * u <= limit => 128 * u <= effective
         /\ params.units = None =>
              \A code \in StandardCodes :
                class0StandardSize(code) <= limit => class0StandardSize(code) <= effective
         /\ params.units = None /\ params.code = None /\ DefaultMaxTPDULength <= limit =>
              DefaultMaxTPDULength <= effective
<1> DEFINE effective == Selection(params, limit).effective
<1>1. limit \in Int /\ 128 <= limit /\ limit <= 65531
  BY DEF InClass
<1>2. ASSUME params.units # None, NEW u \in 1 .. MaxPreferredUnitsITOT, 128 * u <= limit
      PROVE  128 * u <= effective
  <2>1. effective = preferredUnits(limit) * 128
    BY <1>2 DEF Selection
  <2>2. u * 128 <= limit /\ u \in Int
    BY <1>2 DEF MaxPreferredUnitsITOT
  <2>3. u <= preferredUnits(limit) /\ preferredUnits(limit) \in 1 .. MaxPreferredUnitsITOT
    BY <1>1, <2>2, UnitsRoundDown
  <2> QED BY <2>1, <2>2, <2>3 DEF MaxPreferredUnitsITOT
<1>3. ASSUME params.units = None, NEW code \in StandardCodes, class0StandardSize(code) <= limit
      PROVE  class0StandardSize(code) <= effective
  <2>1. CASE params.code = None /\ limit = DefaultMaxTPDULength
    BY <1>3, <2>1 DEF Selection
  <2>2. CASE ~(params.code = None /\ limit = DefaultMaxTPDULength)
    <3>1. effective = fallbackStandard(limit)
      BY <1>3, <2>2 DEF Selection
    <3> QED BY <1>1, <1>3, <3>1, FallbackIsLargest
  <2> QED BY <2>1, <2>2
<1>4. ASSUME params.units = None, params.code = None, DefaultMaxTPDULength <= limit
      PROVE  DefaultMaxTPDULength <= effective
  <2>1. limit = DefaultMaxTPDULength
    BY <1>1, <1>4 DEF DefaultMaxTPDULength
  <2> QED BY <1>4, <2>1 DEF Selection
<1> QED BY <1>2, <1>3, <1>4

\* A callback that repeats the proposal changes nothing, and the proposal is a
\* valid ceiling unless it is the 65536 of a lone size code 0x10.
LEMMA EchoIsNeutral ==
  ASSUME NEW params \in DecodedParams, NEW server \in Int, ValidMax(server)
  PROVE  LET peer == Offer(params)
             echo == clientEffectiveProposal(peer)
         IN IF ValidMax(echo) THEN selectSize(peer, server, echo) = selectSize(peer, server, 0)
                              ELSE params = SizeParams(16, None)
<1> DEFINE peer == Offer(params)
           echo == clientEffectiveProposal(peer)
           s == normalizeConfiguredMax(server)
<1>1. echo \in Int /\ 128 <= echo
  BY ProposalRange
<1>2. s \in Int /\ 128 <= s /\ s <= 65531
  BY NormalizedRange DEF InClass
<1>3. ASSUME ValidMax(echo)
      PROVE  selectSize(peer, server, echo) = selectSize(peer, server, 0)
  <2>1. ValidMax(0) /\ normalizeConfiguredMax(0) = 65531
    BY DEF ValidMax, normalizeConfiguredMax, DefaultMaxTPDULength
  <2>2. normalizeConfiguredMax(echo) = echo
    BY <1>1 DEF normalizeConfiguredMax
  <2>3. echo <= 65531
    <3> HIDE DEF echo
    <3> QED BY <1>1, <1>3 DEF ValidMax, MinTPDULength, MaxITOTTPDULength
  <2>4. Limit(params, server, echo) = Least(echo, Least(s, echo))
    BY <2>2 DEF Limit
  <2>5. Limit(params, server, 0) = Least(echo, Least(s, 65531))
    BY <2>1 DEF Limit
  <2>6. Least(echo, Least(s, echo)) = Least(echo, Least(s, 65531))
    <3> HIDE DEF echo, s
    <3> QED BY <1>1, <1>2, <2>3 DEF Least
  <2>7. selectSize(peer, server, echo) = Selection(params, Limit(params, server, echo))
    BY <1>1, <1>3, SelectionIsRoundedLimit
  <2>8. selectSize(peer, server, 0) = Selection(params, Limit(params, server, 0))
    BY <2>1, SelectionIsRoundedLimit
  <2> QED BY <2>4, <2>5, <2>6, <2>7, <2>8
<1>4. ASSUME ~ValidMax(echo)
      PROVE  params = SizeParams(16, None)
  <2>1. ~(echo <= 65531)
    <3> HIDE DEF echo
    <3> QED BY <1>1, <1>4 DEF ValidMax, MinTPDULength, MaxITOTTPDULength
  <2>2. CASE params.units \in 1 .. MaxPreferredUnitsITOT
    <3>1. echo = params.units * 128
      BY <2>2, ProposalRange
    <3>2. params.units * 128 \in Int /\ params.units * 128 <= 65408
      BY <2>2, UnitsOfWhole
    <3> QED BY <2>1, <3>1, <3>2
  <2>3. CASE params.units = None /\ params.code \in StandardCodes
    <3>1. ~(class0StandardSize(params.code) <= 65531)
      BY <2>1, <2>3, ProposalRange
    <3>2. params.code = 16
      BY <2>3, <3>1, SizeTable, CodeCases
    <3> QED BY <2>3, <3>2, ParamsCases
  <2>4. CASE params.units = None /\ params.code = None
    BY <2>1, <2>4, ProposalRange
  <2> QED BY <2>2, <2>3, <2>4, ParamsCases
<1> QED BY <1>3, <1>4
=============================================================================
