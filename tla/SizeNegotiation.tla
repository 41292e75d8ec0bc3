--------------------------- MODULE SizeNegotiation ---------------------------
(***************************************************************************)
(* How a client and a server agree on the length of a TPDU (size_nego.go): *)
(* the offer a CR carries, the selection a CC carries, and what each side  *)
(* takes from the other's TPDU.  Operators only; the exchange itself is    *)
(* module SizeExchange.                                                    *)
(*                                                                         *)
(* A nil pointer is None.  A function that may fail returns a record with  *)
(* a field ok; its other fields mean nothing when ok is FALSE.             *)
(***************************************************************************)
EXTENDS Integers

None == -1

DefaultMaxTPDULength == 65531
MaxITOTTPDULength == 65531
MinTPDULength == 128
MaxPreferredUnitsITOT == 511

Compat == "SizeProfileRFC1006Compat"
PreferredMaximum == "SizeProfilePreferredMaximum"
Profiles == {Compat, PreferredMaximum}

Least(a, b) == IF a < b THEN a ELSE b

-----------------------------------------------------------------------------
(* The standard sizes                                                      *)

StandardCodes == 7 .. 16

class0StandardSize(code) ==
  CASE code = 16 -> 65536
    [] code = 15 -> 32768
    [] code = 14 -> 16384
    [] code = 13 -> 8192
    [] code = 12 -> 4096
    [] code = 11 -> 2048
    [] code = 10 -> 1024
    [] code = 9 -> 512
    [] code = 8 -> 256
    [] code = 7 -> 128
    [] OTHER -> None

IsStandard(size) == \E code \in StandardCodes : class0StandardSize(code) = size

class0StandardCode(size) == CHOOSE code \in StandardCodes : class0StandardSize(code) = size

\* The code of the first entry of the descending table that is not above n.
fallbackCode(n) ==
  CHOOSE code \in StandardCodes :
    /\ class0StandardSize(code) <= n
    /\ \A larger \in StandardCodes : class0StandardSize(larger) <= n => larger <= code

fallbackStandard(n) == class0StandardSize(fallbackCode(n))

-----------------------------------------------------------------------------
(* Configured ceilings                                                     *)

ValidMax(configured) == configured = 0 \/ configured \in MinTPDULength .. MaxITOTTPDULength

normalizeConfiguredMax(configured) ==
  IF configured = 0 THEN DefaultMaxTPDULength ELSE configured

\* Mutant: the cap is off by one.
preferredUnitsBelowCap(ceiling) == Least(ceiling \div 128, MaxPreferredUnitsITOT - 1)

preferredUnits(ceiling) == Least(ceiling \div 128, MaxPreferredUnitsITOT)

normalizePreferredCeiling(ceiling) == preferredUnits(normalizeConfiguredMax(ceiling)) * 128

normalizeStandardCeiling(ceiling) == fallbackStandard(normalizeConfiguredMax(ceiling))

-----------------------------------------------------------------------------
(* What the CR and the CC carry: code is parameter 0xC0, units is 0xF0     *)

SizeParams(code, units) == [code |-> code, units |-> units]

\* The client's offer, for a ceiling that preflight has let through.
buildSizeOffer(configured, profile) ==
  LET ceiling == normalizeConfiguredMax(configured)
      units == preferredUnits(ceiling)
  IN IF profile = Compat /\ ceiling = DefaultMaxTPDULength THEN SizeParams(None, None)
     ELSE IF profile = Compat /\ IsStandard(ceiling) THEN SizeParams(class0StandardCode(ceiling), None)
     ELSE SizeParams(fallbackCode(units * 128), units)

\* The sizes behind the parameters; both sides compute with these.
Offer(params) ==
  [standard |-> IF params.code = None THEN None ELSE class0StandardSize(params.code),
   preferred |-> IF params.units = None THEN None ELSE params.units * 128]

decodeSizeOffer(params) ==
  [ok |-> /\ params.code # None => params.code \in StandardCodes
          /\ params.units # None => params.units \in 1 .. MaxPreferredUnitsITOT,
   offer |-> Offer(params)]

Omitted(offer) == offer.standard = None /\ offer.preferred = None

clientEffectiveProposal(offer) ==
  IF offer.preferred # None THEN offer.preferred
  ELSE IF offer.standard # None THEN offer.standard
  ELSE DefaultMaxTPDULength

\* Mutant: the standard parameter hides the preferred one.
indicationMaxTPDULengthStandard(offer) ==
  IF offer.standard # None THEN offer.standard ELSE clientEffectiveProposal(offer)

\* What OnConnect is told that the client proposed.
indicationMaxTPDULength(offer) == clientEffectiveProposal(offer)

-----------------------------------------------------------------------------
(* The server's selection, for ceilings that are valid; 0 is no callback   *)
(* ceiling.                                                                *)

\* Mutant: the CC omits the size it selected.
selectOmittedCRSilently(server, callback) ==
  LET ceiling == IF callback # 0 THEN Least(callback, server) ELSE server IN
  [effective |-> IF ceiling = DefaultMaxTPDULength THEN ceiling ELSE normalizeStandardCeiling(ceiling),
   params |-> SizeParams(None, None)]

selectOmittedCR(server, callback) ==
  LET ceiling == IF callback # 0 THEN Least(callback, server) ELSE server IN
  IF ceiling = DefaultMaxTPDULength
    THEN [effective |-> ceiling, params |-> SizeParams(None, None)]
    ELSE [effective |-> normalizeStandardCeiling(ceiling),
          params |-> SizeParams(fallbackCode(ceiling), None)]

\* Mutant: the callback's ceiling is forgotten.
selectPreferredPathNoCallback(peer, server, callback) ==
  LET units == Least(normalizePreferredCeiling(server), peer) \div 128
  IN [effective |-> units * 128, params |-> SizeParams(None, units)]

selectPreferredPath(peer, server, callback) ==
  LET both == Least(normalizePreferredCeiling(server), peer)
      units == (IF callback # 0 THEN Least(normalizePreferredCeiling(callback), both) ELSE both) \div 128
  IN [effective |-> units * 128, params |-> SizeParams(None, units)]

selectStandardPath(peer, server, callback) ==
  LET both == Least(normalizeStandardCeiling(server), peer)
      size == IF callback # 0 THEN Least(normalizeStandardCeiling(callback), both) ELSE both
  IN [effective |-> fallbackStandard(size), params |-> SizeParams(fallbackCode(size), None)]

selectSize(peer, configured, callback) ==
  LET server == normalizeConfiguredMax(configured) IN
  IF Omitted(peer) THEN selectOmittedCR(server, callback)
  ELSE IF peer.preferred # None THEN selectPreferredPath(peer.preferred, server, callback)
  ELSE selectStandardPath(peer.standard, server, callback)

-----------------------------------------------------------------------------
(* What the client takes from the CC, given the offer it sent              *)

interpretCCSize(sent, cc, profile) ==
  LET answer == Offer(cc) IN
  IF cc.code # None /\ cc.units # None THEN [ok |-> FALSE, effective |-> 0]
  ELSE IF cc.code = None /\ cc.units = None THEN
    [ok |-> profile = Compat,
     effective |-> Least(clientEffectiveProposal(sent), DefaultMaxTPDULength)]
  ELSE IF cc.units # None THEN
    [ok |-> /\ sent.preferred # None
            /\ cc.units \in 1 .. MaxPreferredUnitsITOT
            /\ answer.preferred <= sent.preferred,
     effective |-> answer.preferred]
  ELSE IF Omitted(sent) THEN
    [ok |-> cc.code \in StandardCodes,
     effective |-> Least(answer.standard, clientEffectiveProposal(sent))]
  ELSE
    [ok |-> /\ sent.standard # None
            /\ cc.code \in StandardCodes
            /\ answer.standard <= sent.standard,
     effective |-> answer.standard]
=============================================================================
