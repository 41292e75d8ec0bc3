------------------------------- MODULE Codec -------------------------------
(***************************************************************************)
(* The TPDU codec: Decode, the MarshalBinary methods, the parameters of    *)
(* the variable part, detection, and the checks that an open connection    *)
(* and the handshake make on what was decoded.                             *)
(*                                                                         *)
(* A TPDU on the wire is a sequence of octets, b[1] its LI and b[2] its    *)
(* code.  A decoded one is a record with a field for everything that any   *)
(* type can have; None is a nil pointer or slice, or a field the type has  *)
(* not got.  The fixed part ends in one octet whose meaning differs: opt   *)
(* (class and option, reason, cause, YR-TU-NR) or TPDU-NR and EOT.  An     *)
(* error is named by the sentinels that errors.Is finds in it; errors of   *)
(* the codec that another wraps as text (%v) are not found.                *)
(***************************************************************************)
EXTENDS Integers, Sequences, SequencesExt

None == -1
Absent == <<>>     \* a selector that is nil; one that is not is <<octets>>
nil == "nil"

MinHeaderLength == 2
MaxLI == 254
MaxCRTPDULength == 128
MaxParameterValueLength == 255
MinEDUserDataLen == 1
MaxEDUserDataLen == 16

ParamTPDUSize == 192               \* 0xC0
ParamCallingSelector == 193        \* 0xC1
ParamCalledSelector == 194         \* 0xC2
ParamPreferredMaxTPDUSize == 240   \* 0xF0
KnownParams == {ParamTPDUSize, ParamCallingSelector, ParamCalledSelector, ParamPreferredMaxTPDUSize}

\* The high bits of the code octet, and how many values the low ones have.
TPDUType ==
  [CR |-> 224, CC |-> 208, DR |-> 128, DC |-> 192, DT |-> 240, ER |-> 112,
   ED |-> 16, AK |-> 96, EA |-> 32, RJ |-> 80]
Types == DOMAIN TPDUType
LowCodes ==
  [t \in Types |-> IF t \in {"CR", "CC", "AK", "RJ"} THEN 16 ELSE IF t = "DT" THEN 2 ELSE 1]
HasCode(t, code) == code \in TPDUType[t] .. (TPDUType[t] + LowCodes[t] - 1)

FixedPartLength ==
  [CR |-> 6, CC |-> 6, DR |-> 6, DC |-> 5, ER |-> 4, ED |-> 4, AK |-> 4, EA |-> 4, RJ |-> 4]

HasCDT == {"CR", "CC", "AK", "RJ"}
HasSource == {"CR", "CC", "DR", "DC"}
HasOption == {"CR", "CC", "DR", "ER", "AK", "EA", "RJ"}
HasUserData == {"CR", "CC", "DR", "DT", "ED"}

NoTPDU == [type |-> "none"]
Result(e, t) == [err |-> e, tpdu |-> t]
Fail(e) == Result(e, NoTPDU)
Ok(t) == Result(nil, t)
\* The first error of two checks in sequence.
Then(e, f) == IF e # nil THEN e ELSE f

Octets(u16) == <<u16 \div 256, u16 % 256>>
Uint16(b, i) == 256 * b[i] + b[i + 1]

-----------------------------------------------------------------------------
(* Framing                                                                 *)

ReadLI(b) ==
  IF Len(b) < 1 THEN "ErrTooShort" ELSE IF b[1] > MaxLI THEN "ErrInvalidLI" ELSE nil

HeaderLength(b) == 1 + b[1]

headerBounds(b, fixed) ==
  IF b[1] < fixed THEN "ErrInvalidLI"
  ELSE IF Len(b) < HeaderLength(b) THEN "ErrTooShort"
  ELSE nil

PeekType(b) ==
  IF Len(b) < MinHeaderLength THEN Fail("ErrTooShort")
  ELSE IF ReadLI(b) # nil THEN Fail(ReadLI(b))
  ELSE IF \E t \in Types : HasCode(t, b[2])
    THEN Ok([type |-> CHOOSE t \in Types : HasCode(t, b[2])])
  ELSE IF b[2] \in {0, 48} THEN Fail("ErrReservedTPDU")
  ELSE Fail("ErrInvalidTPDUCode")

-----------------------------------------------------------------------------
(* Parameters                                                              *)

\* Mutant: the test for an overrun is off by one.
scanOverrun(v) ==
  LET from[pos \in 1 .. Len(v) + 1] ==
        LET next == pos + 2 + v[pos + 1]
            end == IF next > Len(v) + 1 THEN Len(v) + 1 ELSE next
        IN IF pos > Len(v) THEN [err |-> nil, params |-> <<>>]
           ELSE IF pos + 1 > Len(v) \/ next > Len(v) + 2
             THEN [err |-> "ErrMalformedParameter", params |-> <<>>]
           ELSE [from[end] EXCEPT !.params =
                   <<[code |-> v[pos], value |-> SubSeq(v, pos + 2, end - 1)]>> \o @]
  IN from[1]

\* The loop of both parsers: the parameters up to the first that is malformed.
scan(v) ==
  LET from[pos \in 1 .. Len(v) + 1] ==
        LET next == pos + 2 + v[pos + 1]
        IN IF pos > Len(v) THEN [err |-> nil, params |-> <<>>]
           ELSE IF pos + 1 > Len(v) \/ next > Len(v) + 1
             THEN [err |-> "ErrMalformedParameter", params |-> <<>>]
           ELSE [from[next] EXCEPT !.params =
                   <<[code |-> v[pos], value |-> SubSeq(v, pos + 2, next - 1)]>> \o @]
  IN from[1]

parseVariablePart(v) ==
  IF scan(v).err # nil THEN [scan(v) EXCEPT !.params = <<>>] ELSE scan(v)

\* The value of octets, the most significant first.
BigEndian(value) ==
  LET upTo[i \in 0 .. Len(value)] == IF i = 0 THEN 0 ELSE 256 * upTo[i - 1] + value[i]
  IN upTo[Len(value)]

\* Mutant: zero units are accepted.
decodePreferredMaxUnitsZero(value) ==
  IF Len(value) \notin 1 .. 4 THEN None ELSE BigEndian(value)

decodePreferredMaxUnits(value) ==
  IF Len(value) \notin 1 .. 4 \/ BigEndian(value) = 0 THEN None ELSE BigEndian(value)

\* The fewest octets that hold units, which are not zero.
encodePreferredMaxUnits(units) ==
  LET octets == <<units \div 16777216, (units \div 65536) % 256, (units \div 256) % 256, units % 256>>
      lead == CHOOSE i \in 1 .. 4 : octets[i] # 0 /\ \A j \in 1 .. i - 1 : octets[j] = 0
  IN SubSeq(octets, lead, 4)

NoCRCC == [err |-> nil, calling |-> Absent, called |-> Absent, size |-> None, pref |-> None,
           params |-> <<>>]

\* What one parameter of a CR or CC does to the result; nothing after an error.
applyParameter(r, p) ==
  IF r.err # nil THEN r
  ELSE CASE p.code = ParamCallingSelector -> [r EXCEPT !.calling = <<p.value>>]
         [] p.code = ParamCalledSelector -> [r EXCEPT !.called = <<p.value>>]
         [] p.code = ParamTPDUSize ->
              IF Len(p.value) # 1 THEN [r EXCEPT !.err = "ErrUnexpectedParameterLength"]
              ELSE [r EXCEPT !.size = p.value[1]]
         [] p.code = ParamPreferredMaxTPDUSize ->
              IF decodePreferredMaxUnits(p.value) = None
                THEN [r EXCEPT !.err = "ErrUnexpectedParameterLength"]
                ELSE [r EXCEPT !.pref = decodePreferredMaxUnits(p.value)]
         [] OTHER -> [r EXCEPT !.params = Append(@, p)]

\* Mutant: the first value of a parameter wins.
parseCRCCVariablePartFirst(v) ==
  LET r == FoldLeft(applyParameter, NoCRCC, Reverse(scan(v).params))
  IN [r EXCEPT !.err = Then(@, scan(v).err), !.params = Reverse(@)]

parseCRCCVariablePart(v) ==
  LET r == FoldLeft(applyParameter, NoCRCC, scan(v).params)
  IN [r EXCEPT !.err = Then(@, scan(v).err)]

\* A variable part under construction is an error or octets.
Wire(e, octets) == [err |-> e, octets |-> octets]

appendParameter(dst, p) ==
  IF dst.err # nil THEN dst
  ELSE IF Len(p.value) > MaxParameterValueLength THEN Wire("ErrUnexpectedParameterLength", <<>>)
  ELSE Wire(nil, dst.octets \o <<p.code, Len(p.value)>> \o p.value)

encodeVariablePart(params) == FoldLeft(appendParameter, Wire(nil, <<>>), params)

appendUnknown(dst, p) == IF p.code \in KnownParams THEN dst ELSE appendParameter(dst, p)

\* The known parameters in their canonical order, then the unknown ones.
encodeCRCCVariablePart(t) ==
  LET selector(code, s) == IF s = Absent THEN <<>> ELSE <<[code |-> code, value |-> s[1]]>>
      known == selector(ParamCallingSelector, t.calling)
                 \o selector(ParamCalledSelector, t.called)
                 \o (IF t.size = None THEN <<>> ELSE <<[code |-> ParamTPDUSize, value |-> <<t.size>>]>>)
                 \o (IF t.pref = None THEN <<>>
                     ELSE <<[code |-> ParamPreferredMaxTPDUSize, value |-> encodePreferredMaxUnits(t.pref)]>>)
  IN IF t.pref = 0 THEN Wire("ErrUnexpectedParameterLength", <<>>)
     ELSE FoldLeft(appendUnknown, encodeVariablePart(known), t.params)

-----------------------------------------------------------------------------
(* Decoding                                                                *)

\* Length, LI, header and code, in the order every DecodeXX looks at them.
headerError(type, b) ==
  IF Len(b) < 1 + FixedPartLength[type] THEN "ErrTooShort"
  ELSE Then(ReadLI(b), Then(headerBounds(b, FixedPartLength[type]),
       IF HasCode(type, b[2]) THEN nil ELSE "ErrInvalidTPDUCode"))

variablePart(type, b) == SubSeq(b, 2 + FixedPartLength[type], HeaderLength(b))
userData(b) == SubSeq(b, HeaderLength(b) + 1, Len(b))

\* The fields of type in b, but for the parameters.
fixedFields(type, b) ==
  LET last == b[1 + FixedPartLength[type]] IN
  [type |-> type,
   cdt |-> IF type \in HasCDT THEN b[2] % 16 ELSE None,
   dst |-> Uint16(b, 3),
   src |-> IF type \in HasSource THEN Uint16(b, 5) ELSE None,
   opt |-> IF type \in HasOption THEN last ELSE None,
   nr |-> IF type = "ED" THEN last % 128 ELSE None,
   eot |-> type = "ED" /\ last >= 128,
   calling |-> Absent, called |-> Absent, size |-> None, pref |-> None, params |-> <<>>,
   data |-> IF type \in HasUserData THEN userData(b) ELSE <<>>]

\* The types whose variable part is a plain list of parameters.
decodePlain(type, b) ==
  LET p == parseVariablePart(variablePart(type, b)) IN
  IF headerError(type, b) # nil THEN Fail(headerError(type, b))
  ELSE IF p.err # nil THEN Fail(p.err)
  ELSE Ok([fixedFields(type, b) EXCEPT !.params = p.params])

decodeCRCC(type, b) ==
  LET r == parseCRCCVariablePart(variablePart(type, b)) IN
  IF headerError(type, b) # nil THEN Fail(headerError(type, b))
  ELSE IF r.err # nil THEN Fail(r.err)
  ELSE Ok([fixedFields(type, b) EXCEPT !.calling = r.calling, !.called = r.called,
             !.size = r.size, !.pref = r.pref, !.params = r.params])

DecodeCR(b) ==
  IF Len(b) < 1 + FixedPartLength["CR"] THEN Fail("ErrTooShort")
  ELSE IF Len(b) > MaxCRTPDULength THEN Fail("ErrLengthMismatch")
  ELSE decodeCRCC("CR", b)

DecodeCC(b) == decodeCRCC("CC", b)
DecodeDR(b) == decodePlain("DR", b)
DecodeDC(b) == decodePlain("DC", b)
DecodeER(b) == decodePlain("ER", b)
DecodeAK(b) == decodePlain("AK", b)
DecodeEA(b) == decodePlain("EA", b)

DecodeED(b) ==
  LET r == decodePlain("ED", b) IN
  IF r.err = nil /\ Len(r.tpdu.data) \notin MinEDUserDataLen .. MaxEDUserDataLen
    THEN Fail("ErrInvalidEDUserDataLength") ELSE r

\* No variable part: an LI beyond the fixed part is refused before the header
\* is compared with the buffer.
DecodeRJ(b) ==
  IF Len(b) >= 1 + FixedPartLength["RJ"] /\ ReadLI(b) = nil /\ b[1] > FixedPartLength["RJ"]
    THEN Fail("ErrMalformedParameter")
    ELSE decodePlain("RJ", b)

\* The format is the LI's alone: 2 is minimal, 4 and more is normal.
DecodeDT(b) ==
  LET fixed == IF b[1] = 2 THEN 2 ELSE 4
      last == b[1 + fixed]
      p == parseVariablePart(SubSeq(b, 2 + fixed, HeaderLength(b)))
  IN
  IF Len(b) < MinHeaderLength THEN Fail("ErrTooShort")
  ELSE IF ReadLI(b) # nil THEN Fail(ReadLI(b))
  ELSE IF Len(b) < HeaderLength(b) THEN Fail("ErrTooShort")
  ELSE IF ~HasCode("DT", b[2]) THEN Fail("ErrInvalidTPDUCode")
  ELSE IF b[1] \in {0, 1, 3} THEN Fail("ErrUnsupportedDTVariant")
  ELSE IF p.err # nil THEN Fail(p.err)
  ELSE Ok([type |-> "DT", cdt |-> None, dst |-> IF fixed = 2 THEN None ELSE Uint16(b, 3),
           src |-> None, opt |-> None, nr |-> last % 128, eot |-> last >= 128,
           calling |-> Absent, called |-> Absent, size |-> None, pref |-> None,
           params |-> p.params, data |-> userData(b)])

DecodeAs(type, b) ==
  CASE type = "CR" -> DecodeCR(b) [] type = "CC" -> DecodeCC(b)
    [] type = "DT" -> DecodeDT(b) [] type = "DR" -> DecodeDR(b)
    [] type = "DC" -> DecodeDC(b) [] type = "ER" -> DecodeER(b)
    [] type = "ED" -> DecodeED(b) [] type = "AK" -> DecodeAK(b)
    [] type = "EA" -> DecodeEA(b) [] type = "RJ" -> DecodeRJ(b)

Decode(b) ==
  LET t == PeekType(b) IN IF t.err # nil THEN t ELSE DecodeAs(t.tpdu.type, b)

-----------------------------------------------------------------------------
(* Encoding                                                                *)

\* The fixed part of every type but DT.
fixedPart(t) ==
  <<TPDUType[t.type] + (IF t.type \in HasCDT THEN t.cdt % 16 ELSE 0)>>
    \o Octets(t.dst)
    \o (IF t.type \in HasSource THEN Octets(t.src) ELSE <<>>)
    \o (IF t.type \in HasOption THEN <<t.opt>>
        ELSE IF t.type = "ED" THEN <<(t.nr % 128) + (IF t.eot THEN 128 ELSE 0)>>
        ELSE <<>>)

\* Mutant: the length of the fixed part is left out of the test against MaxLI.
assembleLong(fixed, var, data) ==
  IF var.err # nil THEN var
  ELSE IF Len(var.octets) > MaxLI THEN Wire("ErrInvalidLI", <<>>)
  ELSE Wire(nil, <<(Len(fixed) + Len(var.octets)) % 256>> \o fixed \o var.octets \o data)

\* LI, the fixed and the variable part, and the user data.
assemble(fixed, var, data) ==
  LET li == Len(fixed) + Len(var.octets) IN
  IF var.err # nil THEN var
  ELSE IF li > MaxLI THEN Wire("ErrInvalidLI", <<>>)
  ELSE Wire(nil, <<li>> \o fixed \o var.octets \o data)

MarshalCR(t) ==
  LET w == assemble(fixedPart(t), encodeCRCCVariablePart(t), t.data) IN
  IF w.err = nil /\ Len(w.octets) > MaxCRTPDULength THEN Wire("ErrLengthMismatch", <<>>) ELSE w

MarshalCC(t) == assemble(fixedPart(t), encodeCRCCVariablePart(t), t.data)
MarshalDR(t) == assemble(fixedPart(t), encodeVariablePart(t.params), t.data)
MarshalDC(t) == assemble(fixedPart(t), encodeVariablePart(t.params), <<>>)
MarshalER(t) == assemble(fixedPart(t), encodeVariablePart(t.params), <<>>)
MarshalAK(t) == assemble(fixedPart(t), encodeVariablePart(t.params), <<>>)
MarshalEA(t) == assemble(fixedPart(t), encodeVariablePart(t.params), <<>>)
MarshalRJ(t) == assemble(fixedPart(t), Wire(nil, <<>>), <<>>)

MarshalED(t) ==
  IF t.dst = None \/ t.nr = None THEN Wire("ErrMissingRequiredField", <<>>)
  ELSE IF Len(t.data) \notin MinEDUserDataLen .. MaxEDUserDataLen
    THEN Wire("ErrInvalidEDUserDataLength", <<>>)
  ELSE assemble(fixedPart(t), encodeVariablePart(t.params), t.data)

\* Minimal without a destination reference, normal with one; a nil TPDU-NR is
\* zero.
MarshalDT(t) ==
  LET nr == (IF t.nr = None THEN 0 ELSE (t.nr % 128)) + (IF t.eot THEN 128 ELSE 0)
      fixed == IF t.dst = None THEN <<240, nr>> ELSE <<240>> \o Octets(t.dst) \o <<nr>>
  IN assemble(fixed, encodeVariablePart(t.params), t.data)

Marshal(t) ==
  CASE t.type = "CR" -> MarshalCR(t) [] t.type = "CC" -> MarshalCC(t)
    [] t.type = "DT" -> MarshalDT(t) [] t.type = "DR" -> MarshalDR(t)
    [] t.type = "DC" -> MarshalDC(t) [] t.type = "ER" -> MarshalER(t)
    [] t.type = "ED" -> MarshalED(t) [] t.type = "AK" -> MarshalAK(t)
    [] t.type = "EA" -> MarshalEA(t) [] t.type = "RJ" -> MarshalRJ(t)

-----------------------------------------------------------------------------
(* Detection and extraction                                                *)

\* Mutant: the whole low nibble of a DT's code is ignored.
LooksLikeNibble(type, b) ==
  Len(b) >= MinHeaderLength /\ ReadLI(b) = nil /\ Len(b) >= HeaderLength(b)
    /\ (HasCode(type, b[2]) \/ (type = "DT" /\ b[2] \div 16 = 15))

\* LooksLikeCR to LooksLikeRJ.
LooksLike(type, b) ==
  Len(b) >= MinHeaderLength /\ ReadLI(b) = nil /\ Len(b) >= HeaderLength(b) /\ HasCode(type, b[2])

IsConnectionOriented(b) ==
  PeekType(b).err = nil /\ PeekType(b).tpdu.type \in {"CR", "CC", "DR", "DC"}

\* The user data of a DT or ED.
ExtractUserData(b) ==
  LET t == PeekType(b) IN
  IF t.err # nil THEN Wire(t.err, <<>>)
  ELSE IF t.tpdu.type \notin {"DT", "ED"} THEN Wire("ErrInvalidTPDUCode", <<>>)
  ELSE LET r == IF t.tpdu.type = "DT" THEN DecodeDT(b) ELSE DecodeED(b)
       IN IF r.err # nil THEN Wire(r.err, <<>>) ELSE Wire(nil, r.tpdu.data)

-----------------------------------------------------------------------------
(* What the connection makes of a decoded TPDU                             *)

isKnownClass0ForbiddenParam(code) == code \in 195 .. 206   \* 0xC3 to 0xCE

validateCRParameters(params) ==
  IF \E i \in DOMAIN params : isKnownClass0ForbiddenParam(params[i].code) THEN "ErrHandshake" ELSE nil

\* Mutant: unknown parameters are ignored in a CC as they are in a CR.
validateCCParametersLax(params) ==
  IF \E i \in DOMAIN params : isKnownClass0ForbiddenParam(params[i].code) THEN "ErrHandshake" ELSE nil

validateCCParameters(params) ==
  IF \E i \in DOMAIN params : isKnownClass0ForbiddenParam(params[i].code) \/ params[i].code \notin KnownParams
    THEN "ErrHandshake" ELSE nil

\* Mutant: any DT code passes, also one with the request of acknowledgment.
validateMinimalClass0DTAnyROA(li, typeOctet, nrAndEOT) ==
  IF li # 2 \/ nrAndEOT % 128 # 0 THEN "ErrHandshake" ELSE nil

validateMinimalClass0DT(li, typeOctet, nrAndEOT) ==
  IF li # 2 \/ typeOctet # 240 \/ nrAndEOT % 128 # 0 THEN "ErrHandshake" ELSE nil

validateOpenDTParameters(params) == IF params = <<>> THEN nil ELSE "ErrHandshake"

unexpectedOpenTPDU(type) ==
  IF type = "DR" THEN "ErrUnexpectedTPDU, ErrDisconnected" ELSE "ErrUnexpectedTPDU"

decodeOpenDT(b, maxTPDU) ==
  LET r == Decode(b)
      nrAndEOT == IF Len(b) > 2 THEN b[3] ELSE 0
  IN
  IF Len(b) > maxTPDU THEN Fail("ErrHandshake")
  ELSE IF Len(b) < MinHeaderLength THEN Fail("ErrHandshake, ErrTooShort")
  ELSE IF r.err # nil THEN Fail("ErrHandshake")
  ELSE IF r.tpdu.type # "DT" THEN Fail(unexpectedOpenTPDU(r.tpdu.type))
  ELSE LET e == Then(validateMinimalClass0DT(b[1], b[2], nrAndEOT),
                Then(IF r.tpdu.dst # None THEN "ErrHandshake" ELSE nil,
                     validateOpenDTParameters(r.tpdu.params)))
       IN IF e # nil THEN Fail(e) ELSE r
=============================================================================
