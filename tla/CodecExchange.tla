--------------------------- MODULE CodecExchange ---------------------------
(***************************************************************************)
(* The codec at work: a user marshals a TPDU, or octets of another         *)
(* implementation arrive; they are decoded, and what was decoded is        *)
(* marshalled and decoded again, as a relay or a capture tool does.        *)
(***************************************************************************)
EXTENDS Codec

CONSTANTS
  Tpdus,       \* TPDUs a user marshals
  Arrivals     \* octets another implementation sends

Octet == 0 .. 255
Uint16s == {u \in Nat : u < 65536}
OctetString == Seq(Octet)
Parameters == [code : Octet, value : OctetString]
ParameterList == Seq(Parameters)
Selector == {s \in Seq(OctetString) : Len(s) <= 1}
Opt(S) == S \cup {None}

\* The TPDUs that the exported types let a user build: pointers and slices may
\* be nil, the other fields of a type have a value, and a field that the type
\* has not got has none.
TPDU ==
  {t \in [type : Types, cdt : Opt(Octet), dst : Opt(Uint16s), src : Opt(Uint16s),
          opt : Opt(Octet), nr : Opt(Octet), eot : BOOLEAN, calling : Selector, called : Selector,
          size : Opt(Octet), pref : Opt(Nat), params : ParameterList, data : OctetString] :
     /\ t.type \in HasCDT <=> t.cdt # None
     /\ t.type \in HasSource <=> t.src # None
     /\ t.type \in HasOption <=> t.opt # None
     /\ t.dst = None \/ t.nr # None \/ t.eot => t.type \in {"DT", "ED"}
     /\ t.calling # Absent \/ t.called # Absent \/ t.size # None \/ t.pref # None => t.type \in {"CR", "CC"}
     /\ t.params # <<>> => t.type # "RJ"
     /\ t.data # <<>> => t.type \in HasUserData
     /\ t.pref # None => t.pref \div 16777216 <= 255}    \* a uint32

ASSUME TpdusAssumption == Tpdus \subseteq TPDU
ASSUME ArrivalsAssumption == Arrivals \subseteq OctetString

VARIABLES
  stage,       \* "idle", "sent", "received", "forwarded" or "over"
  given,       \* the TPDU that was marshalled, if one was
  sent,        \* the octets under way, or why there are none
  got,         \* what Decode made of them
  forwarded,   \* the octets of the TPDU that was decoded
  regot        \* what Decode made of those

vars == <<stage, given, sent, got, forwarded, regot>>

Init ==
  /\ stage = "idle" /\ given = NoTPDU
  /\ sent = Wire("none", <<>>) /\ forwarded = Wire("none", <<>>)
  /\ got = Fail("none") /\ regot = Fail("none")

Send ==
  /\ stage = "idle"
  /\ given' \in Tpdus
  /\ sent' = Marshal(given')
  /\ stage' = IF sent'.err = nil THEN "sent" ELSE "over"
  /\ UNCHANGED <<got, forwarded, regot>>

Arrive ==
  /\ stage = "idle"
  /\ \E b \in Arrivals : sent' = Wire(nil, b)
  /\ stage' = "sent"
  /\ UNCHANGED <<given, got, forwarded, regot>>

Receive ==
  /\ stage = "sent"
  /\ got' = Decode(sent.octets)
  /\ stage' = IF got'.err = nil THEN "received" ELSE "over"
  /\ UNCHANGED <<given, sent, forwarded, regot>>

Forward ==
  /\ stage = "received"
  /\ forwarded' = Marshal(got.tpdu)
  /\ stage' = IF forwarded'.err = nil THEN "forwarded" ELSE "over"
  /\ UNCHANGED <<given, sent, got, regot>>

ReceiveAgain ==
  /\ stage = "forwarded"
  /\ regot' = Decode(forwarded.octets)
  /\ stage' = "over"
  /\ UNCHANGED <<given, sent, got, forwarded>>

Next == Send \/ Arrive \/ Receive \/ Forward \/ ReceiveAgain

Spec == Init /\ [][Next]_vars
-----------------------------------------------------------------------------
(* Properties                                                              *)

Decoded == got.err = nil

\* The parameters of a list that have no field of their own in a CR or CC.
KeepUnknown(kept, p) == IF p.code \in KnownParams THEN kept ELSE Append(kept, p)
Unknown(params) == FoldLeft(KeepUnknown, <<>>, params)

\* What is left of a TPDU on the wire: counters lose the bits that have no
\* room, a nil TPDU-NR becomes zero, and Parameters of a CR or CC with the
\* code of a field of their own are dropped.
Canonical(t) ==
  [t EXCEPT !.cdt = IF @ = None THEN None ELSE @ % 16,
            !.nr = IF @ = None THEN (IF t.type = "DT" THEN 0 ELSE None) ELSE @ % 128,
            !.params = IF t.type \in {"CR", "CC"} THEN Unknown(@) ELSE @]

\* MarshalBinary refuses a TPDU or makes octets that Decode turns back into
\* it, up to every limit (LI 254, CR 128, ED 16, one-octet lengths).  The one
\* exception is a DT without destination reference but with parameters, whose
\* LI says that it is of the normal format.
MarshalDecodes ==
  given # NoTPDU /\ sent.err = nil /\ stage # "sent" =>
    \/ got = Ok(Canonical(given))
    \/ given.type = "DT" /\ given.dst = None /\ given.params # <<>>

\* Whatever Decode accepts can be marshalled, to no more octets than came in,
\* and decodes to the same TPDU: decoding loses nothing that encoding needs,
\* and a canonical encoding (order of parameters, shortest preferred maximum)
\* never pushes a TPDU over a limit.
RelayKeepsTPDU ==
  /\ Decoded /\ stage # "received" => forwarded.err = nil
  /\ forwarded.err = nil => Len(forwarded.octets) <= Len(sent.octets)
  /\ stage = "over" /\ forwarded.err = nil => regot = got

\* The types with a plain list of parameters are kept octet by octet, all but
\* the code of a DT, which loses its ROA bit: the parser skips nothing and
\* reads nothing twice, and the user data begins where the header ends.
PlainHeaderKept ==
  forwarded.err = nil /\ got.tpdu.type \notin {"CR", "CC"} =>
    LET n == HeaderLength(sent.octets)
        kept == n + (IF got.tpdu.type \in HasUserData THEN Len(sent.octets) - n ELSE 0)
    IN /\ Len(forwarded.octets) = kept
       /\ \A i \in 1 .. kept : forwarded.octets[i] =
            IF i = 2 /\ got.tpdu.type = "DT" THEN 240 ELSE sent.octets[i]

\* X.224 13.2.3 as a definition over the whole list: of a repeated parameter
\* of a CR or CC the last value counts, unknown ones are all kept in their
\* order, and a value of illegal length is refused even if a later one would
\* replace it.
LastValueWins ==
  Decoded /\ got.tpdu.type \in {"CR", "CC"} =>
    LET t == got.tpdu
        params == parseVariablePart(variablePart(t.type, sent.octets)).params
        at(code) == {i \in DOMAIN params : params[i].code = code}
        last(code) == IF at(code) = {} THEN <<>> ELSE <<params[Max(at(code))].value>>
    IN /\ t.calling = last(ParamCallingSelector)
       /\ t.called = last(ParamCalledSelector)
       /\ t.size = (IF last(ParamTPDUSize) = <<>> THEN None ELSE last(ParamTPDUSize)[1][1])
       /\ t.pref = (IF last(ParamPreferredMaxTPDUSize) = <<>> THEN None
                    ELSE BigEndian(last(ParamPreferredMaxTPDUSize)[1]))
       /\ t.params = Unknown(params)
       /\ \A i \in DOMAIN params :
            /\ params[i].code = ParamTPDUSize => Len(params[i].value) = 1
            /\ params[i].code = ParamPreferredMaxTPDUSize => Len(params[i].value) \in 1 .. 4

\* The verdict of validateCRParameters and validateCCParameters is about the
\* parameters on the wire: a CR passes if none is one that Class 0 forbids, a
\* CC if each is a selector or a size.  Connect calls validateCCParameters.
\* Accept makes the test of validateCRParameters, which only unit tests call,
\* inside class0CRProtocolError (accept.go:235), on the same list.
WireParametersJudged ==
  Decoded =>
    LET params(type) == parseVariablePart(variablePart(type, sent.octets)).params
        codes(type) == {params(type)[i].code : i \in DOMAIN params(type)}
    IN /\ got.tpdu.type = "CR" =>
            (validateCRParameters(got.tpdu.params) = nil <=> codes("CR") \cap (195 .. 206) = {})
       /\ got.tpdu.type = "CC" =>
            (validateCCParameters(got.tpdu.params) = nil <=> codes("CC") \subseteq KnownParams)

\* An open connection takes exactly the octets that WriteTSDU makes of a
\* segment, if they fit: what decodeOpenDT accepts is, octet by octet, the
\* minimal DT of its user data, and every such DT is accepted.
OpenDTIsMinimal ==
  sent.err = nil => \A max \in {Len(sent.octets) - 1, Len(sent.octets)} :
    LET b == sent.octets
        own == Len(b) >= 3 /\ b[1] = 2 /\ b[2] = 240 /\ b[3] \in {0, 128}
        r == decodeOpenDT(b, max)
    IN /\ r.err = nil <=> own /\ max = Len(b)
       /\ r.err = nil => MarshalDT(r.tpdu).octets = b /\ r.tpdu.data = SubSeq(b, 4, Len(b))

\* Detection agrees with decoding, given the code tables (the masks of PeekType,
\* of the LooksLike functions and of the decoders are one HasCode here): octets that decode look like their type and
\* like no other, only the DecodeXX of that type takes them, what looks like a
\* type is never refused for its code, and ExtractUserData returns what Decode
\* puts in UserData.
DetectionAgrees ==
  stage \notin {"idle", "sent"} /\ sent.err = nil =>
    LET b == sent.octets
        type == IF Decoded THEN {got.tpdu.type} ELSE {}
        looks == {t \in Types : LooksLike(t, b)}
    IN /\ Decoded => looks = type /\ (IsConnectionOriented(b) <=> type \subseteq {"CR", "CC", "DR", "DC"})
       /\ {t \in Types : DecodeAs(t, b).err = nil} = type
       /\ looks # {} => got.err \notin {"ErrInvalidTPDUCode", "ErrReservedTPDU"}
       /\ ExtractUserData(b).err = nil <=> Decoded /\ type \subseteq {"DT", "ED"}
       /\ ExtractUserData(b).err = nil => ExtractUserData(b).octets = got.tpdu.data
=============================================================================
