# go-cotp: TLA+ models, checks and proofs

go-cotp is a Go implementation of the ISO 8073 / X.224 Class 0 transport
protocol over TPKT (RFC 1006): `Connect` and `Accept` shake hands over a stream
the caller supplies and return a `Conn`, whose `ReadTSDU`, `WriteTSDU` and
`Close` may be called from any number of goroutines. This directory models the
connection engine, two ends of it against each other, the handshake and its size
negotiation, and the TPDU codec, checks them with TLC, and proves with TLAPS
the safety properties, for every value of the constants.

## 1. Inventory

| component | state | operations | interacts with |
| --- | --- | --- | --- |
| open connection (`conn.go`, `tsdu.go`, `open_dt.go`) | `state`, `termKind`/`termErr`, `termOnce`, `readMu`/`writeMu`, `refOnce` | `ReadTSDU`, `WriteTSDU`, `Close`, `finish`, `abort`, `requireOpen`, `idleTimeout`, `classifyIOPhase` | stream, deadlines, meter, allocator |
| direction deadlines (`deadline.go`) | `active`, `gen`, the stream's deadlines | `arm`, `disarm`, the `context.AfterFunc` callback | contexts, stream |
| octet meter (`deadline.go`) | `nRead`, `nWritten` | `Read`, `Write` | stream, TSDU operations |
| reference allocator (`reference_allocator.go`) | `next`, `active` | `Allocate`, `Release` | both handshakes, `releaseRef` |
| size negotiation (`size_nego.go`, `size_profile.go`) | none (pure) | `buildSizeOffer`, `decodeSizeOffer`, `selectSize`, `interpretCCSize` | both handshakes |
| handshake (`connect.go`, `accept.go`, `config.go`, `handshake_validate.go`) | `localRef`, `refHeld`, `success`, the offer, the selection | `Connect`, `Accept`, their deferred exits, `OnConnect` | everything above |
| TPDU codec (`decode*.go`, `encode*.go`, `params.go`, `wire.go`, `preferred_max.go`) | none (pure) | `Decode`, `MarshalBinary` | handshake, TSDU operations |
| detection, extraction (`detect.go`, `extract.go`) | none (pure) | `LooksLikeXX`, `IsConnectionOriented`, `ExtractUserData` | codec |
| rendering (`string.go`, `doc.go`) | none (pure) | text for people | none |

What is hard here: goroutines of both directions and `Close` meet in
`termOnce`, `termMu`, `state` and the channel locks; the stream's deadline and
the context's timer are independent, and the callbacks of finished operations
may run late; a TSDU takes many packets and a packet many reads, and a failure
may come between any two; a reference must be given back exactly once on a dozen
exits; the two ends compute the negotiated size separately; a caller may send
again a TSDU whose context ended; the reader learns from the end of a stream what
became of the writer; and ten decoders, ten encoders and ten detectors repeat the
same tests at limits of their own. `PROJECT.json`
lists these hazards at their lines with the properties that cover them.

## 2. Modules and how they correspond to the code

An error is the set of the sentinels that `errors.Is` finds in it: `{}` is nil,
`errors.Join` and a second `%w` are union. A context is `ctx` (`ctx.Err()`) and
`dl` (`ctx.Deadline()`): the deadline may have passed although the timer has not
fired, as in the code's comments. `PROJECT.json` maps every definition to lines.
Operators whose comment says *Mutant* are deliberately wrong variants: each
property is known to fail when the variant replaces the definition after it.

* **Conn**: one open connection. A goroutine's `pc` is the place between two
  accesses to shared state; `requireOpen` is two steps (it reads the cause and
  then the state), `finish` is five (cause, state, `raw.Close`, `releaseRef`,
  state). A packet crosses the stream in two steps, so that every failure may
  find a packet half moved. TSDUs are abstracted to lengths, a packet to its kind,
  length and EOT. `owner` and `late` are history variables. The stream ends, is
  reset, times out in the kernel, or breaks with another error.
* **TsduService**: what a pair of open connections promises its users in one
  direction: TSDUs are delivered whole, in the order in which they were accepted,
  each once. How many of them arrive once an end is down is not promised, Class 0
  acknowledges nothing.
* **TsduTransfer** composes two instances of `Conn`, one whose writers segment and
  one whose readers reassemble, with the stream between them: a sequence of DT
  packets and perhaps a part of one more. Every step is a step of one `Conn` with
  its effect on the stream. A segment carries the call and the offset its octets
  come from, so splicing, repeating or losing a part would show. The end of
  the stream is found where the writer's octets end, and only after its
  `raw.Close`; a reset may destroy octets at any time. The refinement mapping to
  `TsduService` keeps `accepted` and `delivered` and gives
  `up <- aTermKind = "none" /\ bTermKind = "none"`.
* **DirectionDeadline**: `arm`, the callback and `disarm`, with a critical
  section of `d.mu` as one step, for the object of the handshake (both
  directions) and the two of the Conn. An operation stands for the deadline of
  its own context, so a stream deadline tells whose it is.
* **ReferenceAllocator**: `Allocate` with its wrap-around loop, `Release`, and
  the life of a reference through a handshake and a Conn.
* **SizeNegotiation** (operators) and **SizeExchange** (one exchange of them,
  where either end may be another implementation).
* **Handshake** composes `SizeNegotiation` with `Connect` and `Accept` over one
  stream: preflight, allocation, CR, the policy, CC/DR/ER, and the deferred
  exits (release the reference, then close the stream). One end may be another
  implementation that sends any TPDU, stays silent or closes. Selectors, connect
  data and lengths are abstracted to what the checks ask of them.
* **Codec** (operators): `Decode` and `MarshalBinary` of the ten types on real
  octets, in the order in which the code tests, with the parsers and encoders of
  the variable part, detection, extraction, and the checks that the handshake and
  an open connection make on what was decoded. The ten decoders differ in tables
  (`FixedPartLength`, `LowCodes`, which fields a type has) and in the few tests of
  their own; the model has the tables once and those tests per type. The two
  parsers share one loop (`scan`). **CodecExchange** puts them to work: a TPDU is
  marshalled, or octets of another implementation arrive; they are decoded, and
  what was decoded is marshalled and decoded again.
* **MCConn**, **MCTsduTransfer**, **MCDirectionDeadline**,
  **MCReferenceAllocator**, **MCSizeExchange**, **MCHandshake**, **MCCodec**: the
  TLC instances.
* **ReferenceAllocatorProofs**, **DirectionDeadlineProofs**, **ConnProofs**,
  **TsduTransferProofs**, **SizeNegotiationProofs** (facts about operators),
  **SizeExchangeProofs**, **HandshakeProofs**, **CodecProofs**: the theorems.

## 3. Runs

| run | instance | shows |
| --- | --- | --- |
| `conn_transfer` | 2 writers, 1 closer, TSDUs of 0, 3 and 4 octets, 2 octets to a segment, limit 3; reset and ETIMEDOUT | `StreamAtBoundary`, `HalfTsduIsTerminal`, `CtxErrorMeansNothingMoved` |
| `conn_duplex` | 1 reader, 1 writer, 1 closer, TSDUs up to 2 segments, EOF, ETIMEDOUT and a broken stream | `TypeOK`, `StreamAtBoundary`, `ReturnsRecordedCause`, `DisconnectedMeansPeer`, `FinishedOnReturn`, `RefOutlivesStream`, `FirstCauseWins` |
| `conn_live` | 2 readers, 1 closer, a peer that may stay silent | `TerminalUnblocks`, `CtxUnblocks` |
| `deadline` | the handshake and 2 reads | `TimeoutIsOwn`, `RestoredBetweenOps`, `CancelInterrupts` |
| `references` | references 1..4, 5 attempts | `LiveRefsUnique`, `ActiveIsLive`, `RefusedOnlyWhenFull`, `TypeOK` |
| `sizes` | 10 ceilings for each of client, server and callback, both profiles, foreign codes and units | `SizesAgree`, `WithinOwnCeiling`, `SelectsLargest` (against a reference definition), `EchoKeepsSelection` |
| `handshake_pair` | this client and this server, 7 configurations each, every decision, cancellation, reset | `NothingLeaks`, `OpenEndsAgree`, `RefusalIsTheServers`, `HandshakeEnds` |
| `handshake_foreign` | this client or this server against another implementation, contexts with deadlines | `NothingLeaks`, `CtxEndsHandshake` |
| `tsdu_transfer` | a writer and a closer at one end, a reader at the other; two TSDUs of 2 and 3 octets, 1 octet to a segment, limit 3 for the writer and 2 for the reader; EOF and reset | `ImplementsService`, `CleanEndMeansAllDelivered`, `IncompleteMeansAbandoned` |
| `tsdu_live` | the same ends, TSDUs and limits with fairness, without a reset | `AcceptedArrives` |
| `codec` | 679 TPDUs at and around every limit; 16941 octet strings: every code with every short LI, arbitrary variable parts of up to 5 octets, lists of up to 3 parameters, whole and cut | `MarshalDecodes`, `RelayKeepsTPDU`, `PlainHeaderKept`, `LastValueWins`, `WireParametersJudged`, `OpenDTIsMinimal`, `DetectionAgrees` |

Why the bounds are enough. The behaviour of `Conn` depends on who is ahead of
whom in one direction (two callers), on the other direction (one) and on `Close`
(one); a TSDU needs two segments for a failure between them and a limit that the
last one may exceed. Callers call again and again, so one goroutine also shows
what a finished call leaves behind. `DirectionDeadline` needs two operations on
one object and one on another. The allocator's counter wraps within five steps.
The ceilings of `sizes` lie at and around every place where a branch turns.
`TsduTransfer` needs a second TSDU, so that what the first left behind could meet
it: in both runs the second is broken off after the first was accepted, or has 3
octets and is refused by a reader whose limit is 2. A reset would satisfy
`AcceptedArrives` at once, so `tsdu_live` leaves it out. The calls begin while the
connection is not over, later ones never reach the stream; the runs of `Conn` show
that a second goroutine in a direction only waits.
`Codec` has no state: what matters is that every comparison is met from
both sides, and the TPDUs and octets of `MCCodec` are grouped by the limit they
stand at. The masks for the code octet in `PeekType`, the `LooksLike` functions and the
decoders are one table (`HasCode`), so `DetectionAgrees` is about everything but a slip in
a single mask. A preferred maximum stays below 2^31, the largest integer of TLC.
Model values of the same kind are interchangeable, hence the symmetry of
`conn_transfer`; the runs with liveness use none.

Deadlock is checked for `Conn`: somebody can always call again. It is not
checked for the others, whose operations, handshakes, transfers or exchanges come
to an end.

Fairness. `Conn`: goroutines are scheduled (weak fairness of a goroutine's own
steps, a failing packet included), and a channel send that is possible again and
again is made, because the runtime serves waiting senders in order (strong
fairness of `AwaitLock`). `DirectionDeadline`: operations and callbacks are
scheduled, and a stream whose deadline has passed returns. `Handshake`: the two
calls are scheduled and `OnConnect` returns. Nothing is assumed there of the peer, of
callers or of contexts. `TsduTransfer`: the goroutines of both ends are scheduled,
octets that are in the stream are read, and the reader calls `ReadTSDU` again and
again, which is what a caller has to do to be given TSDUs; that its contexts do not
end for ever is the premise of `AcceptedArrives`, not an assumption. The writer
may stop at any time.

What the composed runs say about this code:

* `ImplementsService`: a caller that was told `ctx.Err()` and nothing else may send
  its TSDU again; it arrives once. This rests on the octet meter: with a
  mutant that ignores it, the second attempt is spliced to the first.
* `CleanEndMeansAllDelivered`, `IncompleteMeansAbandoned`: the two ways in which
  `ReadTSDU` reports the end of a stream are exact, except for a reset (below).
* `AcceptedArrives`: `Close` after `WriteTSDU`, or a later `WriteTSDU` that aborts half
  way, loses nothing: an accepted TSDU is read unless the stream is reset or the
  reader itself gives up, because its own limit refuses a TSDU or its context ends inside
  one. Its safety half holds for all constants: a reader told of the end of the stream has
  been given everything that was accepted (`CleanEndIsComplete`, `IncompleteIsTrue`).
* `OpenDTIsMinimal`: on an open connection exactly the octets that
  `WriteTSDU` produces are data, whatever else `DecodeDT` would accept.
* `EchoKeepsSelection`: the ceiling an `OnConnect` policy copies from the
  indication never lowers the selection.

### Where the code and its documents disagree

The run `handshake_reset` ends in the counterexample: a reset during the handshake
is not a `*DisconnectError` (ERRORS.md:93).

Also met while modelling, on the engine:

* a context that ends before any octet moved may still abort the connection, when
  the stream fails at the same moment: `classifyIOPhase` looks at `ctx.Err()` first
  (tsdu.go:231; API.md:34 says the connection stays open);
* a reset inside the first packet of a TSDU is not reported as
  `ErrIncompleteTSDU`, because `midTSDU` counts complete segments (tsdu.go:141;
  API.md:35);
* a CR of another class with source reference zero is answered with a DR to
  reference zero, since the class is looked at before the references
  (accept.go:84; docs/TP0_API_DESIGN.md:396 says close).

On the negotiation of sizes, where the model and the reference definition of
`SelectsLargest` follow the code and RELEASE.md:204 ("Expanded the accepted standard
Class 0 TPDU size codes to include 0x0C–0x10 (4096–65536 bytes)"):

* size codes 0x0C to 0x10 are accepted and sent (size_nego.go:15,
  `SizeNegotiation!StandardCodes`); docs/TP0_API_DESIGN.md:492-493 says of 8192 and 4096
  "not allowed", docs/COMPLIANCE.md:82 "Class 0 codes 0x07–0x0B; 0x0C/0x0D rejected";
* a CR without sizes is answered by a server with ceiling 16384 with 16384
  (size_nego.go:262, a case of the run `sizes`); docs/TP0_API_DESIGN.md:607 says
  "server 16384 → `0xC0=2048`".

And on the codec:

* a DT of the extended format (LI 7) is not refused with `ErrUnsupportedDTVariant`
  (decode_dt.go:17, README.md:80, LIMITATIONS.md:11, docs/COMPLIANCE.md:102):
  `DecodeDT` takes it for the normal format with a variable part, and refuses it
  only if that does not parse. `OpenDTIsMinimal` shows that no open connection is
  affected;
* a `DT` without `DestinationRef` but with `Parameters` marshals to an LI of 4
  or more, which decodes as another, normal DT (encode_dt.go:11;
  encode_bounds_test.go:171 says that it fails or decodes to the same
  parameters). It is the exception named in `MarshalDecodes`.

Visible in the definitions: `isTimeout` is true of
the kernel's ETIMEDOUT, which is therefore reported as `DeadlineExceeded` when
the context has a deadline (`Conn!classifyIOPhase`; deadline.go:126 says it is a
deadline expiry); the
`MaxTPDULength` of an indication may be 65536, which a decision must not repeat;
a call that starts while `finish` runs may get a bare `ErrClosed` instead of the
cause (`ReturnsRecordedCause` allows it to calls that did not begin afterwards).

## 4. Proofs

Every theorem is about the module's `Spec`, for every value of the constants that
satisfies the module's `ASSUME`s, and follows from an inductive invariant.

* **ConnProofs** (any number of readers, writers and closers, any segment size,
  TSDU limit and TSDU lengths). `IInv` has seven parts, each preserved given
  itself and some of the parts before it:
  `Types` (`TypeOK`, a writer at `io` has a TSDU within the limit, and closers
  stay out of the directions), `Locks` (who is inside a direction holds its
  lock), `Ending` (the order of `finish`, one goroutine in it, what has happened
  when `once` is done), `Boundary` (whose TSDU is in the stream), `Verdicts` (no
  bare context error becomes the cause), `Reports` (a late call is never past
  `requireOpen` without having returned the cause) and `Evidence` (an error in
  hand tells what the stream or the deadline really did). The argument of
  `NoInterleaving`: if half a TSDU is in the stream and there is no cause, its
  owner still holds the lock, so whoever passes `requireOpen` under the lock
  finds a boundary; `Octets` counts for all operations at `io` or `fail` in the
  direction, and by `Locks` there is only one. `DisconnectIsThePeers` needs that
  `net.ErrClosed` is seen only after the cause is recorded (`RefOutlivesStream`)
  and that `{"timeout"}` alone means the operation's own deadline.
  From `IInv`: `TypeCorrect`, `NoInterleaving`,
  `HalfTransfersEndTheConnection`, `ContextErrorsAreClean`, `CauseIsReported`,
  `DisconnectIsThePeers`, `ReferenceOutlivesStream`, and the
  action properties `FinishIsComplete` (`Close` and every operation that aborts, winner
  of `termOnce` or not) and `FirstCauseHolds`. Assumed: the three sets of goroutines are
  disjoint, sizes are naturals and the TSDU limit is positive, and the network
  fails only in the ways the module names.
* **DirectionDeadlineProofs** (any operations on the three deadline objects).
  `TimeoutIsOwn` is not inductive: nothing in it keeps a late callback from the
  stream. The invariant adds that an object has one operation between `arm` and
  `disarm` (`HolderIsInside`, the caller's lock), that the handshake comes first,
  that generations are never shared, that the active one is the armed
  operation's, and that a deadline in force was set by or for it. From it
  `TypeCorrect`, `OnlyOwnContextCuts` and `BaseIsRestored`.
* **ReferenceAllocatorProofs** (any number of references and attempts).
  `LiveRefsUnique` needs that `active` is exactly the references of live holders
  (`ActiveIsLive`) and that a connection has something to release exactly while
  it is live (`HeldIsLive`). From these `TypeCorrect`, `RefsUnique`, `NoLeakNoDoubleFree`
  and `NoFalseExhaustion`.

* **TsduTransferProofs** (any number of writers and closers at one end and of
  readers at the other, any segment size, limits and TSDU lengths, any number of
  TSDUs). `ServiceIsImplemented` is the refinement: `Init` maps to
  `TsduService!Init`; the last segment of a TSDU into the stream is `Accept`, the
  last one out of it is `Deliver`, the first cause recorded at either end is `Down`,
  every other step a stutter. `TransferInv` has two halves. `AEnd` and `BEnd` say of
  each `Conn` who holds the lock of the direction, whose TSDU is half way across,
  that its owner is still at work or the connection is over, and where offsets
  and segment counts are zero again. They are the parts of `IInv` the transfer
  needs; `tlapm` cannot cite theorems of an `INSTANCE`, so they are proved again
  in the variables of an end. The other half is about positions: a TSDU, an offset
  in it, and the call whose octets lie before it. The writers are at the `Tip`; each
  segment in the stream continues where the one before it ends (`Chain`), the last
  ends at the tip (`EndsAtTip`), and the first begins where the reader is
  (`Front`). A reader at work stands after the segments it holds, at any other time
  it is at the start of the next TSDU, and this is why no segment is spliced,
  repeated or lost, also when a caller gives up and another one takes over.
  `CleanEndIsComplete` and `IncompleteIsTrue` add `EofInv` (B finds the end of the
  stream only where A's octets end, so reader and tip meet there, between two TSDUs or inside
  the one that A abandoned) and `CauseInv` (an
  error of the stream, classified or recorded, still tells the truth: after the end
  nothing in the stream changes). Assumed (`EndsAssumption`): what `Conn` assumes of
  its constants, at both ends.
* **SizeNegotiationProofs**, **SizeExchangeProofs** (any set of valid ceilings,
  both profiles, whatever codes and units a foreign end sends). The facts about the
  operators: the table of standard sizes is monotone, `fallbackCode` finds the largest
  that fits, rounding down commutes with taking the least of two limits, and so
  `selectSize` selects the rounded limit and `interpretCCSize` computes
  from its answer the same. `ExchangeInv` says from what each value on the wire and
  each end's outcome was computed; from it `EndsAgreeOnSize`, `CeilingsKept`,
  `SelectionIsOptimal` (against `StandardSizes`, written out) and `EchoIsSafe`.
* **HandshakeProofs** (any configurations, references, decisions, deadlines
  and resets). `NothingIsLeaked` holds against any other implementation, from
  `TypeInv` and `HeldInv`: where in `Connect` and `Accept` the reference is held and
  the stream closed. `EndsAgree` and `RefusalsAreTrue` are about two ends of this code,
  which is their hypothesis `Foreigns = {"none"}` (another implementation may
  open with what it likes). What the client opens with it read from a TPDU that the
  server wrote from one that it had read from the client; `PairInv` follows the
  values along that path. Assumed (`ConfigsAssumption`): lengths in
  configurations and decisions are integers, valid or not, and a client's profile is
  one of the two.

* **CodecProofs** (every TPDU that the exported types allow, octets of any length).
  `scan` is a recursive function and the encoders are folds, so what they compute has
  to be shown by induction. The library states induction with an operator parameter,
  which the provers cannot instantiate; `Induction` states it with a set instead, from
  the minimal element of the set of counterexamples (`WFMin`). With it, each
  recursive definition is shown to have a solution (`FoldSolution`, `ScanTurns`), after
  which `CHOOSE` may be replaced by the equation: `scan` is a sequence of turns, a
  fold a sequence of steps. `ExchangeInvariant`: `MarshalBinary` makes octets or reports
  an error, and what was got is what `Decode` makes of them. `DetectionIsSound`: no
  code octet belongs to two types (`CodesApart`), every decoder's tests include those of
  `LooksLike` (`Judged`), and the parsers fail only for their own two reasons.
  `OpenDTsAreMinimal`: the checks leave LI 2, code 0xF0 and TPDU-NR 0, whose decoding
  and marshalling are then computed. `WireParametersAreJudged`: by induction over the
  parameters, the codes that `applyParameter` leaves in `Parameters` are those on the
  wire without the known ones. `PlainHeadersAreKept`: by induction from the end of the
  variable part, `encodeVariablePart` makes of what `scan` found the octets it was
  found in (`EncodeScan`); the numbers of the fixed part are written as they were read
  (`FixedKept`), and the parts lie next to each other (`AssembleKept`). So
  `MarshalBinary` of a decoded TPDU without CR or CC's variable part succeeds and
  returns its octets (`MarshalKept`, `DTKept`). `LastValuesWin`: by induction over the
  list, what `applyParameter` has put into a field is the last value so far.

  The two round trips need `HistoryInvariant`, which says what each value in an exchange
  was made from, and the same kind of argument in both directions.
  *There and back* (`MarshalledDecodes`): `scan` gives back the parameters that
  `encodeVariablePart` wrote (`ScanEncode`, by induction over the list, since a turn of
  the loop depends only on the octets from its position on: `ScanShift`). A CR or CC is
  encoded as four slots in canonical order and the unknown parameters; applied in that
  order each slot fills its field and no other (`KnownApplied`, `UnknownApplied`). A
  preferred maximum is read back from its shortest encoding (`PreferredBack`). `assemble`
  puts the parts where the decoder looks for them (`AssembleLays`, `LaidHeader`), the
  fixed part is read as it was written (`FixedRead`), and `DecodeMarshal` collects the
  types. `Canonical` says what has no room on the wire.
  *Relay* (`RelayedKept`): what a decoder returns is a TPDU that a user could have built
  and of which nothing is lost on the wire (`ProperTPDU`), so that `DecodeMarshal` applies
  if it can be marshalled at all. For the plain types this is `MarshalKept`. For a CR or CC
  the invariant of the induction (`AllWithin`) compares costs: the fields filled so far and
  the unknown parameters take, encoded again, no more octets than the list read so far,
  because a repeated parameter only replaces a field and the shortest encoding of a
  preferred maximum is no longer than the one received (`PreferredShort`). Hence neither
  LI nor the 128 octets of a CR are exceeded.
  Assumed: `Tpdus` are TPDUs of the exported types (`TpdusAssumption`; a field that a
  type has not got has no value), `Arrivals` are octets (`ArrivalsAssumption`).

Only model-checked:

* liveness (`TerminalUnblocks`, `CtxUnblocks`, `CancelInterrupts`, `HandshakeEnds`,
  `CtxEndsHandshake`, `AcceptedArrives`), which needs fairness and ENABLED and is out
  of the prover's reach;
* that the definitions the proofs unfold say what they should on concrete octets: `codec`
  evaluates `Decode` and `Marshal` on some 17600 inputs at the limits.

No module uses a RECURSIVE operator, and the unknown parameters are a fold (`Unknown`),
not a `SelectSeq`, of which the prover knows nothing.

## 5. Not modelled

* `string.go`, `doc.go`: text for people. `IsAckType` and
  `PreferredMaxTPDULength`/`PreferredMaxTPDUUnits`: one-line helpers that nothing
  in the package calls.
* The octets of a TPDU in `Handshake` and `Conn`: there a TPDU is what the codec
  makes of it (kind, malformed, too long), and `Codec` shows what that is.
* Aliasing: decoded slices may share memory with their input. `ReadTSDU` and
  the handshakes copy what they keep, so values suffice.
* Both directions of a pair at once: the directions of a `Conn` share only its end,
  which `conn_duplex` covers.
* go-tpkt, `net.Conn`, `context`: not in this repository; modelled from their
  use and marked external.
* `WriteTSDU`'s abort on a marshal error (tsdu.go:71): a DT built from a
  non-empty chunk within the negotiated length always encodes.
* `validateCRParameters` has no caller but unit tests: `Accept` makes its test inside
  `class0CRProtocolError` (accept.go:235), on the same list; `WireParametersJudged` is
  about that test and about `validateCCParameters`, which `Connect` calls.
* A `Conn` without a meter (`metered == nil`): only unit tests build one.
* Contents of TSDUs, selectors and connect data, and nil receivers and contexts.

## 6. Plan

1. *(done)* Conn, DirectionDeadline, ReferenceAllocator, SizeNegotiation,
   SizeExchange, Handshake, their runs; the proofs of section 4.
2. *(done)* TsduService and TsduTransfer, two connections shown to implement it;
   Codec and CodecExchange.
3. *(done)* The proofs about sizes and handshake and of the refinement of step 2.
4. *(done)* Induction for recursive functions and folds, and with it the properties of
   the codec, the two round trips included.

What is left would be new ground rather than more of the same: both directions of a
pair at once, and the octets of a TPDU in `Handshake` (section 5).
