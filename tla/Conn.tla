-------------------------------- MODULE Conn --------------------------------
(***************************************************************************)
(* One open Class 0 connection (type Conn of conn.go): any number of       *)
(* goroutines call ReadTSDU, WriteTSDU and Close on it while their         *)
(* contexts end and the stream fails.  A goroutine's step is a stretch of  *)
(* code between two reads or writes of state that another goroutine can    *)
(* see; its place between steps is pc.                                     *)
(*                                                                         *)
(* An error is the set of the sentinels errors.Is finds in it, {} is nil   *)
(* and errors.Join or a second %w is set union.                            *)
(***************************************************************************)
EXTENDS Integers

CONSTANTS
  Readers, Writers, Closers,  \* goroutines, by the method they call
  MaxTPDU,                    \* negotiated.MaxTPDULength
  MaxTSDU,                    \* maxTSDU, its default already applied
  TsduLens,                   \* lengths of the TSDUs the writers are given
  Deadlines,                  \* whether contexts have a deadline: "pending", "none"
  NetFailures,                \* what may become of the stream
  NoProc                      \* no goroutine

ASSUME ProcsAssumption ==
  /\ Readers \cap Writers = {}
  /\ Closers \cap (Readers \cup Writers) = {}
  /\ NoProc \notin Readers \cup Writers \cup Closers

ASSUME SizesAssumption ==
  /\ MaxTPDU \in Nat
  /\ MaxTSDU \in Nat \ {0}
  /\ TsduLens \subseteq Nat

ASSUME EnvironmentAssumption ==
  /\ Deadlines \subseteq {"none", "pending"}
  /\ NetFailures \subseteq {"eof", "reset", "etimedout", "fault"}

Movers == Readers \cup Writers
Procs == Movers \cup Closers

VARIABLES
  \* the Conn
  state,      \* state: "open", "closing", "closed" or "aborted"
  termKind,   \* termKind: "none", "closed" or "aborted"
  termErr,    \* termErr
  once,       \* termOnce: "free", "done", or "busy" while its function runs
  mu,         \* mu["read"] is the holder of readMu, mu["write"] of writeMu
  refHeld,    \* the allocator still counts localRef as active
  \* the stream under it
  rawOpen,    \* raw.Close has not been called
  net,        \* the condition of the stream at this end
  \* the goroutines
  pc,
  ctx,        \* ctx.Err(): "nil", "Canceled" or "DeadlineExceeded"
  dl,         \* ctx.Deadline(): "none", "pending" or "passed"
  len,        \* length of the TSDU a writer was given
  done,       \* a writer's offset, a reader's total
  segs,       \* len(segments) of a reader
  inPkt,      \* part of the current packet has crossed the stream
  moved,      \* the direction's octet count differs from start
  err,        \* the error in hand: of the stream, then classified, then returned
  \* history
  owner,      \* owner[d]: whose TSDU has crossed the stream in part only
  late        \* the call began after a terminal cause was recorded

connVars == <<state, termKind, termErr, once, refHeld>>
streamVars == <<rawOpen, net>>
ctxVars == <<ctx, dl>>
opVars == <<len, done, segs, inPkt, moved>>
vars == <<connVars, mu, streamVars, pc, ctxVars, opVars, err, owner, late>>

-----------------------------------------------------------------------------
(* Errors                                                                  *)

Sentinels == {"ErrClosed", "ErrDisconnected", "ErrHandshake", "ErrUnexpectedTPDU",
              "ErrIncompleteTSDU", "ErrTSDUTooLarge", "ErrEmptyTSDU", "ErrInvalidConfig",
              "Canceled", "DeadlineExceeded", "EOF", "ErrUnexpectedEOF", "ECONNRESET",
              "net.ErrClosed", "timeout", "ETIMEDOUT", "EIO", "tpkt"}

nil == {}

CtxErrors == {{"Canceled"}, {"DeadlineExceeded"}}
LocalErrors == {{"ErrEmptyTSDU"}, {"ErrTSDUTooLarge"}, {"ErrInvalidConfig"}}

\* The kernel's ETIMEDOUT is a net.Error whose Timeout() is true as well.
isTimeout(e) == "timeout" \in e

peerGone(e) == e \cap {"ErrUnexpectedEOF", "ECONNRESET", "net.ErrClosed"} # {}

isFramingError(e) == "tpkt" \in e

DisconnectError(e) == {"ErrDisconnected"} \cup e

-----------------------------------------------------------------------------
(* Directions and segments                                                 *)

Dirs == {"read", "write"}
Dir(p) == IF p \in Readers THEN "read" ELSE "write"

minimalDTOverhead == 3
minNegotiatedTPDULength == 4

maxSegmentPayload ==
  IF MaxTPDU < minNegotiatedTPDULength THEN 0 ELSE MaxTPDU - minimalDTOverhead

\* What a peer's packet can be: a minimal DT of 0 octets up to one too many,
\* or a TPDU of another kind, or one that does not decode to a legal DT.
Packets ==
  [type : {"DT"}, len : 0 .. maxSegmentPayload + 1, eot : BOOLEAN]
    \cup [type : {"DR", "other", "malformed"}, len : {0}, eot : {FALSE}]

unexpectedOpenTPDU(type) ==
  {"ErrUnexpectedTPDU"} \cup (IF type = "DR" THEN DisconnectError(nil) ELSE nil)

decodeOpenDT(pkt) ==
  IF pkt.len + minimalDTOverhead > MaxTPDU THEN {"ErrHandshake"}
  ELSE IF pkt.type = "malformed" THEN {"ErrHandshake"}
  ELSE IF pkt.type \in {"DR", "other"} THEN unexpectedOpenTPDU(pkt.type)
  ELSE nil

\* Mutant: the reassembly limit is not checked.
segmentErrorUnlimited(p, pkt) ==
  IF decodeOpenDT(pkt) # nil THEN decodeOpenDT(pkt)
  ELSE IF pkt.len = 0 THEN {"ErrHandshake"}
  ELSE nil

\* The checks ReadTSDU makes on a packet, in its order.
segmentError(p, pkt) ==
  IF decodeOpenDT(pkt) # nil THEN decodeOpenDT(pkt)
  ELSE IF pkt.len = 0 THEN {"ErrHandshake"}
  ELSE IF done[p] + pkt.len > MaxTSDU \/ segs[p] + 1 > MaxTSDU THEN {"ErrTSDUTooLarge"}
  ELSE nil

\* Mutant: ReadTSDU classifies with classifyIO, as WriteTSDU does.
midForgotten(p) == FALSE

mid(p) == segs[p] > 0

\* The cause abortOpen hands to abort.
abortOpen(p, e) == IF mid(p) THEN {"ErrIncompleteTSDU"} \cup e ELSE e

\* The cause classifyIOPhase hands to abort when no terminal cause is recorded.
classifyIOPhase(p, e) ==
  IF ctx[p] # "nil" THEN {"ErrClosed", ctx[p]}
  ELSE IF dl[p] # "none" /\ isTimeout(e) THEN {"ErrClosed", "DeadlineExceeded"}
  ELSE IF "EOF" \in e THEN abortOpen(p, DisconnectError(e))
  ELSE IF peerGone(e) THEN
    (IF "ErrUnexpectedEOF" \in e THEN {"ErrIncompleteTSDU"} ELSE {}) \cup abortOpen(p, DisconnectError(e))
  ELSE IF isFramingError(e) THEN abortOpen(p, {"ErrHandshake"} \cup e)
  ELSE IF mid(p) THEN {"ErrIncompleteTSDU"} \cup DisconnectError(e) ELSE e

\* ctxDoneErr: the context's error, or DeadlineExceeded once its deadline has
\* passed although its timer has not fired.
ctxDoneErr(p) ==
  IF ctx[p] # "nil" THEN {ctx[p]}
  ELSE IF dl[p] = "passed" THEN {"DeadlineExceeded"}
  ELSE nil

-----------------------------------------------------------------------------
Init ==
  /\ state = "open" /\ termKind = "none" /\ termErr = nil /\ once = "free"
  /\ mu = [d \in Dirs |-> NoProc]
  /\ refHeld = TRUE
  /\ rawOpen = TRUE /\ net = "up"
  /\ pc = [p \in Procs |-> "idle"]
  /\ ctx = [p \in Procs |-> "nil"]
  /\ dl = [p \in Procs |-> "none"]
  /\ len = [p \in Procs |-> 0]
  /\ done = [p \in Procs |-> 0]
  /\ segs = [p \in Procs |-> 0]
  /\ inPkt = [p \in Procs |-> FALSE]
  /\ moved = [p \in Procs |-> FALSE]
  /\ err = [p \in Procs |-> nil]
  /\ owner = [d \in Dirs |-> NoProc]
  /\ late = [p \in Procs |-> FALSE]

Goto(p, from, to) == pc[p] = from /\ pc' = [pc EXCEPT ![p] = to]

\* The method returns e: what is left to do is its deferred calls.
Exit(p, from, e) == Goto(p, from, "return") /\ err' = [err EXCEPT ![p] = e]

-----------------------------------------------------------------------------
(* Callers                                                                 *)

CallMove(p) ==
  /\ p \in Movers
  /\ Goto(p, "idle", "lock")
  /\ \E n \in (IF p \in Writers THEN TsduLens ELSE {0}) : len' = [len EXCEPT ![p] = n]
  /\ \E deadline \in Deadlines : dl' = [dl EXCEPT ![p] = deadline]
  /\ late' = [late EXCEPT ![p] = termKind # "none"]
  /\ UNCHANGED <<connVars, mu, streamVars, ctx, done, segs, inPkt, moved, err, owner>>

\* Mutant: Close closes the stream before finish records the cause.
CallCloseStreamFirst(p) ==
  /\ p \in Closers
  /\ Goto(p, "idle", "finish")
  /\ err' = [err EXCEPT ![p] = {"ErrClosed"}]
  /\ late' = [late EXCEPT ![p] = termKind # "none"]
  /\ rawOpen' = FALSE
  /\ UNCHANGED <<connVars, mu, net, ctxVars, opVars, owner>>

CallClose(p) ==
  /\ p \in Closers
  /\ Goto(p, "idle", "finish")
  /\ err' = [err EXCEPT ![p] = {"ErrClosed"}]
  /\ late' = [late EXCEPT ![p] = termKind # "none"]
  /\ UNCHANGED <<connVars, mu, streamVars, ctxVars, opVars, owner>>

\* Mutant: the segments of an earlier TSDU are still there in the next call.
ReturnStaleSegments(p) ==
  /\ Goto(p, "return", "idle")
  /\ mu' = [d \in Dirs |-> IF mu[d] = p THEN NoProc ELSE mu[d]]
  /\ ctx' = [ctx EXCEPT ![p] = "nil"]
  /\ dl' = [dl EXCEPT ![p] = "none"]
  /\ len' = [len EXCEPT ![p] = 0]
  /\ done' = [done EXCEPT ![p] = 0]
  /\ inPkt' = [inPkt EXCEPT ![p] = FALSE]
  /\ moved' = [moved EXCEPT ![p] = FALSE]
  /\ err' = [err EXCEPT ![p] = nil]
  /\ late' = [late EXCEPT ![p] = FALSE]
  /\ UNCHANGED <<connVars, streamVars, segs, owner>>

\* Mutant: no deferred unlock.
ReturnLocked(p) ==
  /\ Goto(p, "return", "idle")
  /\ ctx' = [ctx EXCEPT ![p] = "nil"]
  /\ dl' = [dl EXCEPT ![p] = "none"]
  /\ len' = [len EXCEPT ![p] = 0]
  /\ done' = [done EXCEPT ![p] = 0]
  /\ segs' = [segs EXCEPT ![p] = 0]
  /\ inPkt' = [inPkt EXCEPT ![p] = FALSE]
  /\ moved' = [moved EXCEPT ![p] = FALSE]
  /\ err' = [err EXCEPT ![p] = nil]
  /\ late' = [late EXCEPT ![p] = FALSE]
  /\ UNCHANGED <<connVars, mu, streamVars, owner>>

\* The deferred disarm and unlock of the direction, if it was locked.
Return(p) ==
  /\ Goto(p, "return", "idle")
  /\ mu' = [d \in Dirs |-> IF mu[d] = p THEN NoProc ELSE mu[d]]
  /\ ctx' = [ctx EXCEPT ![p] = "nil"]
  /\ dl' = [dl EXCEPT ![p] = "none"]
  /\ len' = [len EXCEPT ![p] = 0]
  /\ done' = [done EXCEPT ![p] = 0]
  /\ segs' = [segs EXCEPT ![p] = 0]
  /\ inPkt' = [inPkt EXCEPT ![p] = FALSE]
  /\ moved' = [moved EXCEPT ![p] = FALSE]
  /\ err' = [err EXCEPT ![p] = nil]
  /\ late' = [late EXCEPT ![p] = FALSE]
  /\ UNCHANGED <<connVars, streamVars, owner>>

-----------------------------------------------------------------------------
(* opLock.lock                                                             *)

TryLock(p) ==
  LET free == mu[Dir(p)] = NoProc IN
  /\ Goto(p, "lock", IF free THEN "requireOpen" ELSE "wait")
  /\ mu' = IF free THEN [mu EXCEPT ![Dir(p)] = p] ELSE mu
  /\ UNCHANGED <<connVars, streamVars, ctxVars, opVars, err, owner, late>>

\* Mutant: a caller that waited goes on while another holds the direction.
AwaitLockUnguarded(p) ==
  /\ Goto(p, "wait", "requireOpen")
  /\ mu' = [mu EXCEPT ![Dir(p)] = p]
  /\ UNCHANGED <<connVars, streamVars, ctxVars, opVars, err, owner, late>>

AwaitLock(p) ==
  /\ mu[Dir(p)] = NoProc
  /\ Goto(p, "wait", "requireOpen")
  /\ mu' = [mu EXCEPT ![Dir(p)] = p]
  /\ UNCHANGED <<connVars, streamVars, ctxVars, opVars, err, owner, late>>

GiveUpLock(p) ==
  /\ ctx[p] # "nil"
  /\ Exit(p, "wait", {ctx[p]})
  /\ UNCHANGED <<connVars, mu, streamVars, ctxVars, opVars, owner, late>>

-----------------------------------------------------------------------------
(* requireOpen reads termKind and then, in a step of its own, state.       *)

RequireOpen(p) ==
  /\ IF termKind # "none"
       THEN Exit(p, "requireOpen", termErr)
       ELSE Goto(p, "requireOpen", "loadState") /\ UNCHANGED err
  /\ UNCHANGED <<connVars, mu, streamVars, ctxVars, opVars, owner, late>>

LoadState(p) ==
  /\ IF state # "open"
       THEN Exit(p, "loadState", {"ErrClosed"})
       ELSE Goto(p, "loadState", "check") /\ UNCHANGED err
  /\ UNCHANGED <<connVars, mu, streamVars, ctxVars, opVars, owner, late>>

\* The context and the arguments, in the order the methods look at them.
localError(p) ==
  IF ctx[p] # "nil" THEN {ctx[p]}
  ELSE IF p \in Writers /\ len[p] = 0 THEN {"ErrEmptyTSDU"}
  ELSE IF p \in Writers /\ len[p] > MaxTSDU THEN {"ErrTSDUTooLarge"}
  ELSE IF MaxTPDU < minNegotiatedTPDULength THEN {"ErrInvalidConfig"}
  ELSE nil

\* Up to and with arm, and the start of the octet count.
Check(p) ==
  /\ IF localError(p) # nil
       THEN Exit(p, "check", localError(p))
       ELSE Goto(p, "check", "io") /\ UNCHANGED err
  /\ UNCHANGED <<connVars, mu, streamVars, ctxVars, opVars, owner, late>>

-----------------------------------------------------------------------------
(* The stream, the TPKT reader and writer, and the octet counts            *)

\* Mutant: only the deadline interrupts, no AfterFunc watches the context.
DeadlineHitUnwatched(p) == dl[p] = "passed"

\* The deadline arm installed in p's direction has passed, or is the past
\* because p's context is done.  Module DirectionDeadline is about why no
\* other context can cause it.
DeadlineHit(p) == dl[p] = "passed" \/ ctx[p] # "nil"

Flowing(p) == rawOpen /\ (net = "up" \/ (net = "eof" /\ p \in Writers))

StreamErrors(p) ==
  IF ~rawOpen THEN {{"net.ErrClosed"}}
  ELSE {e \in {{"timeout"}} : DeadlineHit(p)}
    \cup {e \in {{"EOF"}} : net = "eof" /\ p \in Readers /\ ~inPkt[p]}
    \cup {e \in {{"ErrUnexpectedEOF"}} : net = "eof" /\ p \in Readers /\ inPkt[p]}
    \cup {e \in {{"ECONNRESET"}} : net = "reset"}
    \cup {e \in {{"timeout", "ETIMEDOUT"}} : net = "etimedout"}
    \cup {e \in {{"EIO"}} : net = "fault"}
    \cup {e \in {{"tpkt"}} : net = "up" /\ p \in Readers /\ inPkt[p]}

\* Octets of the current packet cross the stream; the count is the direction's.
Octets(p) ==
  /\ pc[p] = "io" /\ Flowing(p) /\ ~inPkt[p]
  /\ inPkt' = [inPkt EXCEPT ![p] = TRUE]
  /\ moved' = [q \in Procs |-> moved[q] \/ (q \in Movers /\ Dir(q) = Dir(p) /\ pc[q] \in {"io", "fail"})]
  /\ owner' = [owner EXCEPT ![Dir(p)] = p]
  /\ UNCHANGED <<connVars, mu, streamVars, pc, ctxVars, len, done, segs, err, late>>

ReadPacket(p, pkt) ==
  /\ p \in Readers
  /\ pc[p] = "io" /\ Flowing(p) /\ inPkt[p]
  /\ inPkt' = [inPkt EXCEPT ![p] = FALSE]
  /\ IF segmentError(p, pkt) # nil
       THEN /\ Goto(p, "io", "finish")
            /\ err' = [err EXCEPT ![p] = abortOpen(p, segmentError(p, pkt))]
            /\ UNCHANGED <<done, segs, owner>>
       ELSE /\ done' = [done EXCEPT ![p] = @ + pkt.len]
            /\ segs' = [segs EXCEPT ![p] = @ + 1]
            /\ IF pkt.eot
                 THEN /\ Exit(p, "io", nil)
                      /\ owner' = [owner EXCEPT !["read"] = NoProc]
                 ELSE UNCHANGED <<pc, err, owner>>
  /\ UNCHANGED <<connVars, mu, streamVars, ctxVars, len, moved, late>>

WritePacket(p) ==
  LET end == IF done[p] + maxSegmentPayload < len[p] THEN done[p] + maxSegmentPayload ELSE len[p] IN
  /\ p \in Writers
  /\ pc[p] = "io" /\ Flowing(p) /\ inPkt[p]
  /\ inPkt' = [inPkt EXCEPT ![p] = FALSE]
  /\ done' = [done EXCEPT ![p] = end]
  /\ IF end = len[p]
       THEN Exit(p, "io", nil) /\ owner' = [owner EXCEPT !["write"] = NoProc]
       ELSE UNCHANGED <<pc, err, owner>>
  /\ UNCHANGED <<connVars, mu, streamVars, ctxVars, len, segs, moved, late>>

PacketFails(p) ==
  /\ Goto(p, "io", "fail")
  /\ \E e \in StreamErrors(p) : err' = [err EXCEPT ![p] = e]
  /\ UNCHANGED <<connVars, mu, streamVars, ctxVars, opVars, owner, late>>

-----------------------------------------------------------------------------
(* The error path of ReadTSDU and WriteTSDU                                *)

\* Mutant: idleTimeout is asked although octets have moved.
FailIgnoringOctets(p) ==
  /\ Goto(p, "fail", IF termKind = "none" /\ isTimeout(err[p]) THEN "idleTimeout" ELSE "classify")
  /\ UNCHANGED <<connVars, mu, streamVars, ctxVars, opVars, err, owner, late>>

\* No octet of the TSDU moved and no terminal cause: idleTimeout asks ctx.
Fail(p) ==
  /\ Goto(p, "fail", IF ~moved[p] /\ termKind = "none" /\ isTimeout(err[p])
                       THEN "idleTimeout" ELSE "classify")
  /\ UNCHANGED <<connVars, mu, streamVars, ctxVars, opVars, err, owner, late>>

IdleTimeout(p) ==
  /\ IF ctxDoneErr(p) # nil
       THEN Exit(p, "idleTimeout", ctxDoneErr(p))
       ELSE Goto(p, "idleTimeout", "classify") /\ UNCHANGED err
  /\ UNCHANGED <<connVars, mu, streamVars, ctxVars, opVars, owner, late>>

\* Mutant: a context that ended is reported without abort.
ClassifyWithoutAbort(p) ==
  /\ IF termKind # "none" \/ ctx[p] # "nil"
       THEN Exit(p, "classify", IF termKind # "none" THEN termErr ELSE {"ErrClosed", ctx[p]})
       ELSE /\ Goto(p, "classify", "finish")
            /\ err' = [err EXCEPT ![p] = classifyIOPhase(p, err[p])]
  /\ UNCHANGED <<connVars, mu, streamVars, ctxVars, opVars, owner, late>>

Classify(p) ==
  /\ IF termKind # "none"
       THEN Exit(p, "classify", termErr)
       ELSE /\ Goto(p, "classify", "finish")
            /\ err' = [err EXCEPT ![p] = classifyIOPhase(p, err[p])]
  /\ UNCHANGED <<connVars, mu, streamVars, ctxVars, opVars, owner, late>>

-----------------------------------------------------------------------------
(* finish, entered by Close and by abort                                   *)

Kind(p) == IF p \in Closers THEN "closed" ELSE "aborted"

\* Mutant: no termOnce.
RecordCauseAlways(p) ==
  /\ Goto(p, "finish", "storeState")
  /\ once' = "busy"
  /\ termKind' = Kind(p)
  /\ termErr' = err[p]
  /\ UNCHANGED <<state, refHeld, mu, streamVars, ctxVars, opVars, err, owner, late>>

\* The winner of termOnce records the cause.
RecordCause(p) ==
  /\ once = "free"
  /\ Goto(p, "finish", "storeState")
  /\ once' = "busy"
  /\ termKind' = Kind(p)
  /\ termErr' = err[p]
  /\ UNCHANGED <<state, refHeld, mu, streamVars, ctxVars, opVars, err, owner, late>>

\* Mutant: the loser returns while the winner is still closing.
AwaitOnceNoWait(p) ==
  /\ once # "free"
  /\ Exit(p, "finish", termErr)
  /\ UNCHANGED <<connVars, mu, streamVars, ctxVars, opVars, owner, late>>

\* Mutant: the loser returns its own cause.
AwaitOnceOwnCause(p) ==
  /\ once = "done"
  /\ Exit(p, "finish", err[p])
  /\ UNCHANGED <<connVars, mu, streamVars, ctxVars, opVars, owner, late>>

\* Everyone else waits in termOnce.Do and returns what the winner recorded.
AwaitOnce(p) ==
  /\ once = "done"
  /\ Exit(p, "finish", termErr)
  /\ UNCHANGED <<connVars, mu, streamVars, ctxVars, opVars, owner, late>>

\* Mutant: the reference is released before the stream is closed.
StoreStateReleasing(p) ==
  /\ Goto(p, "storeState", "closeRaw")
  /\ state' = IF Kind(p) = "closed" THEN "closing" ELSE "aborted"
  /\ refHeld' = FALSE
  /\ UNCHANGED <<termKind, termErr, once, mu, streamVars, ctxVars, opVars, err, owner, late>>

StoreState(p) ==
  /\ Goto(p, "storeState", "closeRaw")
  /\ state' = IF Kind(p) = "closed" THEN "closing" ELSE "aborted"
  /\ UNCHANGED <<termKind, termErr, once, refHeld, mu, streamVars, ctxVars, opVars, err, owner, late>>

\* Mutant: finish forgets raw.Close.
CloseRawForgotten(p) ==
  /\ Goto(p, "closeRaw", "release")
  /\ UNCHANGED <<connVars, mu, streamVars, ctxVars, opVars, err, owner, late>>

CloseRaw(p) ==
  /\ Goto(p, "closeRaw", "release")
  /\ rawOpen' = FALSE
  /\ UNCHANGED <<connVars, mu, net, ctxVars, opVars, err, owner, late>>

releaseRef(p) ==
  /\ Goto(p, "release", "storeClosed")
  /\ refHeld' = FALSE
  /\ UNCHANGED <<state, termKind, termErr, once, mu, streamVars, ctxVars, opVars, err, owner, late>>

StoreClosed(p) ==
  /\ Exit(p, "storeClosed", termErr)
  /\ state' = IF Kind(p) = "closed" THEN "closed" ELSE state
  /\ once' = "done"
  /\ UNCHANGED <<termKind, termErr, refHeld, mu, streamVars, ctxVars, opVars, owner, late>>

-----------------------------------------------------------------------------
(* Contexts and the network                                                *)

\* Where a method may still look at its context.
Attentive == {"lock", "wait", "requireOpen", "loadState", "check", "io", "fail",
              "idleTimeout", "classify"}

Cancel(p) ==
  /\ p \in Movers /\ pc[p] \in Attentive /\ ctx[p] = "nil"
  /\ ctx' = [ctx EXCEPT ![p] = "Canceled"]
  /\ UNCHANGED <<connVars, mu, streamVars, pc, dl, opVars, err, owner, late>>

DeadlinePasses(p) ==
  /\ pc[p] \in Attentive /\ dl[p] = "pending"
  /\ dl' = [dl EXCEPT ![p] = "passed"]
  /\ UNCHANGED <<connVars, mu, streamVars, pc, ctx, opVars, err, owner, late>>

CtxTimerFires(p) ==
  /\ pc[p] \in Attentive /\ dl[p] = "passed" /\ ctx[p] = "nil"
  /\ ctx' = [ctx EXCEPT ![p] = "DeadlineExceeded"]
  /\ UNCHANGED <<connVars, mu, streamVars, pc, dl, opVars, err, owner, late>>

NetChanges ==
  /\ net \in {"up", "eof"}
  /\ net' \in NetFailures \ {net}
  /\ UNCHANGED <<connVars, mu, rawOpen, pc, ctxVars, opVars, err, owner, late>>

-----------------------------------------------------------------------------
\* The steps a goroutine takes by itself once it has been called.
Step(p) ==
  \/ TryLock(p) \/ GiveUpLock(p)
  \/ RequireOpen(p) \/ LoadState(p) \/ Check(p)
  \/ PacketFails(p) \/ Fail(p) \/ IdleTimeout(p) \/ Classify(p)
  \/ RecordCause(p) \/ AwaitOnce(p)
  \/ StoreState(p) \/ CloseRaw(p) \/ releaseRef(p) \/ StoreClosed(p)
  \/ Return(p)

\* The steps that need the peer.
Transfer(p) ==
  \/ Octets(p)
  \/ \E pkt \in Packets : ReadPacket(p, pkt)
  \/ WritePacket(p)

Context(p) == Cancel(p) \/ DeadlinePasses(p) \/ CtxTimerFires(p)

Next ==
  \/ \E p \in Procs : CallMove(p) \/ CallClose(p) \/ Step(p) \/ AwaitLock(p) \/ Transfer(p) \/ Context(p)
  \/ NetChanges

Spec == Init /\ [][Next]_vars

\* Goroutines are scheduled; a channel send is served in FIFO order, so a
\* lock that is free again and again is granted.  Nothing is assumed of the
\* peer, of the callers or of contexts.
Fairness == \A p \in Procs : WF_vars(Step(p)) /\ SF_vars(AwaitLock(p))

FairSpec == Spec /\ Fairness
-----------------------------------------------------------------------------
(* Properties                                                              *)

Places == {"idle", "lock", "wait", "requireOpen", "loadState", "check", "io", "fail",
           "idleTimeout", "classify", "finish", "storeState", "closeRaw", "release",
           "storeClosed", "return"}

\* Every variable holds a value of its type.
TypeOK ==
  /\ state \in {"open", "closing", "closed", "aborted"}
  /\ termKind \in {"none", "closed", "aborted"}
  /\ termErr \in SUBSET Sentinels
  /\ once \in {"free", "busy", "done"}
  /\ mu \in [Dirs -> Movers \cup {NoProc}]
  /\ refHeld \in BOOLEAN
  /\ rawOpen \in BOOLEAN
  /\ net \in {"up"} \cup NetFailures
  /\ pc \in [Procs -> Places]
  /\ ctx \in [Procs -> {"nil", "Canceled", "DeadlineExceeded"}]
  /\ dl \in [Procs -> {"none", "pending", "passed"}]
  /\ len \in [Procs -> Nat]
  /\ done \in [Procs -> 0 .. MaxTSDU]
  /\ segs \in [Procs -> 0 .. MaxTSDU]
  /\ inPkt \in [Procs -> BOOLEAN]
  /\ moved \in [Procs -> BOOLEAN]
  /\ err \in [Procs -> SUBSET Sentinels]
  /\ owner \in [Dirs -> Movers \cup {NoProc}]
  /\ late \in [Procs -> BOOLEAN]

\* An operation that is moving octets finds the stream at a TSDU boundary or
\* inside its own TSDU: segments of two TSDUs never interleave, and nobody
\* reads or writes on after another operation stopped half way (writeMu and
\* readMu for the whole TSDU, and abort before unlock in classifyIOPhase).
StreamAtBoundary ==
  \A p \in Movers : pc[p] = "io" =>
    owner[Dir(p)] = IF moved[p] THEN p ELSE NoProc

\* A TSDU that stays half transferred ends the connection: once its operation
\* is over, a terminal cause is recorded (idleTimeout keeps the connection
\* open only at a packet boundary).
HalfTsduIsTerminal ==
  \A d \in Dirs : owner[d] # NoProc /\ mu[d] # owner[d] => termKind # "none"

\* A bare context error is returned only by an operation of which no octet
\* crossed the stream.
CtxErrorMeansNothingMoved ==
  \A p \in Procs : pc[p] = "return" /\ err[p] \in CtxErrors => ~moved[p]

\* What an operation returns: success, its context's error, the rejection of
\* its arguments, or the cause the connection recorded.  Only a call that
\* raced the first finish inside requireOpen may see a bare ErrClosed
\* instead of the cause; a call begun afterwards never does.
ReturnsRecordedCause ==
  \A p \in Procs : pc[p] = "return" =>
    err[p] \in {termErr} \cup CtxErrors
                 \cup (IF late[p] THEN {} ELSE {nil, {"ErrClosed"}} \cup LocalErrors)

\* ErrDisconnected blames the peer, so the stream did fail or the peer sent a
\* DR; in particular an operation that the local Close cut short is not
\* reported as disconnected (finish records the cause before raw.Close).
DisconnectedMeansPeer ==
  "ErrDisconnected" \in termErr => net # "up" \/ "ErrUnexpectedTPDU" \in termErr

\* Whoever comes out of finish, Close or a ReadTSDU or WriteTSDU that aborted,
\* comes out when the end is complete, also if it lost termOnce: the stream is
\* closed, the reference free, and the state the one of the recorded cause.
FinishedOnReturn ==
  [][\A p \in Procs :
       /\ pc[p] \in {"finish", "storeState", "closeRaw", "release", "storeClosed"}
       /\ pc'[p] = "return"
       => ~rawOpen' /\ ~refHeld' /\ state' = termKind']_vars

\* The local reference outlives the stream that carries it (finish calls
\* raw.Close before releaseRef), and neither goes without a recorded cause.
RefOutlivesStream ==
  /\ ~refHeld => ~rawOpen
  /\ ~rawOpen => termKind # "none"

\* The first cause recorded is never replaced, the stream never reopens and
\* the connection never becomes open again.
FirstCauseWins ==
  [][/\ termKind # "none" => UNCHANGED <<termKind, termErr>>
     /\ ~rawOpen => ~rawOpen'
     /\ state # "open" => state' # "open"]_vars

\* Once a cause is recorded every call in flight returns, with no help from
\* the peer or from contexts: Close and abort unblock both directions and
\* every caller queued on an opLock.
TerminalUnblocks ==
  \A p \in Procs : termKind # "none" /\ pc[p] # "idle" ~> pc[p] = "idle"

\* An operation whose context is done returns, whatever the peer does.
CtxUnblocks ==
  \A p \in Movers : ctx[p] # "nil" ~> pc[p] = "idle"
=============================================================================
