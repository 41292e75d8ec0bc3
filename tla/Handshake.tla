------------------------------ MODULE Handshake ------------------------------
(***************************************************************************)
(* The connection establishment over one stream: Connect (connect.go) at   *)
(* the client end, Accept (accept.go) at the server end.  Each end owns    *)
(* its half of the stream from its first step and either opens a Conn or   *)
(* fails, giving back the reference and closing the stream in its deferred *)
(* calls.  One end may be another implementation, which sends any TPDU.    *)
(*                                                                         *)
(* Errors are sets of sentinels as in module Conn.  Selectors and connect  *)
(* data are abstract; the size parameters are those of SizeNegotiation.    *)
(***************************************************************************)
EXTENDS SizeNegotiation

CONSTANTS
  Foreigns,       \* which end may be another implementation, "none" if neither
  Refs,           \* references the allocators hand out
  ClientConfigs,  \* [max, profile, local, remote, dataFits, crFits]
  ServerConfigs,  \* [max, local, echo, auto, ccFits]
  Decisions,      \* what OnConnect may return: [action, max, dataFits, reason]
  ForeignCRs,     \* what another client may send
  ForeignAnswers, \* what another server may send
  Faults,         \* what may become of the network: subset of {"reset"}
  Deadlines       \* as in module Conn

ASSUME EndsAssumption == Foreigns \subseteq {"none", "client", "server"}
ASSUME RefsAssumption == Refs \subseteq 1 .. 65535

\* The ceilings are ints, valid or not.  A profile that is neither of the two
\* fails preflight, like a ceiling that is not valid.
ASSUME ConfigsAssumption ==
  /\ \A c \in ClientConfigs : c.max \in Int /\ c.profile \in Profiles
  /\ \A s \in ServerConfigs : s.max \in Int
  /\ \A d \in Decisions : d.max \in Int

Ends == {"client", "server"}
Other(e) == IF e = "client" THEN "server" ELSE "client"

Absent == "absent"
Nothing == [type |-> "nothing"]

VARIABLES
  cfg,       \* cfg.client and cfg.server: the configurations
  pc,
  ref,       \* localRef, 0 before Allocate
  refHeld,   \* the allocator counts ref as active on this end's account
  closed,    \* this end has closed its stream
  ctx, dl,   \* the context of the call, as in module Conn
  err,       \* what the call will return or has returned
  inbox,     \* inbox[e]: the TPDU on its way to e
  net,       \* "up" or "reset"
  cr,        \* the CR the server has read
  sel,       \* the server's selection of sizes
  answer,    \* the DR or ER the server is about to send
  neg        \* NegotiatedParameters of each end

vars == <<cfg, pc, ref, refHeld, closed, ctx, dl, err, inbox, net, cr, sel, answer, neg>>

\* What one step of an end leaves alone in most actions.
outside == <<cfg, ctx, dl, net>>

NoNeg == [max |-> 0, localRef |-> 0, remoteRef |-> 0, local |-> Absent, remote |-> Absent]

Init ==
  /\ \E foreign \in Foreigns :
       /\ pc = [e \in Ends |-> IF e = foreign THEN "foreign" ELSE "start"]
       /\ cfg \in [client : IF foreign = "client" THEN {Absent} ELSE ClientConfigs,
                  server : IF foreign = "server" THEN {Absent} ELSE ServerConfigs]
       /\ dl \in {d \in [Ends -> Deadlines \cup {"none"}] :
                   \A e \in Ends : IF e = foreign THEN d[e] = "none" ELSE d[e] \in Deadlines}
  /\ ref = [e \in Ends |-> 0]
  /\ refHeld = [e \in Ends |-> FALSE]
  /\ closed = [e \in Ends |-> FALSE]
  /\ ctx = [e \in Ends |-> "nil"]
  /\ err = [e \in Ends |-> {}]
  /\ inbox = [e \in Ends |-> Nothing]
  /\ net = "up"
  /\ cr = Nothing /\ answer = Nothing
  /\ sel = [effective |-> 0, params |-> SizeParams(None, None)]
  /\ neg = [e \in Ends |-> NoNeg]

Goto(e, from, to) == pc[e] = from /\ pc' = [pc EXCEPT ![e] = to]

\* The call is going to return error s; its deferred calls are still to run.
Fail(e, from, s) == Goto(e, from, "release") /\ err' = [err EXCEPT ![e] = s]

-----------------------------------------------------------------------------
(* Steps both ends have                                                    *)

preflight(e) ==
  /\ ValidMax(cfg[e].max)
  /\ e = "client" => cfg.client.dataFits

\* Preflight, and the context before any I/O.  The server arms its deadline
\* here, which looks at the context once more.
Preflight(e) ==
  /\ pc[e] = "start"
  /\ IF ~preflight(e) THEN Fail(e, "start", {"ErrInvalidConfig"})
     ELSE IF ctx[e] # "nil" THEN Fail(e, "start", {ctx[e]})
     ELSE Goto(e, "start", IF e = "client" THEN "alloc" ELSE "read") /\ UNCHANGED err
  /\ UNCHANGED <<outside, ref, refHeld, closed, inbox, cr, sel, answer, neg>>

\* refs.Allocate; module ReferenceAllocator is about the choice it makes.
Allocates(e) ==
  /\ Goto(e, "alloc", "build")
  /\ \E r \in Refs : ref' = [ref EXCEPT ![e] = r]
  /\ refHeld' = [refHeld EXCEPT ![e] = TRUE]
  /\ UNCHANGED <<outside, closed, err, inbox, cr, sel, answer, neg>>

AllocateFails(e) ==
  /\ Fail(e, "alloc", {"ErrInvalidConfig"})
  /\ UNCHANGED <<outside, ref, refHeld, closed, inbox, cr, sel, answer, neg>>

\* connectIOError
connectIOError(e, s) ==
  IF ctx[e] # "nil" THEN {"ErrClosed", ctx[e]}
  ELSE IF dl[e] # "none" /\ "timeout" \in s THEN {"ErrClosed", "DeadlineExceeded"}
  ELSE IF "EOF" \in s THEN {"ErrDisconnected", "EOF"}
  ELSE IF "tpkt" \in s THEN {"ErrHandshake"} \cup s
  ELSE s

\* Mutant: only the deadline interrupts.
DeadlineHitUnwatched(e) == dl[e] = "passed"

DeadlineHit(e) == dl[e] = "passed" \/ ctx[e] # "nil"

\* Errors of the stream under a read or a write of a packet.
StreamErrors(e) ==
  {s \in {{"timeout"}} : DeadlineHit(e)}
    \cup {s \in {{"ECONNRESET"}} : net = "reset"}
    \cup {s \in {{"ErrUnexpectedEOF"}} : net = "up" /\ pc[e] = "read" /\ pc[Other(e)] = "foreign" /\ closed[Other(e)]}
    \cup {s \in {{"EOF"}} : net = "up" /\ pc[e] = "read" /\ inbox[e] = Nothing /\ closed[Other(e)]}

PacketFails(e) ==
  /\ pc[e] \in {"read", "write"}
  /\ \E s \in StreamErrors(e) : Fail(e, pc[e], connectIOError(e, s))
  /\ UNCHANGED <<outside, ref, refHeld, closed, inbox, cr, sel, answer, neg>>

\* The deferred release of the reference, then the deferred closeConn.
ReleasesRef(e) ==
  /\ Goto(e, "release", "close")
  /\ refHeld' = [refHeld EXCEPT ![e] = FALSE]
  /\ UNCHANGED <<outside, ref, closed, err, inbox, cr, sel, answer, neg>>

\* Mutant: the failing call leaves the stream open.
ClosesConnForgotten(e) ==
  /\ Goto(e, "close", "failed")
  /\ UNCHANGED <<outside, ref, refHeld, closed, err, inbox, cr, sel, answer, neg>>

ClosesConn(e) ==
  /\ Goto(e, "close", "failed")
  /\ closed' = [closed EXCEPT ![e] = TRUE]
  /\ UNCHANGED <<outside, ref, refHeld, err, inbox, cr, sel, answer, neg>>

\* newOpenConn with parameters n; the reference stays active for the Conn.
Open(e, from, n) == Goto(e, from, "open") /\ neg' = [neg EXCEPT ![e] = n]

\* The life of the Conn ends (Conn!RecordCause to Conn!StoreClosed).
ConnFinishes(e) ==
  /\ Goto(e, "open", "closed")
  /\ closed' = [closed EXCEPT ![e] = TRUE]
  /\ refHeld' = [refHeld EXCEPT ![e] = FALSE]
  /\ UNCHANGED <<outside, ref, err, inbox, cr, sel, answer, neg>>

-----------------------------------------------------------------------------
(* Connect                                                                 *)

\* Mutant: a CR that does not fit returns past the release of the reference.
BuildsCRLeaking ==
  /\ pc["client"] = "build"
  /\ IF ~cfg.client.crFits THEN Goto("client", "build", "close") /\ err' = [err EXCEPT !["client"] = {"ErrInvalidConfig"}]
     ELSE IF ctx["client"] # "nil" THEN Fail("client", "build", {ctx["client"]})
     ELSE Goto("client", "build", "write") /\ UNCHANGED err
  /\ UNCHANGED <<outside, ref, refHeld, closed, inbox, cr, sel, answer, neg>>

\* The CR must fit in 128 octets; arm looks at the context.
BuildsCR ==
  /\ pc["client"] = "build"
  /\ IF ~cfg.client.crFits THEN Fail("client", "build", {"ErrInvalidConfig"})
     ELSE IF ctx["client"] # "nil" THEN Fail("client", "build", {ctx["client"]})
     ELSE Goto("client", "build", "write") /\ UNCHANGED err
  /\ UNCHANGED <<outside, ref, refHeld, closed, inbox, cr, sel, answer, neg>>

WritesCR ==
  /\ net = "up"
  /\ Goto("client", "write", "read")
  /\ inbox' = [inbox EXCEPT !["server"] =
       [type |-> "CR", src |-> ref["client"], dst |-> 0, class |-> 0, fixedOk |-> TRUE,
        forbidden |-> FALSE, size |-> buildSizeOffer(cfg.client.max, cfg.client.profile),
        dataFits |-> TRUE, calling |-> cfg.client.local, called |-> cfg.client.remote]]
  /\ UNCHANGED <<outside, ref, refHeld, closed, err, cr, sel, answer, neg>>

\* What the client takes the CC's size parameters to mean.
ccSize(p) ==
  interpretCCSize(Offer(buildSizeOffer(cfg.client.max, cfg.client.profile)), p.size, cfg.client.profile)

\* validateClass0CCFixed, validateCCReferences, validateCCParameters, the
\* length of the connect data and interpretCCSize; all fail alike.
acceptableCC(p) ==
  /\ p.fixedOk
  /\ p.dst = ref["client"] /\ p.src # 0
  /\ p.paramsOk
  /\ p.dataFits
  /\ ccSize(p).ok

\* Why Connect refuses what it has read; {} if it is a CC it can open with.
refusal(p) ==
  IF p.type = "framing" THEN connectIOError("client", {"tpkt"})
  ELSE IF p.type = "DR" THEN {"ErrConnectionRefused", p.reason}
  ELSE IF p.type \notin {"CC", "ER", "malformed"} THEN {"ErrUnexpectedTPDU"}
  ELSE IF p.type = "CC" /\ acceptableCC(p) THEN {}
  ELSE {"ErrHandshake"}

ReadsAnswer ==
  LET p == inbox["client"] IN
  /\ pc["client"] = "read" /\ net = "up" /\ p # Nothing
  /\ inbox' = [inbox EXCEPT !["client"] = Nothing]
  /\ IF refusal(p) # {}
       THEN Fail("client", "read", refusal(p)) /\ UNCHANGED neg
       ELSE /\ Open("client", "read",
                 [max |-> ccSize(p).effective,
                  localRef |-> ref["client"], remoteRef |-> p.src,
                  local |-> cfg.client.local,
                  remote |-> IF p.called # Absent THEN p.called ELSE cfg.client.remote])
            /\ UNCHANGED err
  /\ UNCHANGED <<outside, ref, refHeld, closed, cr, sel, answer>>

-----------------------------------------------------------------------------
(* Accept                                                                  *)

\* Mutant: the reason of a refusal does not reach the wire.
DRWithoutReason(p, reason) == [type |-> "DR", dst |-> p.src, reason |-> "NotSpecified"]

DR(p, reason) == [type |-> "DR", dst |-> p.src, reason |-> reason]
ER(p, cause) == [type |-> "ER", dst |-> p.src, cause |-> cause]

class0CRProtocolError(p) == ~p.fixedOk \/ p.dst # 0 \/ p.src = 0 \/ p.forbidden

\* The ER for a Class 0 CR that breaks the protocol, Nothing if it does not.
protocolAnswer(p) ==
  IF class0CRProtocolError(p)
    THEN ER(p, IF p.fixedOk /\ p.dst = 0 /\ p.src # 0 THEN "code" ELSE "value")
  ELSE IF ~decodeSizeOffer(p.size).ok \/ ~p.dataFits THEN ER(p, "value")
  ELSE Nothing

Answers(tpdu, s) ==
  /\ Goto("server", "read", "answer")
  /\ answer' = tpdu
  /\ err' = [err EXCEPT !["server"] = s]

ReadsCR ==
  LET p == inbox["server"] IN
  /\ pc["server"] = "read" /\ net = "up" /\ p # Nothing
  /\ inbox' = [inbox EXCEPT !["server"] = Nothing]
  /\ CASE p.type = "framing" ->
            Fail("server", "read", connectIOError("server", {"tpkt"})) /\ UNCHANGED <<cr, answer>>
       [] p.type = "malformed" -> Fail("server", "read", {"ErrHandshake"}) /\ UNCHANGED <<cr, answer>>
       [] p.type \notin {"framing", "malformed", "CR"} ->
            Fail("server", "read", {"ErrUnexpectedTPDU"}) /\ UNCHANGED <<cr, answer>>
       [] p.type = "CR" /\ p.class # 0 ->
            Answers(DR(p, "NegotiationFailed"), {"ErrConnectionRefused", "NegotiationFailed"})
              /\ UNCHANGED cr
       [] p.type = "CR" /\ p.class = 0 /\ protocolAnswer(p) # Nothing ->
            (IF p.src = 0 THEN Fail("server", "read", {"ErrHandshake"}) /\ UNCHANGED answer
                          ELSE Answers(protocolAnswer(p), {"ErrHandshake"})) /\ UNCHANGED cr
       [] OTHER -> Goto("server", "read", "decide") /\ cr' = p /\ UNCHANGED <<answer, err>>
  /\ UNCHANGED <<outside, ref, refHeld, closed, sel, neg>>

\* defaultAutoAccept
defaultAutoAccept ==
  IF cfg.server.local = Absent \/ cfg.server.local = cr.called
    THEN [action |-> "accept", max |-> 0, dataFits |-> TRUE, reason |-> "NotSpecified"]
    ELSE [action |-> "reject", max |-> 0, dataFits |-> TRUE, reason |-> "AddressUnknown"]

\* The policy decides, and an acceptance selects the sizes.
Decides ==
  /\ pc["server"] = "decide"
  /\ \E d \in (IF cfg.server.auto THEN {defaultAutoAccept} ELSE Decisions) :
       /\ CASE d.action = "reject" ->
                 /\ Goto("server", "decide", "answer")
                 /\ answer' = DR(cr, d.reason)
                 /\ err' = [err EXCEPT !["server"] = {"ErrConnectionRefused", d.reason}]
                 /\ UNCHANGED sel
            [] d.action = "accept" /\ d.dataFits /\ ValidMax(d.max) ->
                 /\ Goto("server", "decide", "alloc")
                 /\ sel' = selectSize(Offer(cr.size), cfg.server.max, d.max)
                 /\ UNCHANGED <<answer, err>>
            [] OTHER ->
                 /\ Fail("server", "decide",
                         {"ErrHandshake"} \cup (IF d.action = "error" THEN {} ELSE {"ErrInvalidConfig"}))
                 /\ UNCHANGED <<answer, sel>>
       /\ UNCHANGED <<outside, ref, refHeld, closed, inbox, cr, neg>>

\* writeDR, writeER: the outcome of the write is ignored.
SendsAnswer ==
  /\ Goto("server", "answer", "release")
  /\ \/ net = "up" /\ inbox' = [inbox EXCEPT !["client"] = answer]
     \/ StreamErrors("server") # {} /\ UNCHANGED inbox
  /\ UNCHANGED <<outside, ref, refHeld, closed, err, cr, sel, answer, neg>>

responding ==
  IF cfg.server.echo /\ cfg.server.local = Absent THEN cr.called ELSE cfg.server.local

\* Mutant: a CC that does not fit returns past the release of the reference.
BuildsCCLeaking ==
  /\ pc["server"] = "build"
  /\ IF cfg.server.ccFits
       THEN Goto("server", "build", "write") /\ UNCHANGED err
       ELSE Goto("server", "build", "close") /\ err' = [err EXCEPT !["server"] = {"ErrHandshake"}]
  /\ UNCHANGED <<outside, ref, refHeld, closed, inbox, cr, sel, answer, neg>>

\* A CC that does not fit is only found here.
BuildsCC ==
  /\ pc["server"] = "build"
  /\ IF cfg.server.ccFits
       THEN Goto("server", "build", "write") /\ UNCHANGED err
       ELSE Fail("server", "build", {"ErrHandshake"})
  /\ UNCHANGED <<outside, ref, refHeld, closed, inbox, cr, sel, answer, neg>>

\* Mutant: the server opens with its own ceiling, not with the selection.
WritesCCOwnCeiling ==
  /\ net = "up"
  /\ Open("server", "write",
       [max |-> normalizeConfiguredMax(cfg.server.max), localRef |-> ref["server"], remoteRef |-> cr.src,
        local |-> responding, remote |-> cr.calling])
  /\ inbox' = [inbox EXCEPT !["client"] =
       [type |-> "CC", src |-> ref["server"], dst |-> cr.src, fixedOk |-> TRUE,
        paramsOk |-> TRUE, size |-> sel.params, dataFits |-> TRUE,
        calling |-> IF cfg.server.echo THEN cr.calling ELSE Absent, called |-> responding]]
  /\ UNCHANGED <<outside, ref, refHeld, closed, err, cr, sel, answer>>

WritesCC ==
  /\ net = "up"
  /\ Open("server", "write",
       [max |-> sel.effective, localRef |-> ref["server"], remoteRef |-> cr.src,
        local |-> responding, remote |-> cr.calling])
  /\ inbox' = [inbox EXCEPT !["client"] =
       [type |-> "CC", src |-> ref["server"], dst |-> cr.src, fixedOk |-> TRUE,
        paramsOk |-> TRUE, size |-> sel.params, dataFits |-> TRUE,
        calling |-> IF cfg.server.echo THEN cr.calling ELSE Absent, called |-> responding]]
  /\ UNCHANGED <<outside, ref, refHeld, closed, err, cr, sel, answer>>

-----------------------------------------------------------------------------
(* The other implementation, the contexts and the network                  *)

\* It matters only what has arrived by the time the one read is made.
ForeignSends(e) ==
  /\ pc[e] = "foreign" /\ ~closed[e] /\ net = "up"
  /\ pc[Other(e)] = "read" /\ inbox[Other(e)] = Nothing
  /\ \E p \in (IF e = "client" THEN ForeignCRs ELSE ForeignAnswers) :
       inbox' = [inbox EXCEPT ![Other(e)] = p]
  /\ UNCHANGED <<outside, pc, ref, refHeld, closed, err, cr, sel, answer, neg>>

ForeignCloses(e) ==
  /\ pc[e] = "foreign" /\ ~closed[e]
  /\ closed' = [closed EXCEPT ![e] = TRUE]
  /\ UNCHANGED <<outside, pc, ref, refHeld, err, inbox, cr, sel, answer, neg>>

InCall(e) == pc[e] \notin {"foreign", "release", "close", "failed", "open", "closed"}

CtxEnds(e) ==
  /\ InCall(e) /\ ctx[e] = "nil"
  /\ \/ ctx' = [ctx EXCEPT ![e] = "Canceled"]
     \/ dl[e] = "passed" /\ ctx' = [ctx EXCEPT ![e] = "DeadlineExceeded"]
  /\ UNCHANGED <<cfg, pc, ref, refHeld, closed, dl, err, inbox, net, cr, sel, answer, neg>>

DeadlinePasses(e) ==
  /\ InCall(e) /\ dl[e] = "pending"
  /\ dl' = [dl EXCEPT ![e] = "passed"]
  /\ UNCHANGED <<cfg, pc, ref, refHeld, closed, ctx, err, inbox, net, cr, sel, answer, neg>>

NetFails ==
  /\ net = "up" /\ net' \in Faults
  /\ UNCHANGED <<cfg, pc, ref, refHeld, closed, ctx, dl, err, inbox, cr, sel, answer, neg>>

-----------------------------------------------------------------------------
Step(e) ==
  \/ Preflight(e) \/ Allocates(e) \/ AllocateFails(e) \/ PacketFails(e)
  \/ ReleasesRef(e) \/ ClosesConn(e)
  \/ e = "client" /\ (BuildsCR \/ WritesCR \/ ReadsAnswer)
  \/ e = "server" /\ (ReadsCR \/ Decides \/ SendsAnswer \/ BuildsCC \/ WritesCC)

Environment ==
  \/ \E e \in Ends :
       ConnFinishes(e) \/ CtxEnds(e) \/ DeadlinePasses(e) \/ ForeignSends(e) \/ ForeignCloses(e)
  \/ NetFails

Next == (\E e \in Ends : Step(e)) \/ Environment

Spec == Init /\ [][Next]_vars

\* The calling goroutines are scheduled and OnConnect returns.
FairSpec == Spec /\ \A e \in Ends : WF_vars(Step(e))

-----------------------------------------------------------------------------
Over(e) == pc[e] \in {"failed", "open", "closed"}

\* A call that failed has closed its stream and given its reference back, on
\* every path (the deferred calls of Connect and Accept); one that succeeded
\* has passed both on to the Conn.
NothingLeaks ==
  \A e \in Ends :
    /\ pc[e] \in {"failed", "closed"} => closed[e] /\ ~refHeld[e]
    /\ pc[e] = "open" => ~closed[e] /\ refHeld[e]

\* When the client has opened, the server had opened too, and the two agree
\* on the TPDU length, on each other's references and on the selectors.
OpenEndsAgree ==
  pc["client"] \in {"open", "closed"} =>
    /\ pc["server"] \in {"open", "closed"}
    /\ neg["client"].max = neg["server"].max
    /\ neg["client"].remoteRef = neg["server"].localRef
    /\ neg["server"].remoteRef = neg["client"].localRef
    /\ neg["server"].remote = neg["client"].local
    /\ neg["server"].local # Absent => neg["client"].remote = neg["server"].local

\* A client that reports a refusal was refused by the server, with the reason
\* the server's own caller is told.
RefusalIsTheServers ==
  "ErrConnectionRefused" \in err["client"] => err["server"] = err["client"]

\* The two ends never wait for each other for ever, even with contexts that
\* never end: each answers or closes its stream, and the other sees it.
HandshakeEnds == \A e \in Ends : <>Over(e)

\* A call whose context ends returns, whatever the other implementation does.
CtxEndsHandshake == \A e \in Ends : ctx[e] # "nil" ~> Over(e)

-----------------------------------------------------------------------------
(* What the documents say of the handshake and the code does not keep      *)

\* ERRORS.md: Connect and Accept return a *DisconnectError when the stream
\* goes away, a TCP reset included.
ResetIsDisconnect ==
  \A e \in Ends : pc[e] = "failed" /\ "ECONNRESET" \in err[e] => "ErrDisconnected" \in err[e]
=============================================================================
