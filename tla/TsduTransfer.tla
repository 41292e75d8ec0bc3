---------------------------- MODULE TsduTransfer ----------------------------
(***************************************************************************)
(* Two ends of one open connection, each an instance of Conn, and one      *)
(* direction of the stream between them: the writers of end A segment      *)
(* TSDUs into DT packets, the readers of end B reassemble them.            *)
(*                                                                         *)
(* The stream is a sequence of packets, then perhaps a part of one.  The   *)
(* octets of a TSDU are told apart by the writer's call and their offset.  *)
(* Calls begin while the connection is not over: what a later call does is *)
(* in Conn, it never reaches the stream.  Nobody closes end B but a reader *)
(* that aborts it.                                                         *)
(***************************************************************************)
EXTENDS Naturals, Sequences

CONSTANTS
  AWriters, AClosers, AMaxTSDU,   \* goroutines and MaxTSDULength of end A
  BReaders, BMaxTSDU,             \* the same of end B
  MaxTPDU,                        \* MaxTPDULength both ends negotiated
  TsduLens,                       \* lengths of the TSDUs the writers are given
  MaxTsdus,                       \* bound: no WriteTSDU begins after so many succeeded
  ANetFailures, BNetFailures,     \* what may become of the stream at each end
  NoProc                          \* no goroutine

\* What Conn assumes of its constants, at both ends.
ASSUME EndsAssumption ==
  /\ AWriters \cap AClosers = {}
  /\ NoProc \notin AWriters \cup AClosers \cup BReaders
  /\ MaxTPDU \in Nat /\ AMaxTSDU \in Nat \ {0} /\ BMaxTSDU \in Nat \ {0}
  /\ TsduLens \subseteq Nat
  /\ ANetFailures \cup BNetFailures \subseteq {"eof", "reset", "etimedout", "fault"}

VARIABLES
  aState, aTermKind, aTermErr, aOnce, aMu, aRefHeld, aRawOpen, aNet, aPc, aCtx, aDl,
  aLen, aDone, aSegs, aInPkt, aMoved, aErr, aOwner, aLate,
  bState, bTermKind, bTermErr, bOnce, bMu, bRefHeld, bRawOpen, bNet, bPc, bCtx, bDl,
  bLen, bDone, bSegs, bInPkt, bMoved, bErr, bOwner, bLate,
  stream,      \* packets A has written and B has not read
  partial,     \* octets of a further packet follow them
  got,         \* got[r]: what the segments ReadTSDU holds are octets of
  accepted,    \* lengths of the TSDUs WriteTSDU returned nil for
  delivered    \* what each successful ReadTSDU returned

A == INSTANCE Conn WITH
  Readers <- {}, Writers <- AWriters, Closers <- AClosers, MaxTSDU <- AMaxTSDU,
  Deadlines <- {"none"}, NetFailures <- ANetFailures,
  state <- aState, termKind <- aTermKind, termErr <- aTermErr, once <- aOnce, mu <- aMu,
  refHeld <- aRefHeld, rawOpen <- aRawOpen, net <- aNet, pc <- aPc, ctx <- aCtx, dl <- aDl,
  len <- aLen, done <- aDone, segs <- aSegs, inPkt <- aInPkt, moved <- aMoved, err <- aErr,
  owner <- aOwner, late <- aLate

B == INSTANCE Conn WITH
  Readers <- BReaders, Writers <- {}, Closers <- {}, MaxTSDU <- BMaxTSDU,
  Deadlines <- {"none"}, NetFailures <- BNetFailures,
  state <- bState, termKind <- bTermKind, termErr <- bTermErr, once <- bOnce, mu <- bMu,
  refHeld <- bRefHeld, rawOpen <- bRawOpen, net <- bNet, pc <- bPc, ctx <- bCtx, dl <- bDl,
  len <- bLen, done <- bDone, segs <- bSegs, inPkt <- bInPkt, moved <- bMoved, err <- bErr,
  owner <- bOwner, late <- bLate

aVars == <<aState, aTermKind, aTermErr, aOnce, aMu, aRefHeld, aRawOpen, aNet, aPc, aCtx, aDl,
           aLen, aDone, aSegs, aInPkt, aMoved, aErr, aOwner, aLate>>
bVars == <<bState, bTermKind, bTermErr, bOnce, bMu, bRefHeld, bRawOpen, bNet, bPc, bCtx, bDl,
           bLen, bDone, bSegs, bInPkt, bMoved, bErr, bOwner, bLate>>
history == <<accepted, delivered>>
vars == <<aVars, bVars, stream, partial, got, history>>

Nothing == [by |-> NoProc, tsdu |-> 0, len |-> 0, ok |-> TRUE]

Init ==
  /\ A!Init /\ B!Init
  /\ stream = <<>> /\ partial = FALSE
  /\ got = [r \in BReaders |-> Nothing]
  /\ accepted = <<>> /\ delivered = <<>>

-----------------------------------------------------------------------------
(* End A                                                                   *)

\* A writer hands over its next TSDU, or the same again after a failure.
Write(w) ==
  /\ aTermKind = "none" /\ Len(accepted) < MaxTsdus
  /\ A!CallMove(w)
  /\ UNCHANGED <<bVars, stream, partial, got, history>>

AStep(p) ==
  /\ A!Step(p) \/ A!AwaitLock(p)
  /\ UNCHANGED <<bVars, stream, partial, got, history>>

AContext(p) ==
  /\ A!Context(p)
  /\ UNCHANGED <<bVars, stream, partial, got, history>>

AClose(p) ==
  /\ aTermKind = "none"
  /\ A!CallClose(p)
  /\ UNCHANGED <<bVars, stream, partial, got, history>>

WriteOctets(w) ==
  /\ A!Octets(w)
  /\ partial' = TRUE
  /\ UNCHANGED <<bVars, stream, got, history>>

\* The DT for tsdu[offset:end]: the rest of its octets are in the stream.
Segment(w) == [by |-> w, tsdu |-> Len(accepted) + 1, from |-> aDone[w], to |-> aDone'[w],
               eot |-> aDone'[w] = aLen[w]]

WriteSegment(w) ==
  /\ A!WritePacket(w)
  /\ stream' = Append(stream, Segment(w))
  /\ partial' = FALSE
  /\ accepted' = IF Segment(w).eot THEN Append(accepted, aLen[w]) ELSE accepted
  /\ UNCHANGED <<bVars, got, delivered>>

-----------------------------------------------------------------------------
(* End B                                                                   *)

Read(r) ==
  /\ bTermKind = "none"
  /\ B!CallMove(r)
  /\ UNCHANGED <<aVars, stream, partial, got, history>>

\* The segments are the method's own: they are gone when it returns.  A
\* writer of this package never breaks the framing.
BStep(p) ==
  /\ B!Step(p) \/ B!AwaitLock(p)
  /\ "tpkt" \notin bErr'[p]
  /\ got' = [r \in BReaders |-> IF bPc'[r] = "idle" THEN Nothing ELSE got[r]]
  /\ UNCHANGED <<aVars, stream, partial, history>>

BContext(p) ==
  /\ B!Context(p)
  /\ UNCHANGED <<aVars, stream, partial, got, history>>

ReadOctets(r) ==
  /\ stream # <<>> \/ partial
  /\ B!Octets(r)
  /\ UNCHANGED <<aVars, stream, partial, got, history>>

\* The segments g with the one of packet s after them; ok says that they are
\* the first octets of one TSDU.
Join(g, s) ==
  [by |-> s.by, tsdu |-> s.tsdu, len |-> g.len + s.to - s.from,
   ok |-> g.ok /\ s.from = g.len /\ (g # Nothing => g.by = s.by /\ g.tsdu = s.tsdu)]

ReadSegment(r) ==
  /\ stream # <<>>
  /\ LET s == Head(stream) IN
     /\ B!ReadPacket(r, [type |-> "DT", len |-> s.to - s.from, eot |-> s.eot])
     /\ stream' = Tail(stream)
     /\ got' = IF bSegs'[r] > bSegs[r] THEN [got EXCEPT ![r] = Join(@, s)] ELSE got
     /\ delivered' = IF bSegs'[r] > bSegs[r] /\ s.eot
                       THEN Append(delivered, [tsdu |-> IF got'[r].ok THEN s.tsdu ELSE 0,
                                               len |-> got'[r].len])
                       ELSE delivered
  /\ UNCHANGED <<aVars, partial, accepted>>

-----------------------------------------------------------------------------
(* The stream                                                              *)

\* The stream fails at A once B closed its end or the stream failed there.  (A
\* failure that A sees first is to B no different from an abort of A.)
ANetChanges ==
  /\ ~bRawOpen \/ bNet = "reset"
  /\ A!NetChanges
  /\ UNCHANGED <<bVars, stream, partial, got, history>>

\* B finds the end of the stream where A's octets end, and only after A
\* closed its end.  A reset can destroy octets at any time.
BNetChanges ==
  /\ B!NetChanges
  /\ bNet' = "eof" => /\ ~aRawOpen /\ aNet = "up" /\ stream = <<>>
                      /\ partial => \E r \in BReaders : bInPkt[r]
  /\ UNCHANGED <<aVars, stream, partial, got, history>>

Next ==
  \/ \E w \in AWriters : Write(w) \/ WriteOctets(w) \/ WriteSegment(w) \/ AContext(w)
  \/ \E p \in AWriters \cup AClosers : AStep(p) \/ AClose(p)
  \/ \E r \in BReaders : Read(r) \/ ReadOctets(r) \/ ReadSegment(r) \/ BContext(r) \/ BStep(r)
  \/ ANetChanges \/ BNetChanges

Spec == Init /\ [][Next]_vars

\* Goroutines are scheduled, the user of B calls ReadTSDU again and again,
\* and octets that have arrived are read.
Fairness ==
  /\ \A p \in AWriters \cup AClosers : WF_vars(AStep(p))
  /\ \A r \in BReaders : /\ WF_vars(BStep(r)) /\ WF_vars(Read(r))
                         /\ WF_vars(ReadOctets(r)) /\ WF_vars(ReadSegment(r))

FairSpec == Spec /\ Fairness
-----------------------------------------------------------------------------
(* Properties                                                              *)

Service == INSTANCE TsduService WITH
  TsduLengths <- TsduLens \cap (1 .. AMaxTSDU),
  up <- aTermKind = "none" /\ bTermKind = "none"

\* The two connections implement the TSDU service: whatever contexts end,
\* calls race and fail, and callers try again, ReadTSDU returns the TSDUs
\* WriteTSDU accepted, whole, in order, each once.
ImplementsService == Service!Spec

\* A reader that is told of an orderly end of the stream (ErrDisconnected
\* with EOF, no ErrIncompleteTSDU) has been given every TSDU that WriteTSDU
\* accepted, and A broke off in the middle of none.
CleanEndMeansAllDelivered ==
  "EOF" \in bTermErr /\ "ErrIncompleteTSDU" \notin bTermErr
    => Len(delivered) = Len(accepted) /\ aOwner["write"] = NoProc

\* ErrIncompleteTSDU at the end of the stream is not a false alarm: A did
\* abandon a TSDU in the stream, and it is the only thing missing, for every
\* TSDU accepted before it has been delivered.
IncompleteMeansAbandoned ==
  "ErrIncompleteTSDU" \in bTermErr /\ bTermErr \cap {"EOF", "ErrUnexpectedEOF"} # {}
    => aOwner["write"] # NoProc /\ Len(delivered) = Len(accepted)

\* B is over for a reason of its own: ReadTSDU refused a TSDU longer than its
\* MaxTSDULength, or its context ended.
ReaderGaveUp == bTermErr \cap {"ErrTSDUTooLarge", "Canceled", "DeadlineExceeded"} # {}

\* A TSDU that WriteTSDU accepted is read at the other end, unless the reader
\* gives up or a reset destroys it.  That A closes its end at once, or aborts
\* a later TSDU half way, loses nothing: the end of the stream is no excuse.
\* Contexts of ReadTSDU that end too early may delay it, as long as they stop
\* doing so.
AcceptedArrives ==
  <>[](\A r \in BReaders : bCtx[r] = "nil") =>
    \A k \in 1 .. MaxTsdus :
      Len(accepted) >= k ~> Len(delivered) >= k \/ ReaderGaveUp \/ bNet = "reset"
=============================================================================
