----------------------------- MODULE ConnProofs -----------------------------
(***************************************************************************)
(* For any number of goroutines, any sizes and any failures of the stream: *)
(* TSDUs are never mixed, half a TSDU ends the connection, a context error *)
(* leaves the stream where it was, and the end of a connection happens     *)
(* once, in order.  The invariant is a conjunction of seven parts; each    *)
(* is preserved given itself and some of the parts before it.              *)
(***************************************************************************)
EXTENDS Conn, TLAPS

\* Where a mover holds the lock of its direction.
Inside == {"requireOpen", "loadState", "check", "io", "fail", "idleTimeout", "classify",
           "finish", "storeState", "closeRaw", "release", "storeClosed"}

\* Inside the function of termOnce.
Finishing == {"storeState", "closeRaw", "release", "storeClosed"}

\* TypeOK, with what keeps a writer's offset below the limit and Close out of
\* the directions.
Types ==
  /\ TypeOK
  /\ \A p \in Writers : pc[p] = "io" => len[p] <= MaxTSDU
  /\ \A p \in Closers : pc[p] \in {"idle", "finish", "return"} \cup Finishing

\* A direction belongs to the mover inside it, and to nobody of the other one.
Locks ==
  /\ \A p \in Movers : pc[p] \in Inside => mu[Dir(p)] = p
  /\ \A d \in Dirs : mu[d] # NoProc => Dir(mu[d]) = d

\* The end of the connection: the cause comes first, then the state, the
\* stream and the reference, at the hands of one goroutine.
Ending ==
  /\ once = "free" <=> termKind = "none"
  /\ state # "open" => termKind # "none"
  /\ RefOutlivesStream
  /\ \A p \in Procs : pc[p] \in Finishing =>
       /\ once = "busy" /\ termKind = Kind(p)
       /\ \A q \in Procs : pc[q] \in Finishing => q = p
       /\ pc[p] # "storeState" => state = IF Kind(p) = "closed" THEN "closing" ELSE "aborted"
       /\ pc[p] \in {"release", "storeClosed"} => ~rawOpen
       /\ pc[p] = "storeClosed" => ~refHeld
  /\ once = "done" => ~rawOpen /\ ~refHeld /\ state = termKind

\* Whose TSDU is in the stream: nobody's before the first octet, the mover's
\* from then on, and if it stays there, the connection has a cause.
Boundary ==
  /\ StreamAtBoundary
  /\ \A p \in Movers : pc[p] \in {"loadState", "check"} => owner[Dir(p)] = NoProc
  /\ \A p \in Procs : moved[p] =>
       pc[p] \in {"io", "fail", "classify", "finish", "return"} \cup Finishing
  /\ \A d \in Dirs : owner[d] # NoProc =>
       \/ termKind # "none"
       \/ /\ mu[d] = owner[d]
          /\ pc[owner[d]] \in {"io", "fail", "classify", "finish"}
          /\ moved[owner[d]]

\* What a failing stream can hand to the error path.
RawErrors == {{"timeout"}, {"timeout", "ETIMEDOUT"}, {"EOF"}, {"ErrUnexpectedEOF"},
              {"ECONNRESET"}, {"EIO"}, {"tpkt"}, {"net.ErrClosed"}}

\* A bare context error never becomes the cause.
Verdicts ==
  /\ termErr \notin CtxErrors
  /\ \A p \in Procs : pc[p] \in {"fail", "idleTimeout", "classify"} => err[p] \in RawErrors
  /\ \A p \in Procs : pc[p] = "finish" => err[p] \notin CtxErrors
  /\ CtxErrorMeansNothingMoved

\* What an operation returns is settled by whether it began after the cause.
Reports ==
  /\ termKind = "none" => termErr = nil
  /\ \A p \in Procs : late[p] =>
       /\ termKind # "none"
       /\ pc[p] \in {"lock", "wait", "requireOpen", "finish", "return"}
  /\ ReturnsRecordedCause

\* An error in hand is evidence: of the failed stream, of the closed one, or of
\* the operation's own deadline.
Evidence ==
  /\ \A p \in Procs : pc[p] \in {"fail", "idleTimeout", "classify"} =>
       /\ err[p] \cap {"EOF", "ErrUnexpectedEOF", "ECONNRESET", "ETIMEDOUT", "EIO"} # {} => net # "up"
       /\ err[p] = {"net.ErrClosed"} => ~rawOpen
       /\ err[p] = {"timeout"} => DeadlineHit(p)
  /\ \A p \in Procs : pc[p] = "finish" /\ "ErrDisconnected" \in err[p] =>
       net # "up" \/ "ErrUnexpectedTPDU" \in err[p]
  /\ DisconnectedMeansPeer

IInv == Types /\ Locks /\ Ending /\ Boundary /\ Verdicts /\ Reports /\ Evidence

-----------------------------------------------------------------------------
\* The steps of the system, one disjunct for each action.
LEMMA NextCases ==
  ASSUME [Next]_vars
  PROVE  \/ UNCHANGED vars
         \/ NetChanges
         \/ \E p \in Procs :
              \/ CallMove(p) \/ CallClose(p) \/ Return(p) \/ TryLock(p)
              \/ AwaitLock(p) \/ GiveUpLock(p) \/ RequireOpen(p) \/ LoadState(p)
              \/ Check(p) \/ Octets(p) \/ WritePacket(p) \/ PacketFails(p)
              \/ Fail(p) \/ IdleTimeout(p) \/ Classify(p) \/ RecordCause(p)
              \/ AwaitOnce(p) \/ StoreState(p) \/ CloseRaw(p) \/ releaseRef(p)
              \/ StoreClosed(p) \/ Cancel(p) \/ DeadlinePasses(p) \/ CtxTimerFires(p)
              \/ \E pkt \in Packets : ReadPacket(p, pkt)
  BY DEF Next, Step, Transfer, Context

\* Directions and goroutines.
LEMMA ProcFacts ==
  /\ NoProc \notin Procs
  /\ \A p \in Procs : Dir(p) \in Dirs
  /\ \A p \in Readers : p \in Movers /\ p \in Procs /\ Dir(p) = "read"
  /\ \A p \in Writers : p \in Movers /\ p \in Procs /\ p \notin Readers /\ Dir(p) = "write"
  /\ \A p \in Movers : p \in Procs /\ p \notin Closers
  /\ \A p \in Closers : p \in Procs
  BY ProcsAssumption DEF Procs, Movers, Dir, Dirs

\* The lock of a direction is taken by one mover and given back at its return.
LEMMA LocksStep == Types /\ Locks /\ [Next]_vars => Locks'
<1> SUFFICES ASSUME Types, Locks, [Next]_vars PROVE Locks'
  OBVIOUS
<1>1. CASE UNCHANGED vars
  BY <1>1 DEF vars, connVars, streamVars, ctxVars, opVars, Types, TypeOK, Locks, Inside
<1>2. ASSUME NEW p \in Procs, CallMove(p) PROVE Locks'
  BY <1>2, ProcFacts DEF CallMove, Goto, connVars, streamVars, Types, TypeOK, Locks, Inside
<1>3. ASSUME NEW p \in Procs, CallClose(p) PROVE Locks'
  BY <1>3, ProcFacts DEF CallClose, Goto, connVars, streamVars, ctxVars, opVars, Types, TypeOK,
      Locks, Inside
<1>4. ASSUME NEW p \in Procs, Return(p) PROVE Locks'
  BY <1>4, ProcFacts DEF Return, Goto, connVars, streamVars, Types, TypeOK, Locks, Inside
<1>5. ASSUME NEW p \in Procs, TryLock(p) PROVE Locks'
  BY <1>5, ProcFacts DEF TryLock, Goto, connVars, streamVars, ctxVars, opVars, Types, TypeOK, Locks,
      Inside
<1>6. ASSUME NEW p \in Procs, AwaitLock(p) PROVE Locks'
  BY <1>6, ProcFacts DEF AwaitLock, Goto, connVars, streamVars, ctxVars, opVars, Types, TypeOK,
      Locks, Inside
<1>7. ASSUME NEW p \in Procs, GiveUpLock(p) PROVE Locks'
  BY <1>7, ProcFacts DEF GiveUpLock, Goto, Exit, connVars, streamVars, ctxVars, opVars, Types,
      TypeOK, Locks, Inside
<1>8. ASSUME NEW p \in Procs, RequireOpen(p) PROVE Locks'
  BY <1>8, ProcFacts DEF RequireOpen, Goto, Exit, connVars, streamVars, ctxVars, opVars, Types,
      TypeOK, Locks, Inside
<1>9. ASSUME NEW p \in Procs, LoadState(p) PROVE Locks'
  BY <1>9, ProcFacts DEF LoadState, Goto, Exit, connVars, streamVars, ctxVars, opVars, Types, TypeOK,
      Locks, Inside
<1>10. ASSUME NEW p \in Procs, Check(p) PROVE Locks'
  BY <1>10, ProcFacts DEF Check, Goto, Exit, connVars, streamVars, ctxVars, opVars, Types, TypeOK,
      Locks, Inside
<1>11. ASSUME NEW p \in Procs, Octets(p) PROVE Locks'
  BY <1>11, ProcFacts DEF Octets, connVars, streamVars, ctxVars, Types, TypeOK, Locks, Inside
<1>12. ASSUME NEW p \in Procs, NEW pkt \in Packets, ReadPacket(p, pkt) PROVE Locks'
  BY <1>12, ProcFacts DEF ReadPacket, Goto, Exit, connVars, streamVars, ctxVars, Types, TypeOK,
      Locks, Inside
<1>13. ASSUME NEW p \in Procs, WritePacket(p) PROVE Locks'
  BY <1>13, ProcFacts DEF WritePacket, Goto, Exit, connVars, streamVars, ctxVars, Types, TypeOK,
      Locks, Inside
<1>14. ASSUME NEW p \in Procs, PacketFails(p) PROVE Locks'
  BY <1>14, ProcFacts DEF PacketFails, Goto, connVars, streamVars, ctxVars, opVars, Types, TypeOK,
      Locks, Inside
<1>15. ASSUME NEW p \in Procs, Fail(p) PROVE Locks'
  BY <1>15, ProcFacts DEF Fail, Goto, connVars, streamVars, ctxVars, opVars, Types, TypeOK, Locks,
      Inside
<1>16. ASSUME NEW p \in Procs, IdleTimeout(p) PROVE Locks'
  BY <1>16, ProcFacts DEF IdleTimeout, Goto, Exit, connVars, streamVars, ctxVars, opVars, Types,
      TypeOK, Locks, Inside
<1>17. ASSUME NEW p \in Procs, Classify(p) PROVE Locks'
  BY <1>17, ProcFacts DEF Classify, Goto, Exit, connVars, streamVars, ctxVars, opVars, Types, TypeOK,
      Locks, Inside
<1>18. ASSUME NEW p \in Procs, RecordCause(p) PROVE Locks'
  BY <1>18, ProcFacts DEF RecordCause, Goto, streamVars, ctxVars, opVars, Types, TypeOK, Locks,
      Inside
<1>19. ASSUME NEW p \in Procs, AwaitOnce(p) PROVE Locks'
  BY <1>19, ProcFacts DEF AwaitOnce, Goto, Exit, connVars, streamVars, ctxVars, opVars, Types,
      TypeOK, Locks, Inside
<1>20. ASSUME NEW p \in Procs, StoreState(p) PROVE Locks'
  BY <1>20, ProcFacts DEF StoreState, Goto, streamVars, ctxVars, opVars, Types, TypeOK, Locks,
      Inside
<1>21. ASSUME NEW p \in Procs, CloseRaw(p) PROVE Locks'
  BY <1>21, ProcFacts DEF CloseRaw, Goto, connVars, ctxVars, opVars, Types, TypeOK, Locks, Inside
<1>22. ASSUME NEW p \in Procs, releaseRef(p) PROVE Locks'
  BY <1>22, ProcFacts DEF releaseRef, Goto, streamVars, ctxVars, opVars, Types, TypeOK, Locks,
      Inside
<1>23. ASSUME NEW p \in Procs, StoreClosed(p) PROVE Locks'
  BY <1>23, ProcFacts DEF StoreClosed, Goto, Exit, streamVars, ctxVars, opVars, Types, TypeOK, Locks,
      Inside
<1>24. ASSUME NEW p \in Procs, Cancel(p) PROVE Locks'
  BY <1>24, ProcFacts DEF Cancel, connVars, streamVars, opVars, Types, TypeOK, Locks, Inside
<1>25. ASSUME NEW p \in Procs, DeadlinePasses(p) PROVE Locks'
  BY <1>25, ProcFacts DEF DeadlinePasses, connVars, streamVars, opVars, Types, TypeOK, Locks, Inside
<1>26. ASSUME NEW p \in Procs, CtxTimerFires(p) PROVE Locks'
  BY <1>26, ProcFacts DEF CtxTimerFires, connVars, streamVars, opVars, Types, TypeOK, Locks, Inside
<1>27. CASE NetChanges
  BY <1>27, ProcFacts DEF NetChanges, connVars, ctxVars, opVars, Types, TypeOK, Locks, Inside
<1> QED BY <1>1, <1>2, <1>3, <1>4, <1>5, <1>6, <1>7, <1>8, <1>9, <1>10, <1>11, <1>12, <1>13, <1>14,
      <1>15, <1>16, <1>17, <1>18, <1>19, <1>20, <1>21, <1>22, <1>23, <1>24, <1>25, <1>26, <1>27, NextCases

\* Every error the methods make is a set of sentinels.
LEMMA ErrorTypes ==
  ASSUME TypeOK, NEW p \in Procs
  PROVE  /\ ctxDoneErr(p) \in SUBSET Sentinels
         /\ localError(p) \in SUBSET Sentinels
         /\ StreamErrors(p) \subseteq RawErrors
         /\ RawErrors \subseteq SUBSET Sentinels
         /\ \A e \in SUBSET Sentinels : classifyIOPhase(p, e) \in SUBSET Sentinels
         /\ \A pkt \in Packets : abortOpen(p, segmentError(p, pkt)) \in SUBSET Sentinels
<1>1. ctx[p] \in {"nil", "Canceled", "DeadlineExceeded"}
  BY DEF TypeOK
<1>2. ctxDoneErr(p) \in SUBSET Sentinels
  BY <1>1 DEF ctxDoneErr, nil, Sentinels
<1>3. localError(p) \in SUBSET Sentinels
  BY <1>1 DEF localError, nil, Sentinels
<1>4. StreamErrors(p) \subseteq RawErrors
  BY DEF StreamErrors, RawErrors
<1>5. RawErrors \subseteq SUBSET Sentinels
  BY DEF RawErrors, Sentinels
<1>6. ASSUME NEW e \in SUBSET Sentinels PROVE classifyIOPhase(p, e) \in SUBSET Sentinels
  BY <1>1, <1>6 DEF classifyIOPhase, abortOpen, DisconnectError, Sentinels
<1>7. ASSUME NEW pkt \in Packets
      PROVE  abortOpen(p, segmentError(p, pkt)) \in SUBSET Sentinels
  <2>1. decodeOpenDT(pkt) \in SUBSET Sentinels
    BY DEF decodeOpenDT, unexpectedOpenTPDU, DisconnectError, nil, Sentinels
  <2>2. segmentError(p, pkt) \in SUBSET Sentinels
    BY <2>1 DEF segmentError, nil, Sentinels
  <2> QED BY <2>2 DEF abortOpen, Sentinels
<1> QED BY <1>2, <1>3, <1>4, <1>5, <1>6, <1>7

\* Every step keeps the types.
LEMMA TypesStep == Types /\ [Next]_vars => Types'
<1> SUFFICES ASSUME Types, [Next]_vars PROVE Types'
  OBVIOUS
<1>1. CASE UNCHANGED vars
  BY <1>1 DEF vars, connVars, streamVars, ctxVars, opVars, Types, TypeOK, Finishing
<1>2. ASSUME NEW p \in Procs, CallMove(p) PROVE Types'
  BY <1>2, ProcFacts, SizesAssumption, EnvironmentAssumption DEF CallMove, Goto, connVars,
      streamVars, Types, TypeOK, Finishing, Places
<1>3. ASSUME NEW p \in Procs, CallClose(p) PROVE Types'
  BY <1>3, ProcFacts DEF CallClose, Goto, connVars, streamVars, ctxVars, opVars, Types, TypeOK,
      Finishing, Places, Sentinels
<1>4. ASSUME NEW p \in Procs, Return(p) PROVE Types'
  BY <1>4, ProcFacts, SizesAssumption DEF Return, Goto, connVars, streamVars, Types, TypeOK,
      Finishing, Places, nil
<1>5. ASSUME NEW p \in Procs, TryLock(p) PROVE Types'
  <2>1. p \in Movers
    BY <1>5 DEF TryLock, Goto, Types, Finishing, Procs
  <2>2. mu' \in [Dirs -> Movers \cup {NoProc}]
    BY <1>5, <2>1, ProcFacts DEF TryLock, Types, TypeOK
  <2> QED BY <2>2, <1>5, ProcFacts DEF TryLock, Goto, connVars, streamVars, ctxVars, opVars, Types,
          TypeOK,
      Places, Finishing
<1>6. ASSUME NEW p \in Procs, AwaitLock(p) PROVE Types'
  <2>1. p \in Movers
    BY <1>6 DEF AwaitLock, Goto, Types, Finishing, Procs
  <2>2. mu' \in [Dirs -> Movers \cup {NoProc}]
    BY <1>6, <2>1, ProcFacts DEF AwaitLock, Types, TypeOK
  <2> QED BY <2>2, <1>6, ProcFacts DEF AwaitLock, Goto, connVars, streamVars, ctxVars, opVars, Types,
          TypeOK,
      Places, Finishing
<1>7. ASSUME NEW p \in Procs, GiveUpLock(p) PROVE Types'
  BY <1>7, ProcFacts DEF GiveUpLock, Goto, Exit, connVars, streamVars, ctxVars, opVars, Types,
      TypeOK, Finishing, Places, Sentinels
<1>8. ASSUME NEW p \in Procs, RequireOpen(p) PROVE Types'
  <2>1. pc' \in [Procs -> Places] /\ err' \in [Procs -> SUBSET Sentinels]
    BY <1>8, ErrorTypes DEF RequireOpen, Goto, Exit, Types, TypeOK, Places
  <2> QED BY <2>1, <1>8, ProcFacts DEF RequireOpen, Goto, Exit, connVars, streamVars, ctxVars, opVars,
          Types, TypeOK, Finishing
<1>9. ASSUME NEW p \in Procs, LoadState(p) PROVE Types'
  BY <1>9, ProcFacts DEF LoadState, Goto, Exit, connVars, streamVars, ctxVars, opVars, Types, TypeOK,
      Finishing, Places, Sentinels
<1>10. ASSUME NEW p \in Procs, Check(p) PROVE Types'
  <2>1. pc' \in [Procs -> Places] /\ err' \in [Procs -> SUBSET Sentinels]
    BY <1>10, ErrorTypes DEF Check, Goto, Exit, Types, TypeOK, Places
  <2>2. \A q \in Writers : pc'[q] = "io" => len[q] <= MaxTSDU
    <3>1. SUFFICES ASSUME p \in Writers, localError(p) = nil PROVE len[p] <= MaxTSDU
      BY <1>10, ProcFacts DEF Check, Goto, Exit, Types, TypeOK
    <3>2. len[p] \in Nat /\ ctx[p] \in {"nil", "Canceled", "DeadlineExceeded"}
      BY DEF Types, TypeOK
    <3> QED BY <3>1, <3>2, SizesAssumption DEF localError, nil
  <2>3. \A q \in Closers : pc'[q] \in {"idle", "finish", "return"} \cup Finishing
    BY <1>10, ProcFacts DEF Check, Goto, Exit, Types, TypeOK, Finishing
  <2> QED BY <2>1, <2>2, <2>3, <1>10 DEF Check, connVars, streamVars, ctxVars, opVars, Types, TypeOK
<1>11. ASSUME NEW p \in Procs, Octets(p) PROVE Types'
  <2>1. p \in Movers
    BY <1>11 DEF Octets, Types, Finishing, Procs
  <2>2. owner' \in [Dirs -> Movers \cup {NoProc}] /\ moved' \in [Procs -> BOOLEAN]
    BY <1>11, <2>1, ProcFacts DEF Octets, Types, TypeOK
  <2> QED BY <2>2, <1>11 DEF Octets, connVars, streamVars, ctxVars, Types, TypeOK, Finishing
<1>12. ASSUME NEW p \in Procs, NEW pkt \in Packets, ReadPacket(p, pkt) PROVE Types'
  <2>1. pc' \in [Procs -> Places] /\ err' \in [Procs -> SUBSET Sentinels]
    BY <1>12, ErrorTypes DEF ReadPacket, Goto, Exit, Types, TypeOK, Places, nil
  <2>2. /\ done' \in [Procs -> 0 .. MaxTSDU]
        /\ segs' \in [Procs -> 0 .. MaxTSDU]
    <3>1. CASE segmentError(p, pkt) # nil
      BY <1>12, <3>1 DEF ReadPacket, Types, TypeOK
    <3>2. CASE segmentError(p, pkt) = nil
      <4>0. maxSegmentPayload \in Nat
        BY SizesAssumption DEF maxSegmentPayload, minNegotiatedTPDULength, minimalDTOverhead
      <4>1. done[p] \in Nat /\ segs[p] \in Nat /\ pkt.len \in Nat
        <5>1. pkt.len \in 0 .. maxSegmentPayload + 1 \/ pkt.len \in {0}
          BY DEF Packets
        <5> QED BY <4>0, <5>1 DEF Types, TypeOK
      <4>2. done[p] + pkt.len <= MaxTSDU /\ segs[p] + 1 <= MaxTSDU
        BY <3>2, <4>1, SizesAssumption DEF segmentError, nil
      <4>3. done[p] + pkt.len \in 0 .. MaxTSDU /\ segs[p] + 1 \in 0 .. MaxTSDU
        BY <4>1, <4>2, SizesAssumption
      <4> QED BY <1>12, <3>2, <4>3 DEF ReadPacket, Types, TypeOK
    <3> QED BY <3>1, <3>2
  <2> QED BY <2>1, <2>2, <1>12, ProcFacts DEF ReadPacket, Goto, Exit, connVars, streamVars, ctxVars,
      Types, TypeOK, Finishing
<1>13. ASSUME NEW p \in Procs, WritePacket(p) PROVE Types'
  <2>1. pc' \in [Procs -> Places] /\ err' \in [Procs -> SUBSET Sentinels]
    BY <1>13, ErrorTypes DEF WritePacket, Goto, Exit, Types, TypeOK, Places, nil
  <2>2. done' \in [Procs -> 0 .. MaxTSDU]
    <3>1. maxSegmentPayload \in Nat
      BY SizesAssumption DEF maxSegmentPayload, minNegotiatedTPDULength, minimalDTOverhead
    <3>2. len[p] \in Nat /\ done[p] \in Nat /\ len[p] <= MaxTSDU
      BY <1>13 DEF WritePacket, Types, TypeOK
    <3> QED BY <3>1, <3>2, <1>13, SizesAssumption DEF WritePacket, Types, TypeOK
  <2> QED BY <2>1, <2>2, <1>13, ProcFacts DEF WritePacket, Goto, Exit, connVars, streamVars, ctxVars,
      Types, TypeOK, Finishing
<1>14. ASSUME NEW p \in Procs, PacketFails(p) PROVE Types'
  BY <1>14, ProcFacts, ErrorTypes DEF PacketFails, Goto, connVars, streamVars, ctxVars, opVars,
      Types, TypeOK, Finishing, Places
<1>15. ASSUME NEW p \in Procs, Fail(p) PROVE Types'
  BY <1>15, ProcFacts DEF Fail, Goto, connVars, streamVars, ctxVars, opVars, Types, TypeOK,
      Finishing, Places
<1>16. ASSUME NEW p \in Procs, IdleTimeout(p) PROVE Types'
  BY <1>16, ProcFacts, ErrorTypes DEF IdleTimeout, Goto, Exit, connVars, streamVars, ctxVars, opVars,
      Types, TypeOK, Finishing, Places
<1>17. ASSUME NEW p \in Procs, Classify(p) PROVE Types'
  <2>1. pc' \in [Procs -> Places] /\ err' \in [Procs -> SUBSET Sentinels]
    BY <1>17, ErrorTypes DEF Classify, Goto, Exit, Types, TypeOK, Places
  <2> QED BY <2>1, <1>17, ProcFacts DEF Classify, Goto, Exit, connVars, streamVars, ctxVars, opVars,
          Types, TypeOK, Finishing
<1>18. ASSUME NEW p \in Procs, RecordCause(p) PROVE Types'
  BY <1>18, ProcFacts DEF RecordCause, Goto, streamVars, ctxVars, opVars, Types, TypeOK, Finishing,
      Places, Kind
<1>19. ASSUME NEW p \in Procs, AwaitOnce(p) PROVE Types'
  BY <1>19, ProcFacts DEF AwaitOnce, Goto, Exit, connVars, streamVars, ctxVars, opVars, Types,
      TypeOK, Finishing, Places
<1>20. ASSUME NEW p \in Procs, StoreState(p) PROVE Types'
  BY <1>20, ProcFacts DEF StoreState, Goto, streamVars, ctxVars, opVars, Types, TypeOK, Finishing,
      Places, Kind
<1>21. ASSUME NEW p \in Procs, CloseRaw(p) PROVE Types'
  BY <1>21, ProcFacts DEF CloseRaw, Goto, connVars, ctxVars, opVars, Types, TypeOK, Finishing,
      Places
<1>22. ASSUME NEW p \in Procs, releaseRef(p) PROVE Types'
  BY <1>22, ProcFacts DEF releaseRef, Goto, streamVars, ctxVars, opVars, Types, TypeOK, Finishing,
      Places
<1>23. ASSUME NEW p \in Procs, StoreClosed(p) PROVE Types'
  BY <1>23, ProcFacts DEF StoreClosed, Goto, Exit, streamVars, ctxVars, opVars, Types, TypeOK,
      Finishing, Places, Kind
<1>24. ASSUME NEW p \in Procs, Cancel(p) PROVE Types'
  BY <1>24, ProcFacts DEF Cancel, connVars, streamVars, opVars, Types, TypeOK, Finishing
<1>25. ASSUME NEW p \in Procs, DeadlinePasses(p) PROVE Types'
  BY <1>25, ProcFacts DEF DeadlinePasses, connVars, streamVars, opVars, Types, TypeOK, Finishing
<1>26. ASSUME NEW p \in Procs, CtxTimerFires(p) PROVE Types'
  BY <1>26, ProcFacts DEF CtxTimerFires, connVars, streamVars, opVars, Types, TypeOK, Finishing
<1>27. CASE NetChanges
  BY <1>27, ProcFacts, EnvironmentAssumption DEF NetChanges, connVars, ctxVars, opVars, Types,
      TypeOK, Finishing
<1> QED BY <1>1, <1>2, <1>3, <1>4, <1>5, <1>6, <1>7, <1>8, <1>9, <1>10, <1>11, <1>12, <1>13, <1>14,
      <1>15, <1>16, <1>17, <1>18, <1>19, <1>20, <1>21, <1>22, <1>23, <1>24, <1>25, <1>26, <1>27, NextCases

\* The end of the connection is one goroutine's, and happens in order.
LEMMA EndingStep == Types /\ Ending /\ [Next]_vars => Ending'
<1> SUFFICES ASSUME Types, Ending, [Next]_vars PROVE Ending'
  OBVIOUS
<1>1. CASE UNCHANGED vars
  BY <1>1 DEF vars, connVars, streamVars, ctxVars, opVars, Types, TypeOK, Ending, Finishing,
      RefOutlivesStream
<1>2. ASSUME NEW p \in Procs, CallMove(p) PROVE Ending'
  BY <1>2, ProcFacts DEF CallMove, Goto, connVars, streamVars, Types, TypeOK, Ending, Finishing,
      RefOutlivesStream
<1>3. ASSUME NEW p \in Procs, CallClose(p) PROVE Ending'
  BY <1>3, ProcFacts DEF CallClose, Goto, connVars, streamVars, ctxVars, opVars, Types, TypeOK,
      Ending, Finishing, RefOutlivesStream
<1>4. ASSUME NEW p \in Procs, Return(p) PROVE Ending'
  BY <1>4, ProcFacts DEF Return, Goto, connVars, streamVars, Types, TypeOK, Ending, Finishing,
      RefOutlivesStream
<1>5. ASSUME NEW p \in Procs, TryLock(p) PROVE Ending'
  BY <1>5, ProcFacts DEF TryLock, Goto, connVars, streamVars, ctxVars, opVars, Types, TypeOK, Ending,
      Finishing, RefOutlivesStream
<1>6. ASSUME NEW p \in Procs, AwaitLock(p) PROVE Ending'
  BY <1>6, ProcFacts DEF AwaitLock, Goto, connVars, streamVars, ctxVars, opVars, Types, TypeOK,
      Ending, Finishing, RefOutlivesStream
<1>7. ASSUME NEW p \in Procs, GiveUpLock(p) PROVE Ending'
  BY <1>7, ProcFacts DEF GiveUpLock, Goto, Exit, connVars, streamVars, ctxVars, opVars, Types,
      TypeOK, Ending, Finishing, RefOutlivesStream
<1>8. ASSUME NEW p \in Procs, RequireOpen(p) PROVE Ending'
  BY <1>8, ProcFacts DEF RequireOpen, Goto, Exit, connVars, streamVars, ctxVars, opVars, Types,
      TypeOK, Ending, Finishing, RefOutlivesStream
<1>9. ASSUME NEW p \in Procs, LoadState(p) PROVE Ending'
  BY <1>9, ProcFacts DEF LoadState, Goto, Exit, connVars, streamVars, ctxVars, opVars, Types, TypeOK,
      Ending, Finishing, RefOutlivesStream
<1>10. ASSUME NEW p \in Procs, Check(p) PROVE Ending'
  BY <1>10, ProcFacts DEF Check, Goto, Exit, connVars, streamVars, ctxVars, opVars, Types, TypeOK,
      Ending, Finishing, RefOutlivesStream
<1>11. ASSUME NEW p \in Procs, Octets(p) PROVE Ending'
  BY <1>11, ProcFacts DEF Octets, connVars, streamVars, ctxVars, Types, TypeOK, Ending, Finishing,
      RefOutlivesStream
<1>12. ASSUME NEW p \in Procs, NEW pkt \in Packets, ReadPacket(p, pkt) PROVE Ending'
  BY <1>12, ProcFacts DEF ReadPacket, Goto, Exit, connVars, streamVars, ctxVars, Types, TypeOK,
      Ending, Finishing, RefOutlivesStream
<1>13. ASSUME NEW p \in Procs, WritePacket(p) PROVE Ending'
  BY <1>13, ProcFacts DEF WritePacket, Goto, Exit, connVars, streamVars, ctxVars, Types, TypeOK,
      Ending, Finishing, RefOutlivesStream
<1>14. ASSUME NEW p \in Procs, PacketFails(p) PROVE Ending'
  BY <1>14, ProcFacts DEF PacketFails, Goto, connVars, streamVars, ctxVars, opVars, Types, TypeOK,
      Ending, Finishing, RefOutlivesStream
<1>15. ASSUME NEW p \in Procs, Fail(p) PROVE Ending'
  BY <1>15, ProcFacts DEF Fail, Goto, connVars, streamVars, ctxVars, opVars, Types, TypeOK, Ending,
      Finishing, RefOutlivesStream
<1>16. ASSUME NEW p \in Procs, IdleTimeout(p) PROVE Ending'
  BY <1>16, ProcFacts DEF IdleTimeout, Goto, Exit, connVars, streamVars, ctxVars, opVars, Types,
      TypeOK, Ending, Finishing, RefOutlivesStream
<1>17. ASSUME NEW p \in Procs, Classify(p) PROVE Ending'
  BY <1>17, ProcFacts DEF Classify, Goto, Exit, connVars, streamVars, ctxVars, opVars, Types, TypeOK,
      Ending, Finishing, RefOutlivesStream
<1>18. ASSUME NEW p \in Procs, RecordCause(p) PROVE Ending'
  BY <1>18, ProcFacts DEF RecordCause, Goto, streamVars, ctxVars, opVars, Types, TypeOK, Ending,
      Finishing, RefOutlivesStream, Kind
<1>19. ASSUME NEW p \in Procs, AwaitOnce(p) PROVE Ending'
  BY <1>19, ProcFacts DEF AwaitOnce, Goto, Exit, connVars, streamVars, ctxVars, opVars, Types,
      TypeOK, Ending, Finishing, RefOutlivesStream, Kind
<1>20. ASSUME NEW p \in Procs, StoreState(p) PROVE Ending'
  BY <1>20, ProcFacts DEF StoreState, Goto, streamVars, ctxVars, opVars, Types, TypeOK, Ending,
      Finishing, RefOutlivesStream, Kind
<1>21. ASSUME NEW p \in Procs, CloseRaw(p) PROVE Ending'
  BY <1>21, ProcFacts DEF CloseRaw, Goto, connVars, ctxVars, opVars, Types, TypeOK, Ending,
      Finishing, RefOutlivesStream, Kind
<1>22. ASSUME NEW p \in Procs, releaseRef(p) PROVE Ending'
  BY <1>22, ProcFacts DEF releaseRef, Goto, streamVars, ctxVars, opVars, Types, TypeOK, Ending,
      Finishing, RefOutlivesStream, Kind
<1>23. ASSUME NEW p \in Procs, StoreClosed(p) PROVE Ending'
  BY <1>23, ProcFacts DEF StoreClosed, Goto, Exit, streamVars, ctxVars, opVars, Types, TypeOK,
      Ending, Finishing, RefOutlivesStream, Kind
<1>24. ASSUME NEW p \in Procs, Cancel(p) PROVE Ending'
  BY <1>24, ProcFacts DEF Cancel, connVars, streamVars, opVars, Types, TypeOK, Ending, Finishing,
      RefOutlivesStream
<1>25. ASSUME NEW p \in Procs, DeadlinePasses(p) PROVE Ending'
  BY <1>25, ProcFacts DEF DeadlinePasses, connVars, streamVars, opVars, Types, TypeOK, Ending,
      Finishing, RefOutlivesStream
<1>26. ASSUME NEW p \in Procs, CtxTimerFires(p) PROVE Ending'
  BY <1>26, ProcFacts DEF CtxTimerFires, connVars, streamVars, opVars, Types, TypeOK, Ending,
      Finishing, RefOutlivesStream
<1>27. CASE NetChanges
  BY <1>27, ProcFacts DEF NetChanges, connVars, ctxVars, opVars, Types, TypeOK, Ending, Finishing,
      RefOutlivesStream
<1> QED BY <1>1, <1>2, <1>3, <1>4, <1>5, <1>6, <1>7, <1>8, <1>9, <1>10, <1>11, <1>12, <1>13, <1>14,
      <1>15, <1>16, <1>17, <1>18, <1>19, <1>20, <1>21, <1>22, <1>23, <1>24, <1>25, <1>26, <1>27, NextCases

\* Only the holder of a direction moves octets in it, and it leaves half a TSDU
\* behind only with a cause.
LEMMA BoundaryStep == Types /\ Locks /\ Ending /\ Boundary /\ [Next]_vars => Boundary'
<1> SUFFICES ASSUME Types, Locks, Ending, Boundary, [Next]_vars PROVE Boundary'
  OBVIOUS
<1>1. CASE UNCHANGED vars
  BY <1>1 DEF vars, connVars, streamVars, ctxVars, opVars, Types, TypeOK, Locks, Inside, Ending,
      Boundary, Finishing, StreamAtBoundary
<1>2. ASSUME NEW p \in Procs, CallMove(p) PROVE Boundary'
  BY <1>2, ProcFacts DEF CallMove, Goto, connVars, streamVars, Types, TypeOK, Locks, Inside, Ending,
      Boundary, Finishing, StreamAtBoundary
<1>3. ASSUME NEW p \in Procs, CallClose(p) PROVE Boundary'
  BY <1>3, ProcFacts DEF CallClose, Goto, connVars, streamVars, ctxVars, opVars, Types, TypeOK,
      Locks, Inside, Ending, Boundary, Finishing, StreamAtBoundary
<1>4. ASSUME NEW p \in Procs, Return(p) PROVE Boundary'
  BY <1>4, ProcFacts DEF Return, Goto, connVars, streamVars, Types, TypeOK, Locks, Inside, Ending,
      Boundary, Finishing, StreamAtBoundary
<1>5. ASSUME NEW p \in Procs, TryLock(p) PROVE Boundary'
  BY <1>5, ProcFacts DEF TryLock, Goto, connVars, streamVars, ctxVars, opVars, Types, TypeOK, Locks,
      Inside, Ending, Boundary, Finishing, StreamAtBoundary
<1>6. ASSUME NEW p \in Procs, AwaitLock(p) PROVE Boundary'
  BY <1>6, ProcFacts DEF AwaitLock, Goto, connVars, streamVars, ctxVars, opVars, Types, TypeOK,
      Locks, Inside, Ending, Boundary, Finishing, StreamAtBoundary
<1>7. ASSUME NEW p \in Procs, GiveUpLock(p) PROVE Boundary'
  BY <1>7, ProcFacts DEF GiveUpLock, Goto, Exit, connVars, streamVars, ctxVars, opVars, Types,
      TypeOK, Locks, Inside, Ending, Boundary, Finishing, StreamAtBoundary
<1>8. ASSUME NEW p \in Procs, RequireOpen(p) PROVE Boundary'
  BY <1>8, ProcFacts DEF RequireOpen, Goto, Exit, connVars, streamVars, ctxVars, opVars, Types,
      TypeOK, Locks, Inside, Ending, Boundary, Finishing, StreamAtBoundary
<1>9. ASSUME NEW p \in Procs, LoadState(p) PROVE Boundary'
  BY <1>9, ProcFacts DEF LoadState, Goto, Exit, connVars, streamVars, ctxVars, opVars, Types, TypeOK,
      Locks, Inside, Ending, Boundary, Finishing, StreamAtBoundary
<1>10. ASSUME NEW p \in Procs, Check(p) PROVE Boundary'
  BY <1>10, ProcFacts DEF Check, Goto, Exit, connVars, streamVars, ctxVars, opVars, Types, TypeOK,
      Locks, Inside, Ending, Boundary, Finishing, StreamAtBoundary
<1>11. ASSUME NEW p \in Procs, Octets(p) PROVE Boundary'
  <2>1. p \in Movers /\ Dir(p) \in Dirs /\ pc[p] = "io" /\ mu[Dir(p)] = p
    BY <1>11, ProcFacts DEF Octets, Types, Finishing, Procs, Locks, Inside
  <2>2. \A q \in Movers : pc[q] \in Inside /\ q # p => Dir(q) # Dir(p)
    BY <2>1 DEF Locks
  <2>3. moved' = [moved EXCEPT ![p] = TRUE]
    BY <1>11, <2>1, <2>2 DEF Octets, Types, TypeOK, Inside
  <2>4. /\ owner' = [owner EXCEPT ![Dir(p)] = p]
        /\ UNCHANGED <<pc, mu, termKind>>
    BY <1>11 DEF Octets, connVars
  <2> QED BY <2>1, <2>2, <2>3, <2>4, ProcFacts DEF Types, TypeOK, Inside, Boundary, StreamAtBoundary
<1>12. ASSUME NEW p \in Procs, NEW pkt \in Packets, ReadPacket(p, pkt) PROVE Boundary'
  <2>1. /\ p \in Movers /\ Dir(p) = "read" /\ mu["read"] = p
        /\ \A q \in Movers : pc[q] \in Inside /\ q # p => Dir(q) # "read"
    BY <1>12, ProcFacts DEF ReadPacket, Locks, Inside
  <2>2. pc[p] = "io" /\ UNCHANGED <<termKind, mu, moved>>
    BY <1>12 DEF ReadPacket, connVars
  <2>3. CASE /\ pc' = [pc EXCEPT ![p] = "return"]
             /\ owner' = [owner EXCEPT !["read"] = NoProc]
    BY <2>1, <2>2, <2>3, ProcFacts DEF Types, TypeOK, Locks, Inside, Boundary, StreamAtBoundary, Dirs
  <2>4. CASE pc' = [pc EXCEPT ![p] = "finish"] /\ owner' = owner
    BY <2>1, <2>2, <2>4, ProcFacts DEF Types, TypeOK, Inside, Boundary, StreamAtBoundary, Dirs
  <2>5. CASE pc' = pc /\ owner' = owner
    BY <2>1, <2>2, <2>5 DEF Boundary, StreamAtBoundary
  <2> QED BY <1>12, <2>3, <2>4, <2>5 DEF ReadPacket, Goto, Exit
<1>13. ASSUME NEW p \in Procs, WritePacket(p) PROVE Boundary'
  <2>1. /\ p \in Movers /\ Dir(p) = "write" /\ mu["write"] = p
        /\ \A q \in Movers : pc[q] \in Inside /\ q # p => Dir(q) # "write"
    BY <1>13, ProcFacts DEF WritePacket, Locks, Inside
  <2>2. pc[p] = "io" /\ UNCHANGED <<termKind, mu, moved>>
    BY <1>13 DEF WritePacket, connVars
  <2>3. CASE /\ pc' = [pc EXCEPT ![p] = "return"]
             /\ owner' = [owner EXCEPT !["write"] = NoProc]
    BY <2>1, <2>2, <2>3, ProcFacts DEF Types, TypeOK, Locks, Inside, Boundary, StreamAtBoundary, Dirs
  <2>4. CASE pc' = pc /\ owner' = owner
    BY <2>1, <2>2, <2>4 DEF Boundary, StreamAtBoundary
  <2> QED BY <1>13, <2>3, <2>4 DEF WritePacket, Goto, Exit
<1>14. ASSUME NEW p \in Procs, PacketFails(p) PROVE Boundary'
  BY <1>14, ProcFacts DEF PacketFails, Goto, connVars, streamVars, ctxVars, opVars, Types, TypeOK,
      Locks, Inside, Ending, Boundary, Finishing, StreamAtBoundary
<1>15. ASSUME NEW p \in Procs, Fail(p) PROVE Boundary'
  BY <1>15, ProcFacts DEF Fail, Goto, connVars, streamVars, ctxVars, opVars, Types, TypeOK, Locks,
      Inside, Ending, Boundary, Finishing, StreamAtBoundary
<1>16. ASSUME NEW p \in Procs, IdleTimeout(p) PROVE Boundary'
  BY <1>16, ProcFacts DEF IdleTimeout, Goto, Exit, connVars, streamVars, ctxVars, opVars, Types,
      TypeOK, Locks, Inside, Ending, Boundary, Finishing, StreamAtBoundary
<1>17. ASSUME NEW p \in Procs, Classify(p) PROVE Boundary'
  BY <1>17, ProcFacts DEF Classify, Goto, Exit, connVars, streamVars, ctxVars, opVars, Types, TypeOK,
      Locks, Inside, Ending, Boundary, Finishing, StreamAtBoundary
<1>18. ASSUME NEW p \in Procs, RecordCause(p) PROVE Boundary'
  BY <1>18, ProcFacts DEF RecordCause, Goto, streamVars, ctxVars, opVars, Types, TypeOK, Locks,
      Inside, Ending, Boundary, Finishing, StreamAtBoundary, Kind
<1>19. ASSUME NEW p \in Procs, AwaitOnce(p) PROVE Boundary'
  BY <1>19, ProcFacts DEF AwaitOnce, Goto, Exit, connVars, streamVars, ctxVars, opVars, Types,
      TypeOK, Locks, Inside, Ending, Boundary, Finishing, StreamAtBoundary
<1>20. ASSUME NEW p \in Procs, StoreState(p) PROVE Boundary'
  BY <1>20, ProcFacts DEF StoreState, Goto, streamVars, ctxVars, opVars, Types, TypeOK, Locks,
      Inside, Ending, Boundary, Finishing, StreamAtBoundary
<1>21. ASSUME NEW p \in Procs, CloseRaw(p) PROVE Boundary'
  BY <1>21, ProcFacts DEF CloseRaw, Goto, connVars, ctxVars, opVars, Types, TypeOK, Locks, Inside,
      Ending, Boundary, Finishing, StreamAtBoundary
<1>22. ASSUME NEW p \in Procs, releaseRef(p) PROVE Boundary'
  BY <1>22, ProcFacts DEF releaseRef, Goto, streamVars, ctxVars, opVars, Types, TypeOK, Locks,
      Inside, Ending, Boundary, Finishing, StreamAtBoundary
<1>23. ASSUME NEW p \in Procs, StoreClosed(p) PROVE Boundary'
  BY <1>23, ProcFacts DEF StoreClosed, Goto, Exit, streamVars, ctxVars, opVars, Types, TypeOK, Locks,
      Inside, Ending, Boundary, Finishing, StreamAtBoundary
<1>24. ASSUME NEW p \in Procs, Cancel(p) PROVE Boundary'
  BY <1>24, ProcFacts DEF Cancel, connVars, streamVars, opVars, Types, TypeOK, Locks, Inside, Ending,
      Boundary, Finishing, StreamAtBoundary
<1>25. ASSUME NEW p \in Procs, DeadlinePasses(p) PROVE Boundary'
  BY <1>25, ProcFacts DEF DeadlinePasses, connVars, streamVars, opVars, Types, TypeOK, Locks, Inside,
      Ending, Boundary, Finishing, StreamAtBoundary
<1>26. ASSUME NEW p \in Procs, CtxTimerFires(p) PROVE Boundary'
  BY <1>26, ProcFacts DEF CtxTimerFires, connVars, streamVars, opVars, Types, TypeOK, Locks, Inside,
      Ending, Boundary, Finishing, StreamAtBoundary
<1>27. CASE NetChanges
  BY <1>27, ProcFacts DEF NetChanges, connVars, ctxVars, opVars, Types, TypeOK, Locks, Inside,
      Ending, Boundary, Finishing, StreamAtBoundary
<1> QED BY <1>1, <1>2, <1>3, <1>4, <1>5, <1>6, <1>7, <1>8, <1>9, <1>10, <1>11, <1>12, <1>13, <1>14,
      <1>15, <1>16, <1>17, <1>18, <1>19, <1>20, <1>21, <1>22, <1>23, <1>24, <1>25, <1>26, <1>27, NextCases

\* A cause that the error path hands to abort is not a bare context error.
LEMMA CausesAreNotBare ==
  ASSUME TypeOK, NEW p \in Procs
  PROVE  /\ \A e \in RawErrors : classifyIOPhase(p, e) \notin CtxErrors
         /\ \A pkt \in Packets : segmentError(p, pkt) # nil =>
              abortOpen(p, segmentError(p, pkt)) \notin CtxErrors
         /\ localError(p) \in CtxErrors \cup LocalErrors \cup {nil}
         /\ ctxDoneErr(p) \in CtxErrors \cup {nil}
         /\ nil \notin CtxErrors /\ {"ErrClosed"} \notin CtxErrors
<1>1. ctx[p] \in {"nil", "Canceled", "DeadlineExceeded"}
  BY DEF TypeOK
<1>2. ASSUME NEW e \in RawErrors PROVE classifyIOPhase(p, e) \notin CtxErrors
  BY <1>1 DEF RawErrors, classifyIOPhase, abortOpen, DisconnectError, CtxErrors
<1>3. ASSUME NEW pkt \in Packets, segmentError(p, pkt) # nil
      PROVE  abortOpen(p, segmentError(p, pkt)) \notin CtxErrors
  BY <1>3 DEF segmentError, decodeOpenDT, unexpectedOpenTPDU, DisconnectError, abortOpen, CtxErrors, nil
<1>4. localError(p) \in CtxErrors \cup LocalErrors \cup {nil}
  BY <1>1 DEF localError, CtxErrors, LocalErrors
<1>5. ctxDoneErr(p) \in CtxErrors \cup {nil}
  BY <1>1 DEF ctxDoneErr, CtxErrors
<1>6. nil \notin CtxErrors /\ {"ErrClosed"} \notin CtxErrors
  BY DEF CtxErrors, nil
<1> QED BY <1>2, <1>3, <1>4, <1>5, <1>6

\* A context error is returned before the first octet or as part of a cause.
LEMMA VerdictsStep == Types /\ Locks /\ Ending /\ Boundary /\ Verdicts /\ [Next]_vars => Verdicts'
<1> SUFFICES ASSUME Types, Locks, Ending, Boundary, Verdicts, [Next]_vars PROVE Verdicts'
  OBVIOUS
<1>1. CASE UNCHANGED vars
  BY <1>1 DEF vars, connVars, streamVars, ctxVars, opVars, Types, TypeOK, Boundary, Finishing,
      Verdicts, CtxErrorMeansNothingMoved
<1>2. ASSUME NEW p \in Procs, CallMove(p) PROVE Verdicts'
  BY <1>2, ProcFacts DEF CallMove, Goto, connVars, streamVars, Types, TypeOK, Boundary, Finishing,
      Verdicts, CtxErrorMeansNothingMoved
<1>3. ASSUME NEW p \in Procs, CallClose(p) PROVE Verdicts'
  BY <1>3, ProcFacts, CausesAreNotBare DEF CallClose, Goto, connVars, streamVars, ctxVars, opVars,
      Types, TypeOK, Boundary, Finishing, Verdicts, CtxErrorMeansNothingMoved
<1>4. ASSUME NEW p \in Procs, Return(p) PROVE Verdicts'
  BY <1>4, ProcFacts DEF Return, Goto, connVars, streamVars, Types, TypeOK, Boundary, Finishing,
      Verdicts, CtxErrorMeansNothingMoved
<1>5. ASSUME NEW p \in Procs, TryLock(p) PROVE Verdicts'
  BY <1>5, ProcFacts DEF TryLock, Goto, connVars, streamVars, ctxVars, opVars, Types, TypeOK,
      Boundary, Finishing, Verdicts, CtxErrorMeansNothingMoved
<1>6. ASSUME NEW p \in Procs, AwaitLock(p) PROVE Verdicts'
  BY <1>6, ProcFacts DEF AwaitLock, Goto, connVars, streamVars, ctxVars, opVars, Types, TypeOK,
      Boundary, Finishing, Verdicts, CtxErrorMeansNothingMoved
<1>7. ASSUME NEW p \in Procs, GiveUpLock(p) PROVE Verdicts'
  BY <1>7, ProcFacts DEF GiveUpLock, Goto, Exit, connVars, streamVars, ctxVars, opVars, Types,
      TypeOK, Boundary, Finishing, Verdicts, CtxErrorMeansNothingMoved
<1>8. ASSUME NEW p \in Procs, RequireOpen(p) PROVE Verdicts'
  BY <1>8, ProcFacts DEF RequireOpen, Goto, Exit, connVars, streamVars, ctxVars, opVars, Types,
      TypeOK, Boundary, Finishing, Verdicts, CtxErrorMeansNothingMoved
<1>9. ASSUME NEW p \in Procs, LoadState(p) PROVE Verdicts'
  BY <1>9, ProcFacts, CausesAreNotBare DEF LoadState, Goto, Exit, connVars, streamVars, ctxVars,
      opVars, Types, TypeOK, Boundary, Finishing, Verdicts, CtxErrorMeansNothingMoved
<1>10. ASSUME NEW p \in Procs, Check(p) PROVE Verdicts'
  BY <1>10, ProcFacts DEF Check, Goto, Exit, connVars, streamVars, ctxVars, opVars, Types, TypeOK,
      Boundary, Finishing, Verdicts, CtxErrorMeansNothingMoved
<1>11. ASSUME NEW p \in Procs, Octets(p) PROVE Verdicts'
  BY <1>11, ProcFacts DEF Octets, connVars, streamVars, ctxVars, Types, TypeOK, Boundary, Finishing,
      Verdicts, CtxErrorMeansNothingMoved
<1>12. ASSUME NEW p \in Procs, NEW pkt \in Packets, ReadPacket(p, pkt) PROVE Verdicts'
  BY <1>12, ProcFacts, CausesAreNotBare DEF ReadPacket, Goto, Exit, connVars, streamVars, ctxVars,
      Types, TypeOK, Boundary, Finishing, Verdicts, CtxErrorMeansNothingMoved
<1>13. ASSUME NEW p \in Procs, WritePacket(p) PROVE Verdicts'
  BY <1>13, ProcFacts, CausesAreNotBare DEF WritePacket, Goto, Exit, connVars, streamVars, ctxVars,
      Types, TypeOK, Boundary, Finishing, Verdicts, CtxErrorMeansNothingMoved
<1>14. ASSUME NEW p \in Procs, PacketFails(p) PROVE Verdicts'
  BY <1>14, ProcFacts, ErrorTypes DEF PacketFails, Goto, connVars, streamVars, ctxVars, opVars,
      Types, TypeOK, Boundary, Finishing, Verdicts, CtxErrorMeansNothingMoved
<1>15. ASSUME NEW p \in Procs, Fail(p) PROVE Verdicts'
  BY <1>15, ProcFacts DEF Fail, Goto, connVars, streamVars, ctxVars, opVars, Types, TypeOK, Boundary,
      Finishing, Verdicts, CtxErrorMeansNothingMoved
<1>16. ASSUME NEW p \in Procs, IdleTimeout(p) PROVE Verdicts'
  BY <1>16, ProcFacts DEF IdleTimeout, Goto, Exit, connVars, streamVars, ctxVars, opVars, Types,
      TypeOK, Boundary, Finishing, Verdicts, CtxErrorMeansNothingMoved
<1>17. ASSUME NEW p \in Procs, Classify(p) PROVE Verdicts'
  BY <1>17, ProcFacts, CausesAreNotBare DEF Classify, Goto, Exit, connVars, streamVars, ctxVars,
      opVars, Types, TypeOK, Boundary, Finishing, Verdicts, CtxErrorMeansNothingMoved
<1>18. ASSUME NEW p \in Procs, RecordCause(p) PROVE Verdicts'
  BY <1>18, ProcFacts DEF RecordCause, Goto, streamVars, ctxVars, opVars, Types, TypeOK, Boundary,
      Finishing, Verdicts, CtxErrorMeansNothingMoved
<1>19. ASSUME NEW p \in Procs, AwaitOnce(p) PROVE Verdicts'
  BY <1>19, ProcFacts DEF AwaitOnce, Goto, Exit, connVars, streamVars, ctxVars, opVars, Types,
      TypeOK, Boundary, Finishing, Verdicts, CtxErrorMeansNothingMoved
<1>20. ASSUME NEW p \in Procs, StoreState(p) PROVE Verdicts'
  BY <1>20, ProcFacts DEF StoreState, Goto, streamVars, ctxVars, opVars, Types, TypeOK, Boundary,
      Finishing, Verdicts, CtxErrorMeansNothingMoved
<1>21. ASSUME NEW p \in Procs, CloseRaw(p) PROVE Verdicts'
  BY <1>21, ProcFacts DEF CloseRaw, Goto, connVars, ctxVars, opVars, Types, TypeOK, Boundary,
      Finishing, Verdicts, CtxErrorMeansNothingMoved
<1>22. ASSUME NEW p \in Procs, releaseRef(p) PROVE Verdicts'
  BY <1>22, ProcFacts DEF releaseRef, Goto, streamVars, ctxVars, opVars, Types, TypeOK, Boundary,
      Finishing, Verdicts, CtxErrorMeansNothingMoved
<1>23. ASSUME NEW p \in Procs, StoreClosed(p) PROVE Verdicts'
  BY <1>23, ProcFacts DEF StoreClosed, Goto, Exit, streamVars, ctxVars, opVars, Types, TypeOK,
      Boundary, Finishing, Verdicts, CtxErrorMeansNothingMoved
<1>24. ASSUME NEW p \in Procs, Cancel(p) PROVE Verdicts'
  BY <1>24, ProcFacts DEF Cancel, connVars, streamVars, opVars, Types, TypeOK, Boundary, Finishing,
      Verdicts, CtxErrorMeansNothingMoved
<1>25. ASSUME NEW p \in Procs, DeadlinePasses(p) PROVE Verdicts'
  BY <1>25, ProcFacts DEF DeadlinePasses, connVars, streamVars, opVars, Types, TypeOK, Boundary,
      Finishing, Verdicts, CtxErrorMeansNothingMoved
<1>26. ASSUME NEW p \in Procs, CtxTimerFires(p) PROVE Verdicts'
  BY <1>26, ProcFacts DEF CtxTimerFires, connVars, streamVars, opVars, Types, TypeOK, Boundary,
      Finishing, Verdicts, CtxErrorMeansNothingMoved
<1>27. CASE NetChanges
  BY <1>27, ProcFacts DEF NetChanges, connVars, ctxVars, opVars, Types, TypeOK, Boundary, Finishing,
      Verdicts, CtxErrorMeansNothingMoved
<1> QED BY <1>1, <1>2, <1>3, <1>4, <1>5, <1>6, <1>7, <1>8, <1>9, <1>10, <1>11, <1>12, <1>13, <1>14,
      <1>15, <1>16, <1>17, <1>18, <1>19, <1>20, <1>21, <1>22, <1>23, <1>24, <1>25, <1>26, <1>27, NextCases

\* A call that began after the cause was recorded returns nothing else.
LEMMA ReportsStep == Types /\ Ending /\ Reports /\ [Next]_vars => Reports'
<1> SUFFICES ASSUME Types, Ending, Reports, [Next]_vars PROVE Reports'
  OBVIOUS
<1>1. CASE UNCHANGED vars
  BY <1>1 DEF vars, connVars, streamVars, ctxVars, opVars, Types, TypeOK, Ending, Reports,
      ReturnsRecordedCause
<1>2. ASSUME NEW p \in Procs, CallMove(p) PROVE Reports'
  BY <1>2, ProcFacts DEF CallMove, Goto, connVars, streamVars, Types, TypeOK, Ending, Reports,
      ReturnsRecordedCause
<1>3. ASSUME NEW p \in Procs, CallClose(p) PROVE Reports'
  BY <1>3, ProcFacts DEF CallClose, Goto, connVars, streamVars, ctxVars, opVars, Types, TypeOK,
      Ending, Reports, ReturnsRecordedCause
<1>4. ASSUME NEW p \in Procs, Return(p) PROVE Reports'
  BY <1>4, ProcFacts DEF Return, Goto, connVars, streamVars, Types, TypeOK, Ending, Reports,
      ReturnsRecordedCause
<1>5. ASSUME NEW p \in Procs, TryLock(p) PROVE Reports'
  BY <1>5, ProcFacts DEF TryLock, Goto, connVars, streamVars, ctxVars, opVars, Types, TypeOK, Ending,
      Reports, ReturnsRecordedCause
<1>6. ASSUME NEW p \in Procs, AwaitLock(p) PROVE Reports'
  BY <1>6, ProcFacts DEF AwaitLock, Goto, connVars, streamVars, ctxVars, opVars, Types, TypeOK,
      Ending, Reports, ReturnsRecordedCause
<1>7. ASSUME NEW p \in Procs, GiveUpLock(p) PROVE Reports'
  <2>1. {ctx[p]} \in CtxErrors
    BY <1>7 DEF GiveUpLock, Types, TypeOK, CtxErrors
  <2> QED BY <1>7, <2>1 DEF GiveUpLock, Goto, Exit, connVars, Types, TypeOK, Reports, ReturnsRecordedCause
<1>8. ASSUME NEW p \in Procs, RequireOpen(p) PROVE Reports'
  BY <1>8, ProcFacts DEF RequireOpen, Goto, Exit, connVars, streamVars, ctxVars, opVars, Types,
      TypeOK, Ending, Reports, ReturnsRecordedCause
<1>9. ASSUME NEW p \in Procs, LoadState(p) PROVE Reports'
  BY <1>9, ProcFacts DEF LoadState, Goto, Exit, connVars, streamVars, ctxVars, opVars, Types, TypeOK,
      Ending, Reports, ReturnsRecordedCause
<1>10. ASSUME NEW p \in Procs, Check(p) PROVE Reports'
  BY <1>10, ProcFacts, CausesAreNotBare DEF Check, Goto, Exit, connVars, streamVars, ctxVars, opVars,
      Types, TypeOK, Ending, Reports, ReturnsRecordedCause
<1>11. ASSUME NEW p \in Procs, Octets(p) PROVE Reports'
  BY <1>11, ProcFacts DEF Octets, connVars, streamVars, ctxVars, Types, TypeOK, Ending, Reports,
      ReturnsRecordedCause
<1>12. ASSUME NEW p \in Procs, NEW pkt \in Packets, ReadPacket(p, pkt) PROVE Reports'
  BY <1>12, ProcFacts DEF ReadPacket, Goto, Exit, connVars, streamVars, ctxVars, Types, TypeOK,
      Ending, Reports, ReturnsRecordedCause
<1>13. ASSUME NEW p \in Procs, WritePacket(p) PROVE Reports'
  BY <1>13, ProcFacts DEF WritePacket, Goto, Exit, connVars, streamVars, ctxVars, Types, TypeOK,
      Ending, Reports, ReturnsRecordedCause
<1>14. ASSUME NEW p \in Procs, PacketFails(p) PROVE Reports'
  BY <1>14, ProcFacts DEF PacketFails, Goto, connVars, streamVars, ctxVars, opVars, Types, TypeOK,
      Ending, Reports, ReturnsRecordedCause
<1>15. ASSUME NEW p \in Procs, Fail(p) PROVE Reports'
  BY <1>15, ProcFacts DEF Fail, Goto, connVars, streamVars, ctxVars, opVars, Types, TypeOK, Ending,
      Reports, ReturnsRecordedCause
<1>16. ASSUME NEW p \in Procs, IdleTimeout(p) PROVE Reports'
  BY <1>16, ProcFacts, CausesAreNotBare DEF IdleTimeout, Goto, Exit, connVars, streamVars, ctxVars,
      opVars, Types, TypeOK, Ending, Reports, ReturnsRecordedCause
<1>17. ASSUME NEW p \in Procs, Classify(p) PROVE Reports'
  BY <1>17, ProcFacts DEF Classify, Goto, Exit, connVars, streamVars, ctxVars, opVars, Types, TypeOK,
      Ending, Reports, ReturnsRecordedCause
<1>18. ASSUME NEW p \in Procs, RecordCause(p) PROVE Reports'
  <2>1. termKind = "none" /\ termErr = nil
    BY <1>18 DEF RecordCause, Ending, Reports
  <2>2. \A q \in Procs : ~late[q]
    BY <2>1 DEF Reports, Types, TypeOK
  <2>3. \A q \in Procs : pc[q] = "return" => err[q] \in {nil, {"ErrClosed"}} \cup CtxErrors \cup LocalErrors
    BY <2>1, <2>2 DEF Reports, ReturnsRecordedCause
  <2>4. termKind' # "none"
    BY <1>18 DEF RecordCause, Kind
  <2>5. \A q \in Procs : pc'[q] = "return" => pc[q] = "return"
    BY <1>18 DEF RecordCause, Goto, Types, TypeOK
  <2> QED BY <1>18, <2>2, <2>3, <2>4, <2>5 DEF RecordCause, Reports, ReturnsRecordedCause
<1>19. ASSUME NEW p \in Procs, AwaitOnce(p) PROVE Reports'
  BY <1>19, ProcFacts DEF AwaitOnce, Goto, Exit, connVars, streamVars, ctxVars, opVars, Types,
      TypeOK, Ending, Reports, ReturnsRecordedCause
<1>20. ASSUME NEW p \in Procs, StoreState(p) PROVE Reports'
  BY <1>20, ProcFacts DEF StoreState, Goto, streamVars, ctxVars, opVars, Types, TypeOK, Ending,
      Reports, ReturnsRecordedCause, Finishing
<1>21. ASSUME NEW p \in Procs, CloseRaw(p) PROVE Reports'
  BY <1>21, ProcFacts DEF CloseRaw, Goto, connVars, ctxVars, opVars, Types, TypeOK, Ending, Reports,
      ReturnsRecordedCause, Finishing
<1>22. ASSUME NEW p \in Procs, releaseRef(p) PROVE Reports'
  BY <1>22, ProcFacts DEF releaseRef, Goto, streamVars, ctxVars, opVars, Types, TypeOK, Ending,
      Reports, ReturnsRecordedCause, Finishing
<1>23. ASSUME NEW p \in Procs, StoreClosed(p) PROVE Reports'
  BY <1>23, ProcFacts DEF StoreClosed, Goto, Exit, streamVars, ctxVars, opVars, Types, TypeOK,
      Ending, Reports, ReturnsRecordedCause, Finishing
<1>24. ASSUME NEW p \in Procs, Cancel(p) PROVE Reports'
  BY <1>24, ProcFacts DEF Cancel, connVars, streamVars, opVars, Types, TypeOK, Ending, Reports,
      ReturnsRecordedCause
<1>25. ASSUME NEW p \in Procs, DeadlinePasses(p) PROVE Reports'
  BY <1>25, ProcFacts DEF DeadlinePasses, connVars, streamVars, opVars, Types, TypeOK, Ending,
      Reports, ReturnsRecordedCause
<1>26. ASSUME NEW p \in Procs, CtxTimerFires(p) PROVE Reports'
  BY <1>26, ProcFacts DEF CtxTimerFires, connVars, streamVars, opVars, Types, TypeOK, Ending,
      Reports, ReturnsRecordedCause
<1>27. CASE NetChanges
  BY <1>27, ProcFacts DEF NetChanges, connVars, ctxVars, opVars, Types, TypeOK, Ending, Reports,
      ReturnsRecordedCause
<1> QED BY <1>1, <1>2, <1>3, <1>4, <1>5, <1>6, <1>7, <1>8, <1>9, <1>10, <1>11, <1>12, <1>13, <1>14,
      <1>15, <1>16, <1>17, <1>18, <1>19, <1>20, <1>21, <1>22, <1>23, <1>24, <1>25, <1>26, <1>27, NextCases

\* Where ErrDisconnected comes from on the error path.
LEMMA WhoDisconnects ==
  ASSUME TypeOK, NEW p \in Procs
  PROVE  /\ \A pkt \in Packets : "ErrDisconnected" \in abortOpen(p, segmentError(p, pkt)) =>
              "ErrUnexpectedTPDU" \in abortOpen(p, segmentError(p, pkt))
         /\ \A e \in RawErrors :
              /\ e # {"net.ErrClosed"}
              /\ e = {"timeout"} => DeadlineHit(p)
              /\ "ErrDisconnected" \in classifyIOPhase(p, e)
              => e \cap {"EOF", "ErrUnexpectedEOF", "ECONNRESET", "ETIMEDOUT", "EIO"} # {}
         /\ \A e \in StreamErrors(p) :
              /\ e \cap {"EOF", "ErrUnexpectedEOF", "ECONNRESET", "ETIMEDOUT", "EIO"} # {} => net # "up"
              /\ e = {"net.ErrClosed"} => ~rawOpen
              /\ e = {"timeout"} => DeadlineHit(p)
<1>1. ASSUME NEW pkt \in Packets, "ErrDisconnected" \in abortOpen(p, segmentError(p, pkt))
      PROVE  "ErrUnexpectedTPDU" \in abortOpen(p, segmentError(p, pkt))
  BY <1>1 DEF abortOpen, segmentError, decodeOpenDT, unexpectedOpenTPDU, DisconnectError, nil
<1>2. ASSUME NEW e \in RawErrors, e # {"net.ErrClosed"}, e = {"timeout"} => DeadlineHit(p),
             "ErrDisconnected" \in classifyIOPhase(p, e)
      PROVE  e \cap {"EOF", "ErrUnexpectedEOF", "ECONNRESET", "ETIMEDOUT", "EIO"} # {}
  <2>1. CASE e = {"timeout"}
    BY <1>2, <2>1 DEF classifyIOPhase, DeadlineHit, isTimeout, TypeOK
  <2>2. CASE e = {"tpkt"}
    BY <1>2, <2>2 DEF classifyIOPhase, abortOpen, peerGone, isTimeout, isFramingError, TypeOK
  <2> QED BY <1>2, <2>1, <2>2 DEF RawErrors
<1>3. ASSUME NEW e \in StreamErrors(p)
      PROVE  /\ e \cap {"EOF", "ErrUnexpectedEOF", "ECONNRESET", "ETIMEDOUT", "EIO"} # {} => net # "up"
             /\ e = {"net.ErrClosed"} => ~rawOpen
             /\ e = {"timeout"} => DeadlineHit(p)
  BY DEF StreamErrors
<1> QED BY <1>1, <1>2, <1>3

\* ErrDisconnected is never made of a timeout or of the local Close.
LEMMA EvidenceStep == Types /\ Ending /\ Verdicts /\ Evidence /\ [Next]_vars => Evidence'
<1> SUFFICES ASSUME Types, Ending, Verdicts, Evidence, [Next]_vars PROVE Evidence'
  OBVIOUS
<1>1. CASE UNCHANGED vars
  BY <1>1 DEF vars, connVars, streamVars, ctxVars, opVars, Types, TypeOK, Ending, RefOutlivesStream,
      Verdicts, Evidence, DisconnectedMeansPeer, DeadlineHit
<1>2. ASSUME NEW p \in Procs, CallMove(p) PROVE Evidence'
  BY <1>2, ProcFacts DEF CallMove, Goto, connVars, streamVars, Types, TypeOK, Ending,
      RefOutlivesStream, Verdicts, Evidence, DisconnectedMeansPeer, DeadlineHit
<1>3. ASSUME NEW p \in Procs, CallClose(p) PROVE Evidence'
  BY <1>3, ProcFacts DEF CallClose, Goto, connVars, streamVars, ctxVars, opVars, Types, TypeOK,
      Ending, RefOutlivesStream, Verdicts, Evidence, DisconnectedMeansPeer, DeadlineHit
<1>4. ASSUME NEW p \in Procs, Return(p) PROVE Evidence'
  BY <1>4, ProcFacts DEF Return, Goto, connVars, streamVars, Types, TypeOK, Ending,
      RefOutlivesStream, Verdicts, Evidence, DisconnectedMeansPeer, DeadlineHit
<1>5. ASSUME NEW p \in Procs, TryLock(p) PROVE Evidence'
  BY <1>5, ProcFacts DEF TryLock, Goto, connVars, streamVars, ctxVars, opVars, Types, TypeOK, Ending,
      RefOutlivesStream, Verdicts, Evidence, DisconnectedMeansPeer, DeadlineHit
<1>6. ASSUME NEW p \in Procs, AwaitLock(p) PROVE Evidence'
  BY <1>6, ProcFacts DEF AwaitLock, Goto, connVars, streamVars, ctxVars, opVars, Types, TypeOK,
      Ending, RefOutlivesStream, Verdicts, Evidence, DisconnectedMeansPeer, DeadlineHit
<1>7. ASSUME NEW p \in Procs, GiveUpLock(p) PROVE Evidence'
  BY <1>7, ProcFacts DEF GiveUpLock, Goto, Exit, connVars, streamVars, ctxVars, opVars, Types,
      TypeOK, Ending, RefOutlivesStream, Verdicts, Evidence, DisconnectedMeansPeer, DeadlineHit
<1>8. ASSUME NEW p \in Procs, RequireOpen(p) PROVE Evidence'
  BY <1>8, ProcFacts DEF RequireOpen, Goto, Exit, connVars, streamVars, ctxVars, opVars, Types,
      TypeOK, Ending, RefOutlivesStream, Verdicts, Evidence, DisconnectedMeansPeer, DeadlineHit
<1>9. ASSUME NEW p \in Procs, LoadState(p) PROVE Evidence'
  BY <1>9, ProcFacts DEF LoadState, Goto, Exit, connVars, streamVars, ctxVars, opVars, Types, TypeOK,
      Ending, RefOutlivesStream, Verdicts, Evidence, DisconnectedMeansPeer, DeadlineHit
<1>10. ASSUME NEW p \in Procs, Check(p) PROVE Evidence'
  BY <1>10, ProcFacts DEF Check, Goto, Exit, connVars, streamVars, ctxVars, opVars, Types, TypeOK,
      Ending, RefOutlivesStream, Verdicts, Evidence, DisconnectedMeansPeer, DeadlineHit
<1>11. ASSUME NEW p \in Procs, Octets(p) PROVE Evidence'
  BY <1>11, ProcFacts DEF Octets, connVars, streamVars, ctxVars, Types, TypeOK, Ending,
      RefOutlivesStream, Verdicts, Evidence, DisconnectedMeansPeer, DeadlineHit
<1>12. ASSUME NEW p \in Procs, NEW pkt \in Packets, ReadPacket(p, pkt) PROVE Evidence'
  <2>1. UNCHANGED <<net, rawOpen, termErr, ctx, dl>> /\ pc[p] = "io"
    BY <1>12 DEF ReadPacket, connVars, streamVars, ctxVars
  <2>2. CASE /\ pc' = [pc EXCEPT ![p] = "finish"]
             /\ err' = [err EXCEPT ![p] = abortOpen(p, segmentError(p, pkt))]
    BY <2>1, <2>2, WhoDisconnects DEF Types, TypeOK, Evidence, DisconnectedMeansPeer, DeadlineHit
  <2>3. CASE pc' = [pc EXCEPT ![p] = "return"] /\ err' = [err EXCEPT ![p] = nil]
    BY <2>1, <2>3 DEF Types, TypeOK, Evidence, DisconnectedMeansPeer, DeadlineHit
  <2>4. CASE UNCHANGED <<pc, err>>
    BY <2>1, <2>4 DEF Evidence, DisconnectedMeansPeer, DeadlineHit
  <2> QED BY <1>12, <2>2, <2>3, <2>4 DEF ReadPacket, Goto, Exit
<1>13. ASSUME NEW p \in Procs, WritePacket(p) PROVE Evidence'
  BY <1>13, ProcFacts DEF WritePacket, Goto, Exit, connVars, streamVars, ctxVars, Types, TypeOK,
      Ending, RefOutlivesStream, Verdicts, Evidence, DisconnectedMeansPeer, DeadlineHit
<1>14. ASSUME NEW p \in Procs, PacketFails(p) PROVE Evidence'
  BY <1>14, ProcFacts, WhoDisconnects DEF PacketFails, Goto, connVars, streamVars, ctxVars, opVars,
      Types, TypeOK, Ending, RefOutlivesStream, Verdicts, Evidence, DisconnectedMeansPeer,
      DeadlineHit
<1>15. ASSUME NEW p \in Procs, Fail(p) PROVE Evidence'
  BY <1>15, ProcFacts DEF Fail, Goto, connVars, streamVars, ctxVars, opVars, Types, TypeOK, Ending,
      RefOutlivesStream, Verdicts, Evidence, DisconnectedMeansPeer, DeadlineHit
<1>16. ASSUME NEW p \in Procs, IdleTimeout(p) PROVE Evidence'
  BY <1>16, ProcFacts DEF IdleTimeout, Goto, Exit, connVars, streamVars, ctxVars, opVars, Types,
      TypeOK, Ending, RefOutlivesStream, Verdicts, Evidence, DisconnectedMeansPeer, DeadlineHit
<1>17. ASSUME NEW p \in Procs, Classify(p) PROVE Evidence'
  BY <1>17, ProcFacts, WhoDisconnects DEF Classify, Goto, Exit, connVars, streamVars, ctxVars,
      opVars, Types, TypeOK, Ending, RefOutlivesStream, Verdicts, Evidence, DisconnectedMeansPeer,
      DeadlineHit
<1>18. ASSUME NEW p \in Procs, RecordCause(p) PROVE Evidence'
  BY <1>18, ProcFacts DEF RecordCause, Goto, streamVars, ctxVars, opVars, Types, TypeOK, Ending,
      RefOutlivesStream, Verdicts, Evidence, DisconnectedMeansPeer, DeadlineHit
<1>19. ASSUME NEW p \in Procs, AwaitOnce(p) PROVE Evidence'
  BY <1>19, ProcFacts DEF AwaitOnce, Goto, Exit, connVars, streamVars, ctxVars, opVars, Types,
      TypeOK, Ending, RefOutlivesStream, Verdicts, Evidence, DisconnectedMeansPeer, DeadlineHit
<1>20. ASSUME NEW p \in Procs, StoreState(p) PROVE Evidence'
  BY <1>20, ProcFacts DEF StoreState, Goto, streamVars, ctxVars, opVars, Types, TypeOK, Ending,
      RefOutlivesStream, Verdicts, Evidence, DisconnectedMeansPeer, DeadlineHit
<1>21. ASSUME NEW p \in Procs, CloseRaw(p) PROVE Evidence'
  BY <1>21, ProcFacts DEF CloseRaw, Goto, connVars, ctxVars, opVars, Types, TypeOK, Ending,
      RefOutlivesStream, Verdicts, Evidence, DisconnectedMeansPeer, DeadlineHit
<1>22. ASSUME NEW p \in Procs, releaseRef(p) PROVE Evidence'
  BY <1>22, ProcFacts DEF releaseRef, Goto, streamVars, ctxVars, opVars, Types, TypeOK, Ending,
      RefOutlivesStream, Verdicts, Evidence, DisconnectedMeansPeer, DeadlineHit
<1>23. ASSUME NEW p \in Procs, StoreClosed(p) PROVE Evidence'
  BY <1>23, ProcFacts DEF StoreClosed, Goto, Exit, streamVars, ctxVars, opVars, Types, TypeOK,
      Ending, RefOutlivesStream, Verdicts, Evidence, DisconnectedMeansPeer, DeadlineHit
<1>24. ASSUME NEW p \in Procs, Cancel(p) PROVE Evidence'
  BY <1>24, ProcFacts DEF Cancel, connVars, streamVars, opVars, Types, TypeOK, Ending,
      RefOutlivesStream, Verdicts, Evidence, DisconnectedMeansPeer, DeadlineHit
<1>25. ASSUME NEW p \in Procs, DeadlinePasses(p) PROVE Evidence'
  BY <1>25, ProcFacts DEF DeadlinePasses, connVars, streamVars, opVars, Types, TypeOK, Ending,
      RefOutlivesStream, Verdicts, Evidence, DisconnectedMeansPeer, DeadlineHit
<1>26. ASSUME NEW p \in Procs, CtxTimerFires(p) PROVE Evidence'
  BY <1>26, ProcFacts DEF CtxTimerFires, connVars, streamVars, opVars, Types, TypeOK, Ending,
      RefOutlivesStream, Verdicts, Evidence, DisconnectedMeansPeer, DeadlineHit
<1>27. CASE NetChanges
  BY <1>27, ProcFacts, EnvironmentAssumption DEF NetChanges, connVars, ctxVars, opVars, Types,
      TypeOK, Ending, RefOutlivesStream, Verdicts, Evidence, DisconnectedMeansPeer, DeadlineHit
<1> QED BY <1>1, <1>2, <1>3, <1>4, <1>5, <1>6, <1>7, <1>8, <1>9, <1>10, <1>11, <1>12, <1>13, <1>14,
      <1>15, <1>16, <1>17, <1>18, <1>19, <1>20, <1>21, <1>22, <1>23, <1>24, <1>25, <1>26, <1>27, NextCases

-----------------------------------------------------------------------------
\* The invariant holds in every reachable state.
THEOREM IInvHolds == Spec => []IInv
<1>1. Init => IInv
  BY ProcFacts, SizesAssumption DEF Init, IInv, Types, TypeOK, Locks, Ending, Boundary, Verdicts, Reports,
    Evidence, Inside, Finishing, ReturnsRecordedCause, DisconnectedMeansPeer, Places, nil,
        RefOutlivesStream, StreamAtBoundary, CtxErrorMeansNothingMoved, CtxErrors
<1>2. IInv /\ [Next]_vars => IInv'
  BY TypesStep, LocksStep, EndingStep, BoundaryStep, VerdictsStep, ReportsStep,
    EvidenceStep DEF IInv
<1> QED BY <1>1, <1>2, PTL DEF Spec

\* Every variable of a connection keeps its type; in particular what a reader
\* has gathered and what a writer has sent never exceeds MaxTSDU.
THEOREM TypeCorrect == Spec => []TypeOK
<1>1. IInv => TypeOK
  BY DEF IInv, Types
<1> QED BY <1>1, IInvHolds, PTL

\* Segments of two TSDUs never interleave and nobody continues half a TSDU of
\* another operation, for any number of readers and writers.
THEOREM NoInterleaving == Spec => []StreamAtBoundary
<1>1. IInv => StreamAtBoundary
  BY DEF IInv, Boundary
<1> QED BY <1>1, IInvHolds, PTL

\* An operation that leaves a TSDU half transferred has ended the connection
\* before it gives its direction back.
THEOREM HalfTransfersEndTheConnection == Spec => []HalfTsduIsTerminal
<1>1. IInv => HalfTsduIsTerminal
  BY DEF IInv, Boundary, HalfTsduIsTerminal
<1> QED BY <1>1, IInvHolds, PTL

\* A bare context error from ReadTSDU or WriteTSDU means that no octet of the
\* TSDU crossed the stream.
THEOREM ContextErrorsAreClean == Spec => []CtxErrorMeansNothingMoved
<1>1. IInv => CtxErrorMeansNothingMoved
  BY DEF IInv, Verdicts
<1> QED BY <1>1, IInvHolds, PTL

\* Close, and every ReadTSDU and WriteTSDU that aborts, returns after the end is
\* complete, whoever won termOnce.
THEOREM FinishIsComplete == Spec => FinishedOnReturn
<1> DEFINE Leaves(q) == /\ pc[q] \in {"finish", "storeState", "closeRaw", "release", "storeClosed"}
                        /\ pc'[q] = "return"
           Complete == \A p \in Procs :
                         /\ pc[p] \in {"finish", "storeState", "closeRaw", "release", "storeClosed"}
                         /\ pc'[p] = "return"
                         => ~rawOpen' /\ ~refHeld' /\ state' = termKind'
<1>1. ASSUME IInv, [Next]_vars, NEW q \in Procs, Leaves(q) PROVE once' = "done"
  <2>1. pc \in [Procs -> Places]
    BY <1>1 DEF IInv, Types, TypeOK
  <2>2. ASSUME NEW p \in Procs, AwaitOnce(p) \/ StoreClosed(p) PROVE once' = "done"
    BY <2>2 DEF AwaitOnce, StoreClosed, connVars
  <2>3. ASSUME NEW p \in Procs,
               \/ CallMove(p) \/ CallClose(p) \/ Return(p) \/ TryLock(p) \/ AwaitLock(p) \/ GiveUpLock(p)
               \/ RequireOpen(p) \/ LoadState(p) \/ Check(p) \/ Octets(p) \/ WritePacket(p)
               \/ \E pkt \in Packets : ReadPacket(p, pkt)
        PROVE  FALSE
    BY <1>1, <2>1, <2>3 DEF CallMove, CallClose, Return, TryLock, AwaitLock, GiveUpLock, RequireOpen,
      LoadState, Check, Octets, WritePacket, ReadPacket, Exit, Goto
  <2>4. ASSUME NEW p \in Procs,
               \/ PacketFails(p) \/ Fail(p) \/ IdleTimeout(p) \/ Classify(p)
               \/ RecordCause(p) \/ StoreState(p) \/ CloseRaw(p) \/ releaseRef(p)
               \/ Cancel(p) \/ DeadlinePasses(p) \/ CtxTimerFires(p)
        PROVE  FALSE
    BY <1>1, <2>1, <2>4 DEF PacketFails, Fail, IdleTimeout, Classify, RecordCause, StoreState, CloseRaw,
      releaseRef, Cancel, DeadlinePasses, CtxTimerFires, Exit, Goto
  <2>5. CASE NetChanges \/ UNCHANGED vars
    BY <1>1, <2>5 DEF NetChanges, vars
  <2> QED BY <1>1, <2>2, <2>3, <2>4, <2>5, NextCases
<1>2. ASSUME IInv, IInv', [Next]_vars PROVE Complete
  BY <1>1, <1>2 DEF IInv, Ending
<1> QED BY <1>2, IInvHolds, PTL DEF Spec, FinishedOnReturn

\* finish records the cause before it closes the stream, and closes the stream
\* before it frees the reference.
THEOREM ReferenceOutlivesStream == Spec => []RefOutlivesStream
<1>1. IInv => RefOutlivesStream
  BY DEF IInv, Ending
<1> QED BY <1>1, IInvHolds, PTL

\* What a call returns: success, its context's error, the rejection of its
\* arguments, or the recorded cause; a late call gets the cause unless its own
\* context ended.
THEOREM CauseIsReported == Spec => []ReturnsRecordedCause
<1>1. IInv => ReturnsRecordedCause
  BY DEF IInv, Reports
<1> QED BY <1>1, IInvHolds, PTL

\* A connection that ended with ErrDisconnected was ended by its stream or by a
\* DR of the peer, never by the local Close or a context.
THEOREM DisconnectIsThePeers == Spec => []DisconnectedMeansPeer
<1>1. IInv => DisconnectedMeansPeer
  BY DEF IInv, Evidence
<1> QED BY <1>1, IInvHolds, PTL

\* The first cause stays, and a connection that ended never comes back.
THEOREM FirstCauseHolds == Spec => FirstCauseWins
<1> DEFINE Kept == /\ termKind # "none" => UNCHANGED <<termKind, termErr>>
                   /\ ~rawOpen => ~rawOpen'
                   /\ state # "open" => state' # "open"
<1>1. ASSUME IInv, [Next]_vars PROVE Kept
  <2>1. ASSUME NEW p \in Procs, RecordCause(p) PROVE Kept
    BY <1>1, <2>1 DEF RecordCause, streamVars, IInv, Ending
  <2>2. ASSUME NEW p \in Procs, StoreState(p) PROVE Kept
    BY <2>2 DEF StoreState, streamVars
  <2>3. ASSUME NEW p \in Procs, StoreClosed(p) PROVE Kept
    BY <2>3 DEF StoreClosed, streamVars
  <2>4. ASSUME NEW p \in Procs, CloseRaw(p) \/ releaseRef(p) PROVE Kept
    BY <2>4 DEF CloseRaw, releaseRef, connVars, streamVars
  <2>5. ASSUME NEW p \in Procs,
               \/ CallMove(p) \/ CallClose(p) \/ Return(p) \/ TryLock(p) \/ AwaitLock(p) \/ GiveUpLock(p)
               \/ RequireOpen(p) \/ LoadState(p) \/ Check(p) \/ Octets(p) \/ WritePacket(p)
               \/ \E pkt \in Packets : ReadPacket(p, pkt)
        PROVE  Kept
    BY <2>5 DEF CallMove, CallClose, Return, TryLock, AwaitLock, GiveUpLock, RequireOpen, LoadState,
        Check,
      Octets, WritePacket, ReadPacket, connVars, streamVars
  <2>6. ASSUME NEW p \in Procs,
               \/ PacketFails(p) \/ Fail(p) \/ IdleTimeout(p) \/ Classify(p) \/ AwaitOnce(p)
               \/ Cancel(p) \/ DeadlinePasses(p) \/ CtxTimerFires(p)
        PROVE  Kept
    BY <2>6 DEF PacketFails, Fail, IdleTimeout, Classify, AwaitOnce, Cancel, DeadlinePasses,
        CtxTimerFires,
      connVars, streamVars
  <2>7. CASE NetChanges \/ UNCHANGED vars
    BY <2>7 DEF NetChanges, vars, connVars, streamVars
  <2> QED BY <1>1, <2>1, <2>2, <2>3, <2>4, <2>5, <2>6, <2>7, NextCases
<1> QED BY <1>1, IInvHolds, PTL DEF Spec, FirstCauseWins
=============================================================================
