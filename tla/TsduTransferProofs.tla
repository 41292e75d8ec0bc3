------------------------- MODULE TsduTransferProofs -------------------------
(***************************************************************************)
(* Two open connections implement the TSDU service, and ReadTSDU reports   *)
(* the end of the stream exactly: for any number of goroutines at both     *)
(* ends, any sizes, and any order of contexts, failures and retries.       *)
(*                                                                         *)
(* The invariant has two halves.  AEnd and BEnd say of each Conn what the  *)
(* transfer needs: who has the lock of the direction, whose TSDU is half   *)
(* way across, and that the connection ends with it.  (They are facts of   *)
(* ConnProofs in the variables of one end; tlapm cannot cite the theorems  *)
(* of an instance, so they are proved here.)  The rest is about positions. *)
(* A position is a TSDU, an offset, and the call whose octets lie before   *)
(* it.  The writers are at the tip; every segment in the stream goes on    *)
(* where the one before it ended, the last one ends at the tip, and the    *)
(* first one begins where the reader is.                                   *)
(***************************************************************************)
EXTENDS TsduTransfer, TLAPS

AProcs == AWriters \cup AClosers
Directions == {"read", "write"}

\* Before a call may touch the stream.
Before == {"idle", "lock", "wait", "requireOpen", "loadState", "check"}

\* Where a call holds the lock of its direction.
Inside == {"requireOpen", "loadState", "check", "io", "fail", "idleTimeout", "classify"}

\* Inside the function of termOnce.
Finishing == {"storeState", "closeRaw", "release", "storeClosed"}

\* With the raw error of the stream in hand.
Failing == {"fail", "idleTimeout", "classify"}

-----------------------------------------------------------------------------
(* What is needed of end A                                                 *)

ATypes ==
  /\ aPc \in [AProcs -> A!Places]
  /\ aMu \in [Directions -> AProcs \cup {NoProc}]
  /\ aOwner \in [Directions -> AWriters \cup {NoProc}]
  /\ aLen \in [AProcs -> Nat] /\ aDone \in [AProcs -> Nat]
  /\ aInPkt \in [AProcs -> BOOLEAN] /\ aMoved \in [AProcs -> BOOLEAN]
  /\ aRawOpen \in BOOLEAN

\* The cause is recorded before anything else of finish happens.
AEnding ==
  /\ aOnce = "free" <=> aTermKind = "none"
  /\ \A p \in AProcs : aPc[p] \in Finishing => aOnce # "free"

ALocks == \A p \in AProcs : aPc[p] \in Inside => aMu["write"] = p

\* Past requireOpen the stream is at a boundary.
AClear == \A w \in AWriters : aPc[w] \in {"loadState", "check"} => aOwner["write"] = NoProc

AFresh == \A w \in AWriters : aPc[w] \in Before => aDone[w] = 0 /\ ~aInPkt[w]

\* A writer at work is inside its own TSDU or at a boundary.
AInside ==
  \A w \in AWriters : aPc[w] = "io" =>
    \/ aOwner["write"] = w
    \/ aOwner["write"] = NoProc /\ aDone[w] = 0 /\ ~aInPkt[w]

\* A TSDU that is half way across is still at work, or the connection is over.
AHalf ==
  aOwner["write"] # NoProc =>
    \/ aTermKind # "none"
    \/ /\ aMu["write"] = aOwner["write"]
       /\ aPc[aOwner["write"]] \in {"io", "fail", "classify", "finish"}
       /\ aMoved[aOwner["write"]]

\* The TSDU of a writer is one it was given; at work it is within the limit
\* and unfinished.
AGiven == \A w \in AWriters : aPc[w] \in (Before \ {"idle"}) \cup {"io"} => aLen[w] \in TsduLens

AWork ==
  \A w \in AWriters : aPc[w] = "io" =>
    aDone[w] < aLen[w] /\ aLen[w] <= AMaxTSDU /\ 4 <= MaxTPDU

AEnd == /\ ATypes /\ AEnding /\ ALocks /\ AClear /\ AFresh /\ AInside /\ AHalf
        /\ AGiven /\ AWork

-----------------------------------------------------------------------------
(* What is needed of end B                                                 *)

BTypes ==
  /\ bPc \in [BReaders -> B!Places]
  /\ bMu \in [Directions -> BReaders \cup {NoProc}]
  /\ bOwner \in [Directions -> BReaders \cup {NoProc}]
  /\ bSegs \in [BReaders -> Nat]
  /\ bInPkt \in [BReaders -> BOOLEAN] /\ bMoved \in [BReaders -> BOOLEAN]
  /\ bErr = [r \in BReaders |-> bErr[r]]
  /\ bCtx \in [BReaders -> {"nil", "Canceled", "DeadlineExceeded"}]

BEnding ==
  /\ bOnce = "free" <=> bTermKind = "none"
  /\ \A r \in BReaders : bPc[r] \in Finishing => bOnce # "free"

BLocks == \A r \in BReaders : bPc[r] \in Inside => bMu["read"] = r

BClear == \A r \in BReaders : bPc[r] \in {"loadState", "check"} => bOwner["read"] = NoProc

BFresh == \A r \in BReaders : bPc[r] \in Before => bSegs[r] = 0 /\ ~bInPkt[r]

BInside ==
  \A r \in BReaders : bPc[r] = "io" =>
    \/ bOwner["read"] = r
    \/ bOwner["read"] = NoProc /\ bSegs[r] = 0 /\ ~bInPkt[r]

BPacket == \A r \in BReaders : bInPkt[r] => bOwner["read"] = r

BHalf ==
  bOwner["read"] # NoProc =>
    \/ bTermKind # "none"
    \/ /\ bMu["read"] = bOwner["read"]
       /\ bPc[bOwner["read"]] \in {"io", "fail", "classify", "finish"}
       /\ bMoved[bOwner["read"]]

BEnd == BTypes /\ BEnding /\ BLocks /\ BClear /\ BFresh /\ BInside /\ BPacket /\ BHalf

-----------------------------------------------------------------------------
(* The steps of end A                                                      *)

\* A step that moves no octets.
ALocal(p) ==
  \/ A!CallMove(p) \/ A!CallClose(p) \/ A!Step(p) \/ A!AwaitLock(p) \/ A!Context(p)

\* What such a step leaves as it was.
AStill ==
  /\ aOwner' = aOwner
  /\ aRawOpen' => aRawOpen
  /\ aTermKind # "none" => aTermKind' = aTermKind
  /\ \A w \in AWriters : aPc'[w] = "io" =>
       /\ aDone'[w] = aDone[w]
       /\ aPc[w] = "io" \/ (aOwner["write"] = NoProc /\ aDone[w] = 0)

\* Locks, contexts, requireOpen, the error path and finish keep the invariant.
LEMMA ALocalStep ==
  ASSUME AEnd, NEW p \in AProcs, ALocal(p)
  PROVE  AEnd' /\ AStill
<1> USE EndsAssumption DEF AEnd, ATypes, AEnding, ALocks, AClear, AFresh, AInside, AHalf, AGiven, AWork,
      AProcs, Directions, Before, Inside, Finishing, ALocal,
      A!Step, A!Context, A!TryLock, A!GiveUpLock, A!RequireOpen, A!LoadState, A!Check, A!PacketFails,
      A!Fail, A!IdleTimeout, A!Classify, A!RecordCause, A!AwaitOnce, A!StoreState, A!CloseRaw,
      A!releaseRef, A!StoreClosed, A!Return, A!AwaitLock, A!CallMove, A!CallClose, A!Cancel,
      A!DeadlinePasses, A!CtxTimerFires, A!Goto, A!Exit, A!Dir, A!Kind, A!Dirs, A!Movers,
      A!connVars, A!streamVars, A!ctxVars, A!opVars
<1>1. aPc' \in [AProcs -> A!Places]
  BY SMTT(30) DEF A!Places
<1>2. aMu' \in [Directions -> AProcs \cup {NoProc}] /\ aOwner' = aOwner
  BY SMTT(30)
<1>3. aLen' \in [AProcs -> Nat] /\ aDone' \in [AProcs -> Nat]
  BY SMTT(30)
<1>4. /\ aInPkt' = aInPkt \/ aInPkt' = [aInPkt EXCEPT ![p] = FALSE]
      /\ aMoved' = aMoved \/ aMoved' = [aMoved EXCEPT ![p] = FALSE]
      /\ aRawOpen' = aRawOpen \/ aRawOpen' = FALSE
  BY SMTT(30)
<1>5. AEnding'
  BY SMTT(30)
<1>6. ALocks'
  BY SMTT(30)
<1>7. AClear'
  BY SMTT(30)
<1>8. AFresh'
  BY SMTT(30)
<1>9. AInside'
  BY SMTT(30)
<1>10. AHalf'
  BY SMTT(30)
<1>11. AGiven'
  BY SMTT(30)
<1>12. AWork'
  <2>1. \A w \in AWriters : aPc'[w] = "io" =>
          /\ aDone'[w] = aDone[w] /\ aLen'[w] = aLen[w]
          /\ aPc[w] = "io" \/ (aDone[w] = 0 /\ A!localError(w) = A!nil)
    BY SMTT(30)
  <2>2. ASSUME NEW w \in AWriters, A!localError(w) = A!nil
        PROVE  aLen[w] # 0 /\ ~(aLen[w] > AMaxTSDU) /\ ~(MaxTPDU < 4)
    BY <2>2 DEF A!localError, A!minNegotiatedTPDULength, A!nil
  <2>3. \A w \in AWriters : aLen[w] \in Nat
    OBVIOUS
  <2> HIDE DEF ALocal
  <2> QED BY <2>1, <2>2, <2>3
<1>13. /\ aTermKind # "none" => aTermKind' = aTermKind
       /\ \A w \in AWriters : aPc'[w] = "io" =>
            /\ aDone'[w] = aDone[w]
            /\ aPc[w] = "io" \/ (aOwner["write"] = NoProc /\ aDone[w] = 0)
  BY SMTT(30)
<1>14. ATypes'
  <2> HIDE DEF ALocal
  <2> QED BY <1>1, <1>2, <1>3, <1>4
<1> HIDE DEF ALocal, AEnding, ALocks, AClear, AFresh, AInside, AHalf, AGiven, AWork, ATypes
<1>15. AEnd'
  BY <1>5, <1>6, <1>7, <1>8, <1>9, <1>10, <1>11, <1>12, <1>14 DEF AEnd
<1>16. AStill
  BY <1>2, <1>4, <1>13 DEF AStill
<1> QED BY <1>15, <1>16

\* So do the steps of B, and a failure of the stream at A.
LEMMA ARestStep ==
  ASSUME AEnd, UNCHANGED aVars \/ A!NetChanges
  PROVE  AEnd' /\ AStill
<1>1. UNCHANGED <<aPc, aMu, aOwner, aLen, aDone, aInPkt, aMoved, aRawOpen, aOnce, aTermKind>>
  BY DEF aVars, A!NetChanges, A!connVars, A!ctxVars, A!opVars
<1> QED BY <1>1 DEF AEnd, ATypes, AEnding, ALocks, AClear, AFresh, AInside, AHalf, AGiven, AWork,
      AStill

\* The first octets of a packet.
LEMMA AOctetsStep ==
  ASSUME AEnd, NEW w \in AWriters, A!Octets(w)
  PROVE  /\ AEnd'
         /\ aOwner["write"] \in {w, NoProc} /\ aOwner'["write"] = w
         /\ aRawOpen /\ UNCHANGED <<aRawOpen, aTermKind, aPc, aDone>>
<1> USE EndsAssumption DEF AProcs, Directions, A!Octets, A!Dir, A!Dirs, A!Movers, A!Procs, A!connVars,
      A!streamVars, A!ctxVars, A!Flowing
<1>1. /\ aRawOpen /\ UNCHANGED <<aRawOpen, aTermKind, aPc, aDone, aMu, aOnce, aLen>>
      /\ aPc[w] = "io" /\ w \in AProcs
  OBVIOUS
<1>2. aOwner["write"] \in {w, NoProc}
  BY <1>1 DEF AEnd, AInside
<1>3. /\ aOwner' \in [Directions -> AWriters \cup {NoProc}] /\ aOwner'["write"] = w
      /\ aInPkt' \in [AProcs -> BOOLEAN]
  BY DEF AEnd, ATypes
<1>4. aMoved' \in [AProcs -> BOOLEAN] /\ aMoved'[w]
  BY <1>1 DEF AEnd, ATypes
<1>5. \A p \in AProcs : p # w => aInPkt'[p] = aInPkt[p]
  BY DEF AEnd, ATypes
<1>6. \A v \in AWriters : aPc[v] = "io" \/ aPc[v] \in {"loadState", "check"} => v = w
  BY <1>1 DEF AEnd, ALocks, Inside
<1> HIDE DEF A!Octets
<1>7. ATypes' /\ AEnding' /\ ALocks' /\ AGiven' /\ AWork'
  BY <1>1, <1>3, <1>4 DEF AEnd, ATypes, AEnding, ALocks, AGiven, AWork
<1>8. AClear' /\ AFresh' /\ AInside'
  BY <1>1, <1>3, <1>5, <1>6 DEF AEnd, AClear, AFresh, AInside, Before
<1>9. AHalf'
  BY <1>1, <1>3, <1>4 DEF AEnd, AHalf, ALocks, Inside
<1> QED BY <1>1, <1>2, <1>3, <1>7, <1>8, <1>9 DEF AEnd

\* The rest of a packet: a segment of at least one octet, and at the last one
\* the TSDU is across.
LEMMA APacketStep ==
  ASSUME AEnd, NEW w \in AWriters, A!WritePacket(w)
  PROVE  /\ AEnd'
         /\ aPc[w] = "io" /\ aOwner["write"] = w
         /\ aRawOpen /\ UNCHANGED <<aRawOpen, aTermKind>>
         /\ aDone[w] \in Nat /\ aDone'[w] \in Nat /\ aDone[w] < aDone'[w]
         /\ aDone'[w] - aDone[w] <= MaxTPDU - 3
         /\ aLen[w] \in TsduLens \cap (1 .. AMaxTSDU)
         /\ \/ /\ aDone'[w] = aLen[w] /\ aOwner'["write"] = NoProc
               /\ \A v \in AWriters : aPc'[v] # "io"
            \/ /\ aDone'[w] # aLen[w] /\ aOwner' = aOwner
               /\ \A v \in AWriters : aPc'[v] = "io" => v = w
<1> DEFINE end == IF aDone[w] + A!maxSegmentPayload < aLen[w] THEN aDone[w] + A!maxSegmentPayload ELSE aLen[w]
<1>1. /\ aPc[w] = "io" /\ aInPkt[w] /\ aRawOpen /\ w \in AProcs
      /\ UNCHANGED <<aRawOpen, aTermKind, aMu, aOnce, aLen, aMoved>>
      /\ aInPkt' = [aInPkt EXCEPT ![w] = FALSE]
      /\ aDone' = [aDone EXCEPT ![w] = end]
  BY DEF A!WritePacket, A!Flowing, A!connVars, A!streamVars, AProcs
<1>2. /\ end = aLen[w] => aPc' = [aPc EXCEPT ![w] = "return"] /\ aOwner' = [aOwner EXCEPT !["write"] = NoProc]
      /\ end # aLen[w] => aPc' = aPc /\ aOwner' = aOwner
  BY DEF A!WritePacket, A!Exit, A!Goto
<1>3. aDone[w] \in Nat /\ aLen[w] \in Nat /\ aDone[w] < aLen[w] /\ aLen[w] <= AMaxTSDU /\ 4 <= MaxTPDU
      /\ aLen[w] \in TsduLens
  BY <1>1 DEF AEnd, ATypes, AWork, AGiven
<1>4. A!maxSegmentPayload = MaxTPDU - 3
  BY <1>3, EndsAssumption DEF A!maxSegmentPayload, A!minNegotiatedTPDULength, A!minimalDTOverhead
<1>5. end \in Nat /\ aDone[w] < end /\ end - aDone[w] <= MaxTPDU - 3 /\ end <= aLen[w]
  BY <1>3, <1>4, EndsAssumption
<1>6. aLen[w] \in 1 .. AMaxTSDU
  BY <1>3, EndsAssumption
<1>7. aOwner["write"] = w
  BY <1>1 DEF AEnd, AInside
<1>8. \A v \in AWriters : aPc[v] = "io" \/ aPc[v] \in {"loadState", "check"} => v = w
  BY <1>1 DEF AEnd, ALocks, Inside, AProcs
<1> HIDE DEF end
<1>9. aDone'[w] = end /\ \A p \in AProcs : p # w => aDone'[p] = aDone[p] /\ aInPkt'[p] = aInPkt[p]
  BY <1>1, <1>5 DEF AEnd, ATypes
<1>10. CASE end = aLen[w]
  <2>1. aPc' = [aPc EXCEPT ![w] = "return"] /\ aOwner' = [aOwner EXCEPT !["write"] = NoProc]
    BY <1>2, <1>10
  <2>2. aOwner'["write"] = NoProc /\ aPc'[w] = "return" /\ \A p \in AProcs : p # w => aPc'[p] = aPc[p]
    BY <1>1, <2>1 DEF AEnd, ATypes, Directions
  <2>3. ATypes'
    BY <1>1, <1>5, <2>1 DEF AEnd, ATypes, A!Places, Directions
  <2>4. AEnding' /\ ALocks' /\ AClear' /\ AHalf'
    BY <1>1, <2>2 DEF AEnd, AEnding, ALocks, AClear, AHalf, Inside, Finishing
  <2>5. \A v \in AWriters : aPc'[v] # "io"
    BY <1>8, <2>2 DEF AProcs
  <2>6. AFresh' /\ AInside' /\ AGiven' /\ AWork'
    BY <1>1, <1>9, <2>2, <2>5 DEF AEnd, AFresh, AInside, AGiven, AWork, Before, AProcs
  <2> QED BY <1>1, <1>3, <1>5, <1>6, <1>7, <1>9, <1>10, <2>2, <2>3, <2>4, <2>5, <2>6 DEF AEnd
<1>11. CASE end # aLen[w]
  <2>1. aPc' = aPc /\ aOwner' = aOwner
    BY <1>2, <1>11
  <2>2. ATypes'
    BY <1>1, <1>5, <2>1 DEF AEnd, ATypes
  <2>3. AEnding' /\ ALocks' /\ AClear' /\ AHalf'
    BY <1>1, <2>1 DEF AEnd, AEnding, ALocks, AClear, AHalf
  <2>4. \A v \in AWriters : aPc'[v] = "io" => v = w
    BY <1>8, <2>1
  <2>5. AFresh' /\ AInside' /\ AGiven'
    BY <1>1, <1>7, <1>9, <2>1, <2>4 DEF AEnd, AFresh, AInside, AGiven, AProcs, Before
  <2>6. AWork'
    BY <1>1, <1>3, <1>5, <1>9, <1>11, <2>4 DEF AWork
  <2> QED BY <1>1, <1>3, <1>5, <1>6, <1>7, <1>9, <1>11, <2>1, <2>2, <2>3, <2>4, <2>5, <2>6 DEF AEnd
<1> QED BY <1>10, <1>11

-----------------------------------------------------------------------------
(* The steps of end B                                                      *)

\* A step that moves no octets.
BLocal(r) == B!CallMove(r) \/ B!Step(r) \/ B!AwaitLock(r) \/ B!Context(r)

\* What such a step leaves as it was.
BStill ==
  /\ bOwner' = bOwner
  /\ bTermKind # "none" => bTermKind' = bTermKind
  /\ \A r \in BReaders : bPc'[r] = "io" =>
       /\ bInPkt'[r] = bInPkt[r] /\ bSegs'[r] = bSegs[r]
       /\ bPc[r] = "io" \/ (bOwner["read"] = NoProc /\ bSegs[r] = 0 /\ ~bInPkt[r])
  /\ \A r \in BReaders : bSegs'[r] = bSegs[r] \/ (bSegs'[r] = 0 /\ bPc'[r] = "idle")

\* Where errors come from: an operation at work, the error path, finish.
BErrors ==
  /\ \A r \in BReaders : bPc'[r] \in Failing =>
       /\ bSegs'[r] = bSegs[r]
       /\ \/ bPc[r] \in Failing /\ bErr'[r] = bErr[r]
          \/ bPc[r] = "io" /\ bErr'[r] \in B!StreamErrors(r)
  /\ \A r \in BReaders : bPc'[r] = "finish" =>
       \/ bPc[r] = "finish" /\ bErr'[r] = bErr[r]
       \/ bPc[r] = "classify" /\ bErr'[r] = B!classifyIOPhase(r, bErr[r])
  /\ bTermErr' = bTermErr \/ \E r \in BReaders : bPc[r] = "finish" /\ bTermErr' = bErr[r]

\* Locks, contexts, requireOpen, the error path and finish keep the invariant.
LEMMA BLocalStep ==
  ASSUME BEnd, NEW p \in BReaders, BLocal(p)
  PROVE  BEnd' /\ BStill /\ BErrors
<1> USE EndsAssumption DEF BEnd, BTypes, BEnding, BLocks, BClear, BFresh, BInside, BPacket, BHalf,
      Directions, Before, Inside, Finishing, Failing, BLocal,
      B!Step, B!Context, B!TryLock, B!GiveUpLock, B!RequireOpen, B!LoadState, B!Check, B!PacketFails,
      B!Fail, B!IdleTimeout, B!Classify, B!RecordCause, B!AwaitOnce, B!StoreState, B!CloseRaw,
      B!releaseRef, B!StoreClosed, B!Return, B!AwaitLock, B!CallMove, B!Cancel,
      B!DeadlinePasses, B!CtxTimerFires, B!Goto, B!Exit, B!Dir, B!Kind, B!Dirs, B!Movers,
      B!connVars, B!streamVars, B!ctxVars, B!opVars
<1>1. bPc' \in [BReaders -> B!Places]
  BY SMTT(30) DEF B!Places
<1>2. bMu' \in [Directions -> BReaders \cup {NoProc}] /\ bOwner' = bOwner
  BY SMTT(30)
<1>3. /\ bSegs' \in [BReaders -> Nat] /\ bErr' = [r \in BReaders |-> bErr'[r]]
      /\ bCtx' \in [BReaders -> {"nil", "Canceled", "DeadlineExceeded"}]
  BY SMTT(30)
<1>4. /\ bInPkt' = bInPkt \/ bInPkt' = [bInPkt EXCEPT ![p] = FALSE]
      /\ bMoved' = bMoved \/ bMoved' = [bMoved EXCEPT ![p] = FALSE]
  BY SMTT(30)
<1>5. BEnding'
  BY SMTT(30)
<1>6. BLocks'
  BY SMTT(30)
<1>7. BClear'
  BY SMTT(30)
<1>8. BFresh'
  BY SMTT(30)
<1>9. BInside'
  BY SMTT(30)
<1>10. BPacket'
  BY SMTT(30)
<1>11. BHalf'
  BY SMTT(30)
<1>12. BStill
  BY SMTT(30) DEF BStill
<1>13. \A r \in BReaders : bPc'[r] \in Failing =>
         /\ bSegs'[r] = bSegs[r]
         /\ \/ bPc[r] \in Failing /\ bErr'[r] = bErr[r]
            \/ bPc[r] = "io" /\ bErr'[r] \in B!StreamErrors(r)
  BY SMTT(30)
<1>14. \A r \in BReaders : bPc'[r] = "finish" =>
         \/ bPc[r] = "finish" /\ bErr'[r] = bErr[r]
         \/ bPc[r] = "classify" /\ bErr'[r] = B!classifyIOPhase(r, bErr[r])
  BY SMTT(30)
<1>15. bTermErr' = bTermErr \/ \E r \in BReaders : bPc[r] = "finish" /\ bTermErr' = bErr[r]
  BY SMTT(30)
<1>16. BTypes'
  <2> HIDE DEF BLocal
  <2> QED BY <1>1, <1>2, <1>3, <1>4
<1> HIDE DEF BLocal, BEnding, BLocks, BClear, BFresh, BInside, BPacket, BHalf, BTypes
<1>17. BEnd'
  BY <1>5, <1>6, <1>7, <1>8, <1>9, <1>10, <1>11, <1>16 DEF BEnd
<1>18. BErrors
  BY <1>13, <1>14, <1>15 DEF BErrors
<1> QED BY <1>12, <1>17, <1>18

\* So do the steps of A, and a failure of the stream at B.
LEMMA BRestStep ==
  ASSUME BEnd, UNCHANGED bVars \/ B!NetChanges
  PROVE  BEnd' /\ BStill /\ BErrors
<1>1. UNCHANGED <<bPc, bMu, bOwner, bSegs, bInPkt, bMoved, bErr, bCtx, bOnce, bTermKind, bTermErr>>
  BY DEF bVars, B!NetChanges, B!connVars, B!ctxVars, B!opVars
<1>2. BEnd'
  BY <1>1 DEF BEnd, BTypes, BEnding, BLocks, BClear, BFresh, BInside, BPacket, BHalf
<1>3. BStill
  BY <1>1 DEF BStill
<1>4. BErrors
  BY <1>1 DEF BErrors
<1> QED BY <1>2, <1>3, <1>4

\* The first octets of a packet.
LEMMA BOctetsStep ==
  ASSUME BEnd, NEW r \in BReaders, B!Octets(r)
  PROVE  /\ BEnd'
         /\ bPc[r] = "io" /\ bNet = "up"
         /\ bOwner["read"] \in {r, NoProc} /\ bOwner'["read"] = r
         /\ UNCHANGED <<bNet, bTermKind, bTermErr, bPc, bSegs, bErr>>
         /\ \A q \in BReaders : q # r => bInPkt'[q] = bInPkt[q]
<1> USE EndsAssumption DEF Directions, B!Octets, B!Dir, B!Dirs, B!Movers, B!Procs, B!connVars,
      B!streamVars, B!ctxVars, B!Flowing
<1>1. /\ bNet = "up" /\ UNCHANGED <<bNet, bTermKind, bTermErr, bPc, bSegs, bErr, bCtx, bMu, bOnce>>
      /\ bPc[r] = "io"
  OBVIOUS
<1>2. bOwner["read"] \in {r, NoProc}
  BY <1>1 DEF BEnd, BInside
<1>3. /\ bOwner' \in [Directions -> BReaders \cup {NoProc}] /\ bOwner'["read"] = r
      /\ bInPkt' \in [BReaders -> BOOLEAN]
  BY DEF BEnd, BTypes
<1>4. bMoved' \in [BReaders -> BOOLEAN] /\ bMoved'[r]
  BY <1>1 DEF BEnd, BTypes
<1>5. \A q \in BReaders : q # r => bInPkt'[q] = bInPkt[q]
  BY DEF BEnd, BTypes
<1>6. \A q \in BReaders : bPc[q] = "io" \/ bPc[q] \in {"loadState", "check"} => q = r
  BY <1>1 DEF BEnd, BLocks, Inside
<1> HIDE DEF B!Octets
<1>7. BTypes' /\ BEnding' /\ BLocks'
  BY <1>1, <1>3, <1>4 DEF BEnd, BTypes, BEnding, BLocks
<1>8. BClear' /\ BFresh' /\ BInside'
  BY <1>1, <1>3, <1>5, <1>6 DEF BEnd, BClear, BFresh, BInside, Before
<1>9. BPacket'
  BY <1>2, <1>3, <1>5 DEF BEnd, BPacket
<1>10. BHalf'
  BY <1>1, <1>3, <1>4 DEF BEnd, BHalf, BLocks, Inside
<1> QED BY <1>1, <1>2, <1>3, <1>5, <1>7, <1>8, <1>9, <1>10 DEF BEnd

\* The rest of a packet: refused and the operation aborts, or one more segment,
\* and at the last one the TSDU is across.
LEMMA BPacketStep ==
  ASSUME BEnd, NEW r \in BReaders, NEW pkt, pkt.eot \in BOOLEAN, B!ReadPacket(r, pkt)
  PROVE  /\ BEnd'
         /\ bPc[r] = "io" /\ bOwner["read"] = r /\ bNet = "up"
         /\ UNCHANGED <<bNet, bTermKind, bTermErr>>
         /\ ~bInPkt'[r]
         /\ \A q \in BReaders : q # r =>
              /\ bPc'[q] = bPc[q] /\ bSegs'[q] = bSegs[q] /\ bInPkt'[q] = bInPkt[q]
              /\ bErr'[q] = bErr[q] /\ bPc[q] # "io"
         /\ \/ /\ bPc'[r] = "finish" /\ bSegs'[r] = bSegs[r] /\ bOwner' = bOwner
               /\ bErr'[r] = B!abortOpen(r, B!segmentError(r, pkt))
            \/ /\ bPc'[r] = "io" /\ bSegs'[r] = bSegs[r] + 1 /\ bOwner' = bOwner /\ ~pkt.eot
            \/ /\ bPc'[r] = "return" /\ bSegs'[r] = bSegs[r] + 1 /\ bOwner'["read"] = NoProc /\ pkt.eot
<1>1. /\ bPc[r] = "io" /\ bInPkt[r] /\ bNet = "up"
      /\ UNCHANGED <<bNet, bTermKind, bTermErr, bCtx, bMu, bOnce, bMoved>>
      /\ bInPkt' = [bInPkt EXCEPT ![r] = FALSE]
  BY DEF B!ReadPacket, B!Flowing, B!connVars, B!streamVars, B!ctxVars
<1>2. bOwner["read"] = r
  BY <1>1 DEF BEnd, BInside
<1>3. \A q \in BReaders : bPc[q] \in Inside => q = r
  BY <1>1 DEF BEnd, BLocks, Inside
<1>4. ~bInPkt'[r] /\ \A q \in BReaders : q # r => bInPkt'[q] = bInPkt[q]
  BY <1>1 DEF BEnd, BTypes
<1>5. \A q \in BReaders : ~bInPkt'[q]
  BY <1>2, <1>4 DEF BEnd, BPacket
<1>6. CASE B!segmentError(r, pkt) # B!nil
  <2>1. /\ bPc' = [bPc EXCEPT ![r] = "finish"] /\ UNCHANGED <<bSegs, bOwner>>
        /\ bErr' = [bErr EXCEPT ![r] = B!abortOpen(r, B!segmentError(r, pkt))]
    BY <1>6 DEF B!ReadPacket, B!Goto
  <2>2. /\ bPc'[r] = "finish" /\ bErr'[r] = B!abortOpen(r, B!segmentError(r, pkt))
        /\ \A q \in BReaders : q # r => bPc'[q] = bPc[q] /\ bErr'[q] = bErr[q]
    BY <2>1 DEF BEnd, BTypes
  <2>3. BTypes'
    BY <1>1, <2>1 DEF BEnd, BTypes, B!Places
  <2>4. BEnding' /\ BLocks' /\ BClear' /\ BPacket'
    BY <1>1, <1>5, <2>1, <2>2 DEF BEnd, BEnding, BLocks, BClear, BPacket, Inside, Finishing
  <2>5. BFresh' /\ BInside' /\ BHalf'
    BY <1>1, <1>2, <1>3, <1>5, <2>1, <2>2 DEF BEnd, BFresh, BInside, BHalf, Before, Inside
  <2> QED BY <1>1, <1>2, <1>3, <1>4, <2>1, <2>2, <2>3, <2>4, <2>5 DEF BEnd, Inside
<1>7. CASE B!segmentError(r, pkt) = B!nil
  <2>1. /\ bSegs' = [bSegs EXCEPT ![r] = @ + 1]
        /\ pkt.eot => /\ bPc' = [bPc EXCEPT ![r] = "return"] /\ bErr' = [bErr EXCEPT ![r] = B!nil]
                      /\ bOwner' = [bOwner EXCEPT !["read"] = NoProc]
        /\ ~pkt.eot => UNCHANGED <<bPc, bErr, bOwner>>
    BY <1>7 DEF B!ReadPacket, B!Exit, B!Goto
  <2>2. /\ bSegs'[r] = bSegs[r] + 1 /\ bSegs' \in [BReaders -> Nat]
        /\ \A q \in BReaders : q # r => bSegs'[q] = bSegs[q]
    BY <2>1 DEF BEnd, BTypes
  <2>3. CASE pkt.eot
    <3>1. /\ bPc'[r] = "return" /\ bOwner'["read"] = NoProc
          /\ \A q \in BReaders : q # r => bPc'[q] = bPc[q] /\ bErr'[q] = bErr[q]
      BY <2>1, <2>3 DEF BEnd, BTypes, Directions
    <3>2. BTypes'
      BY <1>1, <2>1, <2>2, <2>3 DEF BEnd, BTypes, B!Places, Directions
    <3>3. BEnding' /\ BLocks' /\ BClear' /\ BPacket' /\ BHalf'
      BY <1>1, <1>5, <3>1 DEF BEnd, BEnding, BLocks, BClear, BPacket, BHalf, Inside, Finishing
    <3>4. BFresh' /\ BInside'
      BY <1>3, <1>5, <2>2, <3>1 DEF BEnd, BFresh, BInside, Before, Inside
    <3> QED BY <1>1, <1>2, <1>3, <1>4, <2>2, <2>3, <3>1, <3>2, <3>3, <3>4 DEF BEnd, Inside
  <2>4. CASE ~pkt.eot
    <3>1. UNCHANGED <<bPc, bErr, bOwner>>
      BY <2>1, <2>4
    <3>2. BTypes' /\ BEnding' /\ BLocks' /\ BClear' /\ BPacket' /\ BHalf'
      BY <1>1, <1>5, <2>2, <3>1 DEF BEnd, BTypes, BEnding, BLocks, BClear, BPacket, BHalf
    <3>3. BFresh' /\ BInside'
      BY <1>1, <1>2, <1>3, <1>5, <2>2, <3>1 DEF BEnd, BFresh, BInside, Before, Inside
    <3> QED BY <1>1, <1>2, <1>3, <1>4, <2>2, <2>4, <3>1, <3>2, <3>3 DEF BEnd, Inside
  <2> QED BY <2>3, <2>4
<1> QED BY <1>6, <1>7

-----------------------------------------------------------------------------
(* Positions                                                               *)

Segments == [by : AWriters, tsdu : Nat, from : Nat, to : Nat, eot : BOOLEAN]
Positions == [tsdu : Nat, off : Nat, by : AWriters \cup {NoProc}]

\* The octets before off of the tsdu-th TSDU, which are those of call by.
Position(tsdu, off, by) == [tsdu |-> tsdu, off |-> off, by |-> by]

\* Where segment s leaves off.
After(s) == IF s.eot THEN Position(s.tsdu + 1, 0, NoProc) ELSE Position(s.tsdu, s.to, s.by)

\* Segment s goes on at position x.
Continues(s, x) == s.tsdu = x.tsdu /\ s.from = x.off /\ (x.off > 0 => s.by = x.by)

\* The writers have come to position x with whole packets, and a TSDU is half
\* way across only if x or the part of a packet says so.
Tip(x) ==
  /\ x.tsdu = Len(accepted) + 1
  /\ x.off > 0 => x.by \in AWriters /\ aOwner["write"] = x.by
  /\ aOwner["write"] # NoProc => x.off > 0 \/ partial
  /\ \A w \in AWriters : aPc[w] = "io" => aDone[w] = x.off

\* What comes out of the stream next is what follows position x.
Front(x) == IF Len(stream) = 0 THEN Tip(x) ELSE Continues(stream[1], x)

\* A DT of at least one octet that fits the TPDU; the last of a TSDU ends it.
IsSegment(s) ==
  /\ s.from < s.to /\ s.to - s.from <= MaxTPDU - 3
  /\ s.eot => s.tsdu \in 1 .. Len(accepted) /\ s.to = accepted[s.tsdu]

StreamTypes ==
  /\ accepted \in Seq(TsduLens \cap (1 .. AMaxTSDU))
  /\ delivered \in Seq([tsdu : Nat, len : Nat])
  /\ stream \in Seq(Segments)
  /\ partial \in BOOLEAN
  /\ partial => aOwner["write"] # NoProc

Shape == \A i \in 1 .. Len(stream) : IsSegment(stream[i])

Chain == \A i \in 1 .. Len(stream) - 1 : Continues(stream[i + 1], After(stream[i]))

EndsAtTip == Len(stream) > 0 => Tip(After(stream[Len(stream)]))

StreamInv == StreamTypes /\ Shape /\ Chain /\ EndsAtTip

\* Where a reader is that holds the segments g of the next TSDU.
Reached(g) == Position(Len(delivered) + 1, g.len, g.by)

\* What a reader holds is the start of the next TSDU, and goes on in the stream.
Gathered ==
  /\ DOMAIN got = BReaders
  /\ \A r \in BReaders :
       /\ got[r] \in [by : AWriters \cup {NoProc}, tsdu : Nat, len : Nat, ok : BOOLEAN]
       /\ bSegs[r] = 0 => got[r] = Nothing
       /\ bSegs[r] > 0 => got[r].len > 0

AtBoundary == bOwner["read"] = NoProc => Front(Position(Len(delivered) + 1, 0, NoProc))

AtWork ==
  \A r \in BReaders : bPc[r] = "io" =>
    /\ got[r].ok /\ (bSegs[r] > 0 => got[r].tsdu = Len(delivered) + 1)
    /\ Front(Reached(got[r]))
    /\ bInPkt[r] => Len(stream) > 0 \/ partial

ReaderInv == Gathered /\ AtBoundary /\ AtWork

-----------------------------------------------------------------------------
\* Sequences, as the steps use them.
LEMMA SeqFacts ==
  ASSUME NEW S, NEW s \in Seq(S)
  PROVE  /\ Len(s) \in Nat
         /\ s = <<>> <=> Len(s) = 0
         /\ \A i \in 1 .. Len(s) : s[i] \in S
         /\ Len(s) > 0 => /\ Head(s) = s[1]
                          /\ Tail(s) \in Seq(S) /\ Len(Tail(s)) = Len(s) - 1
                          /\ \A i \in 1 .. Len(s) - 1 : Tail(s)[i] = s[i + 1]
         /\ \A x \in S : /\ Append(s, x) \in Seq(S) /\ Len(Append(s, x)) = Len(s) + 1
                         /\ Append(s, x)[Len(s) + 1] = x
                         /\ \A i \in 1 .. Len(s) : Append(s, x)[i] = s[i]
OBVIOUS

\* Where a segment leaves off is a position.
LEMMA AfterType == \A s \in Segments : After(s) \in Positions
BY DEF Segments, Positions, After, Position

\* The tip stays where it is when no octets are written.
LEMMA TipStill ==
  ASSUME AEnd, AStill, UNCHANGED <<accepted, partial>>
  PROVE  \A x \in Positions : Tip(x) => Tip(x)'
<1> SUFFICES ASSUME NEW x \in Positions, Tip(x) PROVE Tip(x)'
  OBVIOUS
<1>1. x.off \in Nat
  BY DEF Positions
<1>2. ASSUME NEW w \in AWriters, aPc'[w] = "io" PROVE aDone'[w] = x.off
  <2>1. CASE aPc[w] = "io"
    BY <1>2, <2>1 DEF AStill, Tip
  <2>2. CASE aPc[w] # "io"
    BY <1>1, <1>2, <2>2, EndsAssumption DEF AStill, Tip
  <2> QED BY <2>1, <2>2
<1> QED BY <1>2 DEF AStill, Tip

\* Neither does the first octet of a packet move it.
LEMMA TipOctets ==
  ASSUME AEnd, StreamTypes, NEW w \in AWriters, WriteOctets(w)
  PROVE  \A x \in Positions : Tip(x) => Tip(x)'
<1> SUFFICES ASSUME NEW x \in Positions, Tip(x) PROVE Tip(x)'
  OBVIOUS
<1>1. /\ aOwner["write"] \in {w, NoProc} /\ aOwner'["write"] = w
      /\ UNCHANGED <<aPc, aDone>>
  BY AOctetsStep DEF WriteOctets
<1>2. partial' = TRUE /\ accepted' = accepted
  BY DEF WriteOctets, history
<1> QED BY <1>1, <1>2, EndsAssumption DEF Tip

-----------------------------------------------------------------------------
(* Steps of A and the stream                                               *)

\* A step of A that writes nothing.
LEMMA StreamQuiet ==
  ASSUME AEnd, AStill, StreamInv, UNCHANGED <<stream, partial, history>>
  PROVE  StreamInv' /\ \A x \in Positions : Front(x) => Front(x)'
<1>1. UNCHANGED <<accepted, delivered>> /\ aOwner' = aOwner
  BY DEF history, AStill
<1>2. \A x \in Positions : Tip(x) => Tip(x)'
  BY <1>1, TipStill
<1>3. StreamTypes' /\ Shape' /\ Chain'
  BY <1>1 DEF StreamInv, StreamTypes, Shape, Chain, IsSegment, Continues, After, Position
<1>4. EndsAtTip'
  <2>1. SUFFICES ASSUME Len(stream) > 0 PROVE Tip(After(stream[Len(stream)]))'
    BY <1>1 DEF EndsAtTip
  <2>2. After(stream[Len(stream)]) \in Positions
    BY <2>1, SeqFacts, AfterType DEF StreamInv, StreamTypes
  <2>3. PICK x \in Positions : x = After(stream[Len(stream)])
    BY <2>2
  <2>4. Tip(x)'
    BY <1>2, <2>1, <2>3 DEF StreamInv, EndsAtTip
  <2>5. (After(stream[Len(stream)]))' = x
    BY <2>3 DEF After, Position
  <2> QED BY <2>4, <2>5 DEF Tip
<1>5. \A x \in Positions : Front(x) => Front(x)'
  BY <1>2 DEF Front, Continues
<1> QED BY <1>3, <1>4, <1>5 DEF StreamInv

\* The first octets of a packet.
LEMMA StreamOctets ==
  ASSUME AEnd, StreamInv, NEW w \in AWriters, WriteOctets(w)
  PROVE  StreamInv' /\ \A x \in Positions : Front(x) => Front(x)'
<1>1. UNCHANGED <<accepted, delivered, stream>> /\ partial' = TRUE /\ aOwner'["write"] = w
  BY AOctetsStep DEF WriteOctets, history
<1>2. \A x \in Positions : Tip(x) => Tip(x)'
  BY TipOctets DEF StreamInv
<1>3. StreamTypes' /\ Shape' /\ Chain'
  BY <1>1, EndsAssumption DEF StreamInv, StreamTypes, Shape, Chain, IsSegment, Continues, After, Position
<1>4. EndsAtTip'
  <2>1. SUFFICES ASSUME Len(stream) > 0 PROVE Tip(After(stream[Len(stream)]))'
    BY <1>1 DEF EndsAtTip
  <2>2. After(stream[Len(stream)]) \in Positions
    BY <2>1, SeqFacts, AfterType DEF StreamInv, StreamTypes
  <2>3. PICK x \in Positions : x = After(stream[Len(stream)])
    BY <2>2
  <2>4. Tip(x)'
    BY <1>2, <2>1, <2>3 DEF StreamInv, EndsAtTip
  <2>5. (After(stream[Len(stream)]))' = x
    BY <1>1, <2>3 DEF After, Position
  <2> QED BY <2>4, <2>5 DEF Tip
<1>5. \A x \in Positions : Front(x) => Front(x)'
  BY <1>1, <1>2 DEF Front, Continues
<1> QED BY <1>3, <1>4, <1>5 DEF StreamInv

\* The segment a packet is: where it begins and ends, that it goes on at the
\* tip, and that the tip is behind it then.
LEMMA SegmentFacts ==
  ASSUME AEnd, StreamTypes, NEW w \in AWriters, WriteSegment(w)
  PROVE  \E seg \in Segments :
         /\ stream' = Append(stream, seg) /\ partial' = FALSE
         /\ seg.from < seg.to /\ seg.to - seg.from <= MaxTPDU - 3
         /\ seg.tsdu = Len(accepted) + 1
         /\ \/ /\ seg.eot /\ seg.to = aLen[w]
               /\ aLen[w] \in TsduLens \cap (1 .. AMaxTSDU) /\ accepted' = Append(accepted, aLen[w])
            \/ ~seg.eot /\ accepted' = accepted
         /\ \A x \in Positions : Tip(x) => Continues(seg, x)
         /\ Tip(After(seg))'
<1>1. /\ aPc[w] = "io" /\ aOwner["write"] = w
      /\ aDone[w] \in Nat /\ aDone'[w] \in Nat /\ aDone[w] < aDone'[w]
      /\ aDone'[w] - aDone[w] <= MaxTPDU - 3
      /\ aLen[w] \in TsduLens \cap (1 .. AMaxTSDU)
      /\ \/ /\ aDone'[w] = aLen[w] /\ aOwner'["write"] = NoProc
            /\ \A v \in AWriters : aPc'[v] # "io"
         \/ /\ aDone'[w] # aLen[w] /\ aOwner' = aOwner
            /\ \A v \in AWriters : aPc'[v] = "io" => v = w
  BY APacketStep DEF WriteSegment
<1>2. Len(accepted) \in Nat
  BY SeqFacts DEF StreamTypes
<1>3. Segment(w) \in Segments
  BY <1>1, <1>2 DEF Segment, Segments
<1>4. PICK seg \in Segments : seg = Segment(w)
  BY <1>3
<1>5. /\ seg.by = w /\ seg.tsdu = Len(accepted) + 1 /\ seg.from = aDone[w] /\ seg.to = aDone'[w]
      /\ seg.eot <=> (aDone'[w] = aLen[w])
  BY <1>4 DEF Segment
<1>6. /\ stream' = Append(stream, seg) /\ partial' = FALSE
      /\ accepted' = IF seg.eot THEN Append(accepted, aLen[w]) ELSE accepted
  BY <1>4 DEF WriteSegment
<1>7. \A x \in Positions : Tip(x) => Continues(seg, x)
  BY <1>1, <1>5 DEF Tip, Continues
<1>8. CASE aDone'[w] = aLen[w]
  <2>1. seg.eot /\ accepted' = Append(accepted, aLen[w])
    BY <1>5, <1>6, <1>8
  <2>2. Len(accepted') = Len(accepted) + 1
    BY <1>1, <2>1, SeqFacts DEF StreamTypes
  <2>3. aOwner'["write"] = NoProc /\ \A v \in AWriters : aPc'[v] # "io"
    BY <1>1, <1>8
  <2>4. Tip(Position(seg.tsdu + 1, 0, NoProc))'
    BY <1>2, <1>5, <2>2, <2>3 DEF Tip, Position
  <2>5. After(seg) = Position(seg.tsdu + 1, 0, NoProc)
    BY <2>1 DEF After
  <2>6. Tip(After(seg))'
    BY <2>4, <2>5 DEF Tip
  <2> QED BY <1>1, <1>5, <1>6, <1>7, <1>8, <2>1, <2>6
<1>9. CASE aDone'[w] # aLen[w]
  <2>1. ~seg.eot /\ accepted' = accepted
    BY <1>5, <1>6, <1>9
  <2>2. aOwner'["write"] = w /\ \A v \in AWriters : aPc'[v] = "io" => v = w
    BY <1>1, <1>9
  <2>3. Tip(Position(seg.tsdu, seg.to, seg.by))'
    BY <1>1, <1>5, <2>1, <2>2 DEF Tip, Position
  <2>4. After(seg) = Position(seg.tsdu, seg.to, seg.by)
    BY <2>1 DEF After
  <2>5. Tip(After(seg))'
    BY <2>3, <2>4 DEF Tip
  <2> QED BY <1>1, <1>5, <1>6, <1>7, <2>1, <2>5
<1> QED BY <1>8, <1>9

\* The rest of a packet.
LEMMA StreamSegment ==
  ASSUME AEnd, StreamInv, NEW w \in AWriters, WriteSegment(w)
  PROVE  StreamInv' /\ \A x \in Positions : Front(x) => Front(x)'
<1>1. PICK seg \in Segments :
        /\ stream' = Append(stream, seg) /\ partial' = FALSE
        /\ seg.from < seg.to /\ seg.to - seg.from <= MaxTPDU - 3
        /\ seg.tsdu = Len(accepted) + 1
        /\ \/ /\ seg.eot /\ seg.to = aLen[w]
              /\ aLen[w] \in TsduLens \cap (1 .. AMaxTSDU) /\ accepted' = Append(accepted, aLen[w])
           \/ ~seg.eot /\ accepted' = accepted
        /\ \A x \in Positions : Tip(x) => Continues(seg, x)
        /\ Tip(After(seg))'
  BY SegmentFacts DEF StreamInv
<1>2. delivered' = delivered
  BY DEF WriteSegment
<1> DEFINE n == Len(stream)
<1>3. /\ n \in Nat /\ stream' \in Seq(Segments) /\ Len(stream') = n + 1
      /\ stream'[n + 1] = seg /\ \A i \in 1 .. n : stream'[i] = stream[i] /\ stream[i] \in Segments
  BY <1>1, SeqFacts DEF StreamInv, StreamTypes
<1>4. /\ Len(accepted) \in Nat /\ accepted' \in Seq(TsduLens \cap (1 .. AMaxTSDU))
      /\ Len(accepted) <= Len(accepted') /\ Len(accepted') \in Nat
      /\ \A k \in 1 .. Len(accepted) : accepted'[k] = accepted[k]
      /\ seg.eot => Len(accepted') = Len(accepted) + 1 /\ accepted'[Len(accepted) + 1] = aLen[w]
  <2>1. accepted \in Seq(TsduLens \cap (1 .. AMaxTSDU)) /\ Len(accepted) \in Nat
    BY SeqFacts DEF StreamInv, StreamTypes
  <2>2. CASE seg.eot
    <3>1. accepted' = Append(accepted, aLen[w]) /\ aLen[w] \in TsduLens \cap (1 .. AMaxTSDU)
      BY <1>1, <2>2
    <3> QED BY <2>1, <3>1, SeqFacts
  <2>3. CASE ~seg.eot
    BY <1>1, <2>1, <2>3
  <2> QED BY <2>2, <2>3
<1> HIDE DEF n
<1>5. StreamTypes'
  BY <1>1, <1>2, <1>3, <1>4 DEF StreamInv, StreamTypes
<1>6. Shape'
  <2>1. ASSUME NEW i \in 1 .. Len(stream') PROVE IsSegment(stream[i])'
    <3>1. CASE i \in 1 .. n
      <4>1. IsSegment(stream[i]) /\ stream'[i] = stream[i]
        BY <1>3, <3>1 DEF StreamInv, Shape, n
      <4> QED BY <1>4, <4>1 DEF IsSegment
    <3>2. CASE i = n + 1
      <4>1. stream'[i] = seg
        BY <1>3, <3>2
      <4>2. CASE seg.eot
        <5>1. seg.to = aLen[w] /\ seg.tsdu = Len(accepted) + 1
          BY <1>1, <4>2
        <5> QED BY <1>1, <1>4, <4>1, <4>2, <5>1 DEF IsSegment
      <4>3. CASE ~seg.eot
        BY <1>1, <4>1, <4>3 DEF IsSegment
      <4> QED BY <4>2, <4>3
    <3> QED BY <1>3, <2>1, <3>1, <3>2
  <2> QED BY <2>1 DEF Shape
<1>7. Chain'
  <2>1. ASSUME NEW i \in 1 .. n PROVE Continues(stream'[i + 1], After(stream'[i]))
    <3>1. CASE i = n
      <4>1. After(stream[n]) \in Positions /\ Tip(After(stream[n]))
        BY <1>3, <3>1, AfterType DEF StreamInv, EndsAtTip, n
      <4>2. stream'[i] = stream[n] /\ stream'[i + 1] = seg
        BY <1>3, <3>1
      <4> QED BY <1>1, <4>1, <4>2
    <3>2. CASE i # n
      <4>1. i \in 1 .. n - 1 /\ i + 1 \in 1 .. n
        BY <1>3, <3>2
      <4> QED BY <1>3, <4>1 DEF StreamInv, Chain, n
    <3> QED BY <3>1, <3>2
  <2> QED BY <1>3, <2>1 DEF Chain, Continues, After, Position
<1>8. EndsAtTip'
  BY <1>1, <1>3 DEF EndsAtTip, Tip, After, Position
<1>9. \A x \in Positions : Front(x) => Front(x)'
  BY <1>1, <1>3 DEF Front, Continues, n
<1> QED BY <1>5, <1>6, <1>7, <1>8, <1>9 DEF StreamInv

\* Whatever A does, the reader finds what it would have found.
LEMMA ReaderOfA ==
  ASSUME BEnd, StreamInv, StreamInv', ReaderInv, UNCHANGED <<bVars, got, delivered>>,
         \A x \in Positions : Front(x) => Front(x)',
         Len(stream) > 0 \/ partial => Len(stream') > 0 \/ partial'
  PROVE  ReaderInv'
<1>1. UNCHANGED <<bPc, bSegs, bInPkt, bOwner>>
  BY DEF bVars
<1>2. Len(delivered) \in Nat
  BY SeqFacts DEF StreamInv, StreamTypes
<1>3. Gathered'
  BY <1>1 DEF ReaderInv, Gathered, Nothing
<1>4. AtBoundary'
  <2>0. Position(Len(delivered) + 1, 0, NoProc) \in Positions
    BY <1>2 DEF Positions, Position
  <2>1. PICK x \in Positions : x = Position(Len(delivered) + 1, 0, NoProc)
    BY <2>0
  <2>2. bOwner["read"] = NoProc => Front(x)'
    BY <2>1 DEF ReaderInv, AtBoundary
  <2> QED BY <1>1, <2>1, <2>2 DEF AtBoundary, Front, Tip, Continues, Position
<1>5. AtWork'
  <2>1. SUFFICES ASSUME NEW r \in BReaders, bPc[r] = "io"
                 PROVE  /\ got[r].ok /\ (bSegs[r] > 0 => got[r].tsdu = Len(delivered) + 1)
                        /\ Front(Reached(got[r]))'
                        /\ bInPkt[r] => Len(stream') > 0 \/ partial'
    BY <1>1 DEF AtWork
  <2>2. /\ got[r].ok /\ (bSegs[r] > 0 => got[r].tsdu = Len(delivered) + 1)
        /\ Front(Reached(got[r]))
        /\ bInPkt[r] => Len(stream) > 0 \/ partial
    BY <2>1 DEF ReaderInv, AtWork
  <2>3. Reached(got[r]) \in Positions
    BY <1>2 DEF ReaderInv, Gathered, Positions, Reached, Position
  <2>4. PICK x \in Positions : x = Reached(got[r])
    BY <2>3
  <2>5. Front(x)'
    BY <2>2, <2>4
  <2>6. (Reached(got[r]))' = x
    BY <2>4 DEF Reached, Position
  <2> QED BY <2>2, <2>5, <2>6 DEF Front, Tip, Continues
<1> QED BY <1>3, <1>4, <1>5 DEF ReaderInv

-----------------------------------------------------------------------------
(* Steps of B and the stream                                               *)

\* The writers' side of the invariant does not see them.
LEMMA StreamOfB ==
  ASSUME StreamInv, UNCHANGED <<aVars, stream, partial, history>>
  PROVE  StreamInv' /\ \A x : Front(x) <=> Front(x)'
<1>1. UNCHANGED <<aPc, aOwner, aDone, stream, partial, accepted, delivered>>
  BY DEF aVars, history
<1>2. StreamTypes' /\ Shape' /\ Chain'
  BY <1>1 DEF StreamInv, StreamTypes, Shape, Chain, IsSegment, Continues, After, Position
<1>3. EndsAtTip'
  BY <1>1 DEF StreamInv, EndsAtTip, Tip, After, Position
<1>4. \A x : Front(x) <=> Front(x)'
  BY <1>1 DEF Front, Tip, Continues
<1> QED BY <1>2, <1>3, <1>4 DEF StreamInv

\* A step of B that reads nothing; the segments go with the call.
LEMMA ReaderQuiet ==
  ASSUME BEnd, BEnd', BStill, StreamInv, ReaderInv,
         UNCHANGED <<aVars, stream, partial, history>>,
         DOMAIN got' = BReaders,
         \A r \in BReaders : \/ bSegs'[r] = bSegs[r] /\ got'[r] = got[r]
                             \/ bSegs'[r] = 0 /\ got'[r] = Nothing /\ bPc'[r] = "idle"
  PROVE  ReaderInv'
<1>1. UNCHANGED <<stream, partial, accepted, delivered>> /\ \A x : Front(x) <=> Front(x)'
  BY StreamOfB DEF history
<1>2. bOwner' = bOwner
  BY DEF BStill
<1>3. Gathered'
  <2>1. Nothing \in [by : AWriters \cup {NoProc}, tsdu : Nat, len : Nat, ok : BOOLEAN]
    BY DEF Nothing
  <2>2. (Nothing)' = Nothing
    BY DEF Nothing
  <2> HIDE DEF Nothing
  <2> QED BY <2>1, <2>2 DEF ReaderInv, Gathered
<1>4. AtBoundary'
  <2>1. PICK x : x = Position(Len(delivered) + 1, 0, NoProc)
    OBVIOUS
  <2>2. bOwner["read"] = NoProc => Front(x)'
    BY <1>1, <2>1 DEF ReaderInv, AtBoundary
  <2> QED BY <1>1, <1>2, <2>1, <2>2 DEF AtBoundary, Front, Tip, Continues, Position
<1>5. AtWork'
  <2>1. SUFFICES ASSUME NEW r \in BReaders, bPc'[r] = "io"
                 PROVE  /\ got'[r].ok /\ (bSegs'[r] > 0 => got'[r].tsdu = Len(delivered) + 1)
                        /\ Front(Position(Len(delivered) + 1, got'[r].len, got'[r].by))
                        /\ bInPkt'[r] => Len(stream) > 0 \/ partial
    <3>1. SUFFICES ASSUME NEW r \in BReaders, bPc'[r] = "io"
                   PROVE  (/\ got[r].ok /\ (bSegs[r] > 0 => got[r].tsdu = Len(delivered) + 1)
                           /\ Front(Reached(got[r]))
                           /\ bInPkt[r] => Len(stream) > 0 \/ partial)'
      BY DEF AtWork
    <3>2. PICK x : x = Position(Len(delivered) + 1, got'[r].len, got'[r].by)
      OBVIOUS
    <3>3. Front(x) /\ (Reached(got[r]))' = x
      BY <1>1, <2>1, <3>1, <3>2 DEF Reached, Position
    <3>4. Front(x)'
      BY <1>1, <3>3
    <3>5. Front(Reached(got[r]))'
      BY <3>3, <3>4 DEF Front, Tip, Continues
    <3> QED BY <1>1, <2>1, <3>1, <3>5
  <2>2. /\ bInPkt'[r] = bInPkt[r] /\ bSegs'[r] = bSegs[r]
        /\ bPc[r] = "io" \/ (bOwner["read"] = NoProc /\ bSegs[r] = 0 /\ ~bInPkt[r])
    BY <2>1 DEF BStill
  <2>3. got'[r] = got[r]
    BY <2>1
  <2>4. CASE bPc[r] = "io"
    BY <2>2, <2>3, <2>4 DEF ReaderInv, AtWork, Reached
  <2>5. CASE bPc[r] # "io"
    <3>1. got[r] = Nothing
      BY <2>2, <2>5 DEF ReaderInv, Gathered
    <3>2. got[r].ok /\ got[r].len = 0 /\ got[r].by = NoProc
      BY <3>1 DEF Nothing
    <3> QED BY <2>2, <2>3, <2>5, <3>2 DEF ReaderInv, AtBoundary
  <2> QED BY <2>4, <2>5
<1> QED BY <1>3, <1>4, <1>5 DEF ReaderInv

\* The first octets of a packet are there to be read.
LEMMA ReaderOctets ==
  ASSUME BEnd, StreamInv, ReaderInv, NEW r \in BReaders, ReadOctets(r)
  PROVE  ReaderInv'
<1>1. /\ UNCHANGED <<stream, partial, accepted, delivered, got>> /\ \A x : Front(x) <=> Front(x)'
      /\ Len(stream) > 0 \/ partial
  BY StreamOfB, SeqFacts DEF ReadOctets, history, StreamInv, StreamTypes
<1>2. /\ bOwner'["read"] = r /\ UNCHANGED <<bPc, bSegs>>
  BY BOctetsStep DEF ReadOctets
<1>3. Gathered'
  BY <1>1, <1>2 DEF ReaderInv, Gathered, Nothing
<1>4. AtBoundary'
  BY <1>2, EndsAssumption DEF AtBoundary
<1>5. AtWork'
  <2> SUFFICES ASSUME NEW q \in BReaders, bPc'[q] = "io"
               PROVE  (/\ got[q].ok /\ (bSegs[q] > 0 => got[q].tsdu = Len(delivered) + 1)
                       /\ Front(Reached(got[q]))
                       /\ bInPkt[q] => Len(stream) > 0 \/ partial)'
    BY DEF AtWork
  <2>1. PICK x : x = Reached(got[q])
    OBVIOUS
  <2>2. Front(x)' /\ (Reached(got[q]))' = x
    BY <1>1, <1>2, <2>1 DEF ReaderInv, AtWork, Reached, Position
  <2>3. Front(Reached(got[q]))'
    BY <2>2 DEF Front, Tip, Continues
  <2> QED BY <1>1, <1>2, <2>3 DEF ReaderInv, AtWork
<1> QED BY <1>3, <1>4, <1>5 DEF ReaderInv

\* The rest of a packet, from the reader's side: the segment in front goes on
\* where the reader is, the next one where this one leaves off.
LEMMA SegmentRead ==
  ASSUME AEnd, BEnd, StreamInv, ReaderInv, NEW r \in BReaders, ReadSegment(r)
  PROVE  \E s \in Segments :
         /\ s = stream[1] /\ Len(stream) > 0
         /\ stream' = Tail(stream)
         /\ IsSegment(s)
         /\ B!ReadPacket(r, [type |-> "DT", len |-> s.to - s.from, eot |-> s.eot])
         /\ bPc[r] = "io" => Continues(s, Reached(got[r]))
         /\ StreamTypes' /\ Shape' /\ Chain' /\ EndsAtTip'
         /\ Front(After(s))'
<1> DEFINE n == Len(stream)
<1>1. stream \in Seq(Segments) /\ stream # <<>>
  BY DEF StreamInv, StreamTypes, ReadSegment
<1>2. /\ n \in Nat /\ n > 0 /\ Head(stream) = stream[1] /\ stream[1] \in Segments
      /\ Tail(stream) \in Seq(Segments) /\ Len(Tail(stream)) = n - 1
      /\ \A i \in 1 .. n - 1 : Tail(stream)[i] = stream[i + 1]
  BY <1>1, SeqFacts
<1>3. PICK s \in Segments : s = stream[1]
  BY <1>2
<1>4. /\ stream' = Tail(stream) /\ UNCHANGED <<partial, accepted, aPc, aOwner, aDone>>
      /\ B!ReadPacket(r, [type |-> "DT", len |-> s.to - s.from, eot |-> s.eot])
  BY <1>2, <1>3 DEF ReadSegment, aVars
<1>5. IsSegment(s)
  BY <1>2, <1>3 DEF StreamInv, Shape
<1>6. bPc[r] = "io" => Continues(s, Reached(got[r]))
  BY <1>2, <1>3 DEF ReaderInv, AtWork, Front
<1>7. Len(stream') = n - 1 /\ \A i \in 1 .. n - 1 : stream'[i] = stream[i + 1]
  BY <1>2, <1>4
<1>8. Shape'
  <2> SUFFICES ASSUME NEW i \in 1 .. n - 1 PROVE IsSegment(stream[i])'
    BY <1>7 DEF Shape
  <2>1. i + 1 \in 1 .. n
    BY <1>2
  <2>2. IsSegment(stream[i + 1])
    BY <2>1 DEF StreamInv, Shape
  <2> QED BY <1>4, <1>7, <2>2 DEF IsSegment
<1>9. Chain'
  <2> SUFFICES ASSUME NEW i \in 1 .. n - 2 PROVE Continues(stream[i + 1], After(stream[i]))'
    BY <1>2, <1>7 DEF Chain
  <2>1. i \in 1 .. n - 1 /\ i + 1 \in 1 .. n - 1
    BY <1>2
  <2>2. Continues(stream[i + 2], After(stream[i + 1]))
    <3>1. (i + 1) + 1 = i + 2
      OBVIOUS
    <3> QED BY <2>1, <3>1 DEF StreamInv, Chain
  <2>3. stream'[i + 1] = stream[i + 2] /\ stream'[i] = stream[i + 1]
    <3>1. (i + 1) + 1 = i + 2
      OBVIOUS
    <3> QED BY <1>7, <2>1, <3>1
  <2> QED BY <2>2, <2>3 DEF Continues, After, Position
<1>10. \A x : Tip(x) => Tip(x)'
  BY <1>4 DEF Tip
<1>11. EndsAtTip'
  <2> SUFFICES ASSUME n - 1 > 0 PROVE Tip(After(stream[Len(stream)]))'
    BY <1>7 DEF EndsAtTip
  <2>1. stream'[Len(stream')] = stream[n]
    <3>1. n - 1 \in 1 .. n - 1 /\ (n - 1) + 1 = n
      BY <1>2
    <3> QED BY <1>7, <3>1
  <2>2. PICK x : x = After(stream[n])
    OBVIOUS
  <2>3. Tip(x)'
    BY <1>2, <1>10, <2>2 DEF StreamInv, EndsAtTip
  <2>4. (After(stream[Len(stream)]))' = x
    BY <2>1, <2>2 DEF After, Position
  <2> QED BY <2>3, <2>4 DEF Tip
<1>12. Front(After(s))'
  <2>1. CASE n = 1
    <3>1. Tip(After(s))'
      BY <1>3, <1>10, <2>1 DEF StreamInv, EndsAtTip
    <3> QED BY <1>7, <2>1, <3>1 DEF Front
  <2>2. CASE n # 1
    <3>1. 1 \in 1 .. n - 1 /\ 1 + 1 = 2
      BY <1>2, <2>2
    <3>2. Continues(stream[2], After(s)) /\ stream'[1] = stream[2]
      BY <1>3, <1>7, <3>1 DEF StreamInv, Chain
    <3> QED BY <1>2, <1>7, <2>2, <3>2 DEF Front, Continues, After, Position
  <2> QED BY <2>1, <2>2
<1>13. StreamTypes'
  <2>1. delivered' \in Seq([tsdu : Nat, len : Nat])
    <3> DEFINE last == [tsdu |-> IF got'[r].ok THEN s.tsdu ELSE 0, len |-> got'[r].len]
    <3>1. /\ delivered' = IF bSegs'[r] > bSegs[r] /\ s.eot THEN Append(delivered, last) ELSE delivered
          /\ got' = IF bSegs'[r] > bSegs[r] THEN [got EXCEPT ![r] = Join(got[r], s)] ELSE got
      BY <1>2, <1>3 DEF ReadSegment
    <3>2. CASE ~(bSegs'[r] > bSegs[r] /\ s.eot)
      BY <3>1, <3>2 DEF StreamInv, StreamTypes
    <3>3. CASE bSegs'[r] > bSegs[r] /\ s.eot
      <4>1. got'[r] = Join(got[r], s)
        BY <3>1, <3>3 DEF ReaderInv, Gathered
      <4>2. got[r].len \in Nat /\ s.from \in Nat /\ s.to \in Nat /\ s.from < s.to /\ s.tsdu \in Nat
        BY <1>5 DEF ReaderInv, Gathered, Segments, IsSegment
      <4>3. got'[r].len \in Nat
        BY <4>1, <4>2 DEF Join
      <4>4. (IF got'[r].ok THEN s.tsdu ELSE 0) \in Nat
        BY <4>2
      <4>5. last \in [tsdu : Nat, len : Nat]
        BY <4>3, <4>4
      <4>6. delivered' = Append(delivered, last)
        BY <3>1, <3>3
      <4> HIDE DEF last
      <4> QED BY <4>5, <4>6, SeqFacts DEF StreamInv, StreamTypes
    <3> QED BY <3>2, <3>3
  <2> QED BY <1>2, <1>4, <2>1 DEF StreamInv, StreamTypes
<1> QED BY <1>2, <1>3, <1>4, <1>5, <1>6, <1>8, <1>9, <1>11, <1>12, <1>13

\* What ReadSegment does to the reader: the packet is refused, or it is the
\* next part of the next TSDU, or the last one and the TSDU is delivered.
LEMMA SegmentTaken ==
  ASSUME AEnd, BEnd, StreamInv, ReaderInv, NEW r \in BReaders, ReadSegment(r)
  PROVE  /\ BEnd' /\ StreamInv' /\ ReaderInv'
         /\ \/ delivered' = delivered
            \/ /\ Len(delivered) < Len(accepted)
               /\ delivered' = Append(delivered, [tsdu |-> Len(delivered) + 1, len |-> accepted[Len(delivered) + 1]])
<1>1. PICK s \in Segments :
        /\ s = stream[1] /\ Len(stream) > 0
        /\ stream' = Tail(stream)
        /\ IsSegment(s)
        /\ B!ReadPacket(r, [type |-> "DT", len |-> s.to - s.from, eot |-> s.eot])
        /\ bPc[r] = "io" => Continues(s, Reached(got[r]))
        /\ StreamTypes' /\ Shape' /\ Chain' /\ EndsAtTip'
        /\ Front(After(s))'
  BY SegmentRead
<1> DEFINE pkt == [type |-> "DT", len |-> s.to - s.from, eot |-> s.eot]
           g == got[r]
<1>2. /\ s.from \in Nat /\ s.to \in Nat /\ s.from < s.to /\ s.tsdu \in Nat /\ s.by \in AWriters
      /\ s.eot \in BOOLEAN /\ pkt.eot = s.eot
  BY <1>1 DEF Segments, IsSegment
<1>3. /\ BEnd'
      /\ bPc[r] = "io" /\ bOwner["read"] = r
      /\ \A q \in BReaders : q # r => bPc'[q] = bPc[q] /\ bSegs'[q] = bSegs[q] /\ bPc[q] # "io"
      /\ ~bInPkt'[r]
      /\ \/ bPc'[r] = "finish" /\ bSegs'[r] = bSegs[r] /\ bOwner' = bOwner
         \/ bPc'[r] = "io" /\ bSegs'[r] = bSegs[r] + 1 /\ bOwner' = bOwner /\ ~s.eot
         \/ bPc'[r] = "return" /\ bSegs'[r] = bSegs[r] + 1 /\ bOwner'["read"] = NoProc /\ s.eot
  <2> HIDE DEF pkt
  <2>1. B!ReadPacket(r, pkt) /\ pkt.eot \in BOOLEAN
    BY <1>1, <1>2 DEF pkt
  <2> QED BY <1>2, <2>1, BPacketStep
<1>4. /\ s.tsdu = Len(delivered) + 1 /\ s.from = g.len /\ (g.len > 0 => s.by = g.by)
      /\ Len(delivered) \in Nat
  BY <1>1, <1>3, SeqFacts DEF Continues, Reached, Position, StreamInv, StreamTypes
<1>5. /\ g \in [by : AWriters \cup {NoProc}, tsdu : Nat, len : Nat, ok : BOOLEAN]
      /\ g.ok /\ bSegs[r] \in Nat
      /\ g # Nothing => g.len > 0 /\ g.tsdu = Len(delivered) + 1
  BY <1>3 DEF ReaderInv, Gathered, AtWork, BEnd, BTypes
<1>6. /\ Join(g, s).by = s.by /\ Join(g, s).tsdu = s.tsdu /\ Join(g, s).len = s.to
  BY <1>2, <1>4, <1>5 DEF Join
<1>7. Join(g, s).ok
  BY <1>4, <1>5 DEF Join
<1>8. Join(g, s) \in [by : AWriters \cup {NoProc}, tsdu : Nat, len : Nat, ok : BOOLEAN]
  <2>1. (g.ok /\ s.from = g.len /\ (g # Nothing => g.by = s.by /\ g.tsdu = s.tsdu)) \in BOOLEAN
    BY <1>5
  <2> QED BY <1>2, <1>5, <2>1 DEF Join
<1> HIDE DEF pkt, g
<1>9. got' = IF bSegs'[r] > bSegs[r] THEN [got EXCEPT ![r] = Join(g, s)] ELSE got
  BY <1>1, SeqFacts DEF ReadSegment, g, StreamInv, StreamTypes
<1>10. delivered' = IF bSegs'[r] > bSegs[r] /\ s.eot
                      THEN Append(delivered, [tsdu |-> IF got'[r].ok THEN s.tsdu ELSE 0, len |-> got'[r].len])
                      ELSE delivered
  BY <1>1, SeqFacts DEF ReadSegment, StreamInv, StreamTypes
<1>11. StreamInv'
  BY <1>1 DEF StreamInv
<1>12. (Nothing)' = Nothing
  BY DEF Nothing
<1>13. CASE bPc'[r] = "finish"
  <2>1. bSegs'[r] = bSegs[r] /\ got' = got /\ delivered' = delivered /\ bOwner'["read"] = r
    BY <1>3, <1>5, <1>9, <1>10, <1>13
  <2>2. Gathered'
    BY <1>3, <1>12, <2>1 DEF ReaderInv, Gathered
  <2>3. AtBoundary' /\ AtWork'
    BY <1>3, <1>13, <2>1, EndsAssumption DEF AtBoundary, AtWork
  <2> QED BY <1>3, <1>11, <2>1, <2>2, <2>3 DEF ReaderInv
<1>14. CASE bPc'[r] # "finish"
  <2>1. bSegs'[r] = bSegs[r] + 1 /\ bSegs'[r] > bSegs[r] /\ bSegs'[r] # 0
    BY <1>3, <1>5, <1>14
  <2>2. /\ got'[r] = Join(g, s) /\ DOMAIN got' = BReaders
        /\ \A q \in BReaders : q # r => got'[q] = got[q]
    BY <1>9, <2>1 DEF ReaderInv, Gathered
  <2>3. Gathered'
    BY <1>2, <1>3, <1>6, <1>8, <1>12, <2>1, <2>2 DEF ReaderInv, Gathered
  <2>4. CASE s.eot
    <3>1. /\ bPc'[r] = "return" /\ bOwner'["read"] = NoProc
          /\ delivered' = Append(delivered, [tsdu |-> s.tsdu, len |-> s.to])
      BY <1>3, <1>6, <1>7, <1>10, <1>14, <2>1, <2>2, <2>4
    <3>2. Len(delivered') = Len(delivered) + 1
      <4>1. [tsdu |-> s.tsdu, len |-> s.to] \in [tsdu : Nat, len : Nat]
        BY <1>2
      <4> QED BY <3>1, <4>1, SeqFacts DEF StreamInv, StreamTypes
    <3>3. s.tsdu \in 1 .. Len(accepted) /\ s.to = accepted[s.tsdu] /\ Len(accepted) \in Nat
      BY <1>1, <2>4, SeqFacts DEF IsSegment, StreamInv, StreamTypes
    <3>4. AtBoundary'
      <4>1. After(s) = Position(Len(delivered) + 2, 0, NoProc)
        BY <1>4, <2>4 DEF After
      <4>2. (Position(Len(delivered) + 1, 0, NoProc))' = After(s)
        BY <1>4, <3>2, <4>1 DEF Position
      <4> QED BY <1>1, <4>2 DEF AtBoundary, Front, Tip, Continues
    <3>5. AtWork'
      BY <1>3, <3>1 DEF AtWork
    <3> QED BY <1>3, <1>4, <1>11, <2>3, <3>1, <3>3, <3>4, <3>5 DEF ReaderInv
  <2>5. CASE ~s.eot
    <3>1. bPc'[r] = "io" /\ bOwner'["read"] = r /\ delivered' = delivered
      BY <1>3, <1>10, <1>14, <2>5
    <3>2. AtBoundary'
      BY <3>1, EndsAssumption DEF AtBoundary
    <3>3. AtWork'
      <4>1. SUFFICES (/\ got[r].ok /\ (bSegs[r] > 0 => got[r].tsdu = Len(delivered) + 1)
                      /\ Front(Reached(got[r]))
                      /\ bInPkt[r] => Len(stream) > 0 \/ partial)'
        BY <1>3 DEF AtWork
      <4>2. (Reached(got[r]))' = After(s)
        BY <1>4, <1>6, <2>2, <2>5, <3>1 DEF Reached, After, Position
      <4>3. Front(Reached(got[r]))'
        BY <1>1, <4>2 DEF Front, Tip, Continues
      <4> QED BY <1>3, <1>4, <1>6, <1>7, <2>2, <3>1, <4>3
    <3> QED BY <1>3, <1>11, <2>3, <3>1, <3>2, <3>3 DEF ReaderInv
  <2> QED BY <1>2, <2>4, <2>5
<1> QED BY <1>13, <1>14

-----------------------------------------------------------------------------
(* The end of the stream                                                   *)

\* A has closed its end, and every whole packet of it has been read.
AtEnd == ~aRawOpen /\ Len(stream) = 0

\* Where B finds the end of the stream, a part of a packet has been read too.
EofInv ==
  bNet = "eof" =>
    /\ AtEnd
    /\ partial => /\ bOwner["read"] # NoProc
                  /\ bPc[bOwner["read"]] = "io" => bInPkt[bOwner["read"]]

\* What the error e of the stream tells the reader, who holds segments or not.
Raw(e, mid) ==
  /\ "ErrIncompleteTSDU" \notin e
  /\ "EOF" \in e => /\ "ErrUnexpectedEOF" \notin e
                    /\ AtEnd /\ Len(delivered) = Len(accepted)
                    /\ mid <=> aOwner["write"] # NoProc
  /\ "ErrUnexpectedEOF" \in e => /\ AtEnd /\ Len(delivered) = Len(accepted)
                                 /\ aOwner["write"] # NoProc

\* What the cause e tells the user.
Cause(e) ==
  /\ "EOF" \in e => /\ AtEnd /\ Len(delivered) = Len(accepted)
                    /\ "ErrIncompleteTSDU" \in e <=> aOwner["write"] # NoProc
  /\ "ErrUnexpectedEOF" \in e => /\ AtEnd /\ Len(delivered) = Len(accepted)
                                 /\ aOwner["write"] # NoProc

CauseInv ==
  /\ \A r \in BReaders : bPc[r] \in Failing => Raw(bErr[r], bSegs[r] > 0)
  /\ \A r \in BReaders : bPc[r] = "finish" => Cause(bErr[r])
  /\ Cause(bTermErr)

TransferInv == AEnd /\ BEnd /\ StreamInv /\ ReaderInv /\ EofInv /\ CauseInv

\* What a read of the stream fails with is true of the stream.
LEMMA StreamErrorsAreTrue ==
  ASSUME BEnd, StreamInv, ReaderInv, EofInv, NEW r \in BReaders, bPc[r] = "io",
         NEW e \in B!StreamErrors(r)
  PROVE  Raw(e, bSegs[r] > 0)
<1>1. /\ got[r].len \in Nat /\ bSegs[r] \in Nat
      /\ bSegs[r] > 0 => got[r].len > 0
      /\ bSegs[r] = 0 => got[r].len = 0
  BY DEF ReaderInv, Gathered, BEnd, BTypes, Nothing
<1>2. CASE e = {"EOF"}
  <2>1. bNet = "eof" /\ ~bInPkt[r]
    BY <1>2 DEF B!StreamErrors
  <2>2. AtEnd /\ Tip(Reached(got[r]))
    BY <2>1 DEF EofInv, AtEnd, ReaderInv, AtWork, Front
  <2>3. Len(accepted) \in Nat /\ Len(delivered) \in Nat
    BY SeqFacts DEF StreamInv, StreamTypes
  <2>4. Len(delivered) = Len(accepted)
    BY <2>2, <2>3 DEF Tip, Reached, Position
  <2>5. bSegs[r] > 0 => aOwner["write"] # NoProc
    BY <1>1, <2>2, EndsAssumption DEF Tip, Reached, Position
  <2>6. ~partial
    BY <2>1 DEF EofInv, BEnd, BInside
  <2>7. aOwner["write"] # NoProc => bSegs[r] > 0
    BY <1>1, <2>2, <2>6 DEF Tip, Reached, Position
  <2> QED BY <1>2, <2>2, <2>4, <2>5, <2>7 DEF Raw
<1>3. CASE e = {"ErrUnexpectedEOF"}
  <2>1. bNet = "eof" /\ bInPkt[r]
    BY <1>3 DEF B!StreamErrors
  <2>2. AtEnd /\ Tip(Reached(got[r]))
    BY <2>1 DEF EofInv, AtEnd, ReaderInv, AtWork, Front
  <2>3. partial
    BY <2>1 DEF ReaderInv, EofInv, AtEnd, AtWork
  <2>4. Len(accepted) \in Nat /\ Len(delivered) \in Nat
    BY SeqFacts DEF StreamInv, StreamTypes
  <2>5. Len(delivered) = Len(accepted)
    BY <2>2, <2>4 DEF Tip, Reached, Position
  <2> QED BY <1>3, <2>2, <2>3, <2>5 DEF Raw, StreamInv, StreamTypes
<1>4. CASE e # {"EOF"} /\ e # {"ErrUnexpectedEOF"}
  <2>1. e \in {{"net.ErrClosed"}, {"timeout"}, {"ECONNRESET"}, {"timeout", "ETIMEDOUT"}, {"EIO"}, {"tpkt"}}
    BY <1>4 DEF B!StreamErrors
  <2> QED BY <2>1 DEF Raw
<1> QED BY <1>2, <1>3, <1>4

\* classifyIOPhase keeps it true.
LEMMA ClassifyIsTrue ==
  ASSUME BEnd, NEW r \in BReaders, NEW e, Raw(e, bSegs[r] > 0)
  PROVE  Cause(B!classifyIOPhase(r, e))
<1> DEFINE c == B!classifyIOPhase(r, e)
<1>1. bCtx[r] \in {"nil", "Canceled", "DeadlineExceeded"}
  BY DEF BEnd, BTypes
<1>2. CASE bCtx[r] # "nil" \/ (bDl[r] # "none" /\ B!isTimeout(e))
  <2>1. c \in {{"ErrClosed", "Canceled"}, {"ErrClosed", "DeadlineExceeded"}}
    BY <1>1, <1>2 DEF B!classifyIOPhase
  <2> QED BY <2>1 DEF Cause
<1>3. CASE ~(bCtx[r] # "nil" \/ (bDl[r] # "none" /\ B!isTimeout(e)))
  <2>1. CASE "EOF" \in e
    <3>1. c = IF bSegs[r] > 0 THEN {"ErrIncompleteTSDU"} \cup ({"ErrDisconnected"} \cup e) ELSE {"ErrDisconnected"} \cup e
      BY <1>3, <2>1 DEF B!classifyIOPhase, B!abortOpen, B!mid, B!DisconnectError
    <3>2. /\ "EOF" \in c /\ "ErrUnexpectedEOF" \notin c
          /\ "ErrIncompleteTSDU" \in c <=> bSegs[r] > 0
      BY <2>1, <3>1 DEF Raw
    <3> QED BY <2>1, <3>2 DEF Cause, Raw
  <2>2. CASE "EOF" \notin e
    <3>1. "EOF" \notin c
      BY <1>3, <2>2 DEF B!classifyIOPhase, B!abortOpen, B!DisconnectError
    <3>2. "ErrUnexpectedEOF" \in c => "ErrUnexpectedEOF" \in e
      BY <1>3, <2>2 DEF B!classifyIOPhase, B!abortOpen, B!DisconnectError
    <3> QED BY <3>1, <3>2 DEF Cause, Raw
  <2> QED BY <2>1, <2>2
<1> QED BY <1>2, <1>3

\* Once the stream is at its end for B, nothing more happens in it.
LEMMA CauseStays ==
  ASSUME AtEnd => AtEnd' /\ UNCHANGED <<accepted, delivered, aOwner>>
  PROVE  /\ \A e : Cause(e) => Cause(e)'
         /\ \A e : \A m \in BOOLEAN : Raw(e, m) => Raw(e, m)'
BY DEF Cause, Raw

\* The error path and finish pass on what is true.
LEMMA CauseStep ==
  ASSUME BEnd, StreamInv, ReaderInv, EofInv, CauseInv, BErrors,
         AtEnd => AtEnd' /\ UNCHANGED <<accepted, delivered, aOwner>>
  PROVE  CauseInv'
<1>1. /\ \A e : Cause(e) => Cause(e)'
      /\ \A e : \A m \in BOOLEAN : Raw(e, m) => Raw(e, m)'
  BY CauseStays
<1>2. ASSUME NEW r \in BReaders, bPc'[r] \in Failing
      PROVE  Raw(bErr[r], bSegs[r] > 0)'
  <2>1. bSegs'[r] = bSegs[r]
    BY <1>2 DEF BErrors
  <2>2. PICK e : e = bErr'[r]
    OBVIOUS
  <2>3. Raw(e, bSegs[r] > 0)
    BY <1>2, <2>2, StreamErrorsAreTrue DEF BErrors, CauseInv
  <2>4. CASE bSegs[r] > 0
    <3>1. Raw(e, TRUE)'
      BY <1>1, <2>3, <2>4 DEF Raw
    <3> QED BY <2>1, <2>2, <2>4, <3>1 DEF Raw
  <2>5. CASE ~(bSegs[r] > 0)
    <3>1. Raw(e, FALSE)'
      BY <1>1, <2>3, <2>5 DEF Raw
    <3> QED BY <2>1, <2>2, <2>5, <3>1 DEF Raw
  <2> QED BY <2>4, <2>5
<1>3. ASSUME NEW r \in BReaders, bPc'[r] = "finish"
      PROVE  Cause(bErr[r])'
  <2>1. PICK e : e = bErr'[r]
    OBVIOUS
  <2>2. Cause(e)
    BY <1>3, <2>1, ClassifyIsTrue DEF BErrors, CauseInv, Failing
  <2> QED BY <1>1, <2>1, <2>2
<1>4. Cause(bTermErr)'
  <2>1. PICK e : e = bTermErr'
    OBVIOUS
  <2>2. Cause(e)
    BY <2>1 DEF BErrors, CauseInv
  <2> QED BY <1>1, <2>1, <2>2
<1> QED BY <1>2, <1>3, <1>4 DEF CauseInv

-----------------------------------------------------------------------------
(* The steps of the two ends together                                      *)

\* A step of A that moves no octets.
LEMMA QuietOfA ==
  ASSUME TransferInv, AEnd', AStill, UNCHANGED <<bVars, stream, partial, got, history>>
  PROVE  TransferInv'
<1>1. AEnd /\ BEnd /\ StreamInv /\ ReaderInv /\ EofInv /\ CauseInv
  BY DEF TransferInv
<1>2. BEnd' /\ BErrors
  BY <1>1, BRestStep
<1>3. StreamInv' /\ \A x \in Positions : Front(x) => Front(x)'
  BY <1>1, StreamQuiet
<1>4. ReaderInv'
  BY <1>1, <1>3, ReaderOfA DEF history
<1>5. AtEnd => AtEnd' /\ UNCHANGED <<accepted, delivered, aOwner>>
  BY DEF AtEnd, AStill, history
<1>6. CauseInv'
  BY <1>1, <1>2, <1>5, CauseStep
<1>7. EofInv'
  BY <1>1, <1>5 DEF EofInv, bVars
<1> QED BY <1>2, <1>3, <1>4, <1>6, <1>7 DEF TransferInv

\* WriteOctets.
LEMMA OctetsOfA ==
  ASSUME TransferInv, NEW w \in AWriters, WriteOctets(w)
  PROVE  TransferInv' /\ UNCHANGED <<accepted, delivered, aTermKind, bTermKind>>
<1>1. AEnd /\ BEnd /\ StreamInv /\ ReaderInv /\ EofInv /\ CauseInv
  BY DEF TransferInv
<1>2. UNCHANGED bVars /\ UNCHANGED <<stream, got, accepted, delivered>> /\ partial' = TRUE
  BY DEF WriteOctets, history
<1>3. AEnd' /\ aRawOpen /\ UNCHANGED <<aRawOpen, aTermKind>>
  BY <1>1, AOctetsStep DEF WriteOctets
<1>4. BEnd' /\ BErrors
  BY <1>1, <1>2, BRestStep
<1>5. StreamInv' /\ \A x \in Positions : Front(x) => Front(x)'
  BY <1>1, StreamOctets
<1>6. ReaderInv'
  BY <1>1, <1>2, <1>5, ReaderOfA
<1>7. ~AtEnd
  BY <1>3 DEF AtEnd
<1>8. CauseInv'
  BY <1>1, <1>4, <1>7, CauseStep
<1>9. EofInv'
  BY <1>1, <1>2, <1>7 DEF EofInv, bVars
<1> QED BY <1>2, <1>3, <1>4, <1>5, <1>6, <1>8, <1>9 DEF TransferInv, bVars

\* WriteSegment.
LEMMA SegmentOfA ==
  ASSUME TransferInv, NEW w \in AWriters, WriteSegment(w)
  PROVE  /\ TransferInv' /\ UNCHANGED <<delivered, aTermKind, bTermKind>>
         /\ \/ accepted' = accepted
            \/ \E n \in TsduLens \cap (1 .. AMaxTSDU) : accepted' = Append(accepted, n)
<1>1. AEnd /\ BEnd /\ StreamInv /\ ReaderInv /\ EofInv /\ CauseInv
  BY DEF TransferInv
<1>2. UNCHANGED bVars /\ UNCHANGED <<got, delivered>>
  BY DEF WriteSegment
<1>3. AEnd' /\ aRawOpen /\ UNCHANGED <<aRawOpen, aTermKind>>
  BY <1>1, APacketStep DEF WriteSegment
<1>4. PICK seg \in Segments :
        /\ stream' = Append(stream, seg)
        /\ \/ aLen[w] \in TsduLens \cap (1 .. AMaxTSDU) /\ accepted' = Append(accepted, aLen[w])
           \/ accepted' = accepted
  BY <1>1, SegmentFacts DEF StreamInv
<1>5. BEnd' /\ BErrors
  BY <1>1, <1>2, BRestStep
<1>6. StreamInv' /\ \A x \in Positions : Front(x) => Front(x)'
  BY <1>1, StreamSegment
<1>7. Len(stream') > 0
  BY <1>1, <1>4, SeqFacts DEF StreamInv, StreamTypes
<1>8. ReaderInv'
  BY <1>1, <1>2, <1>6, <1>7, ReaderOfA
<1>9. ~AtEnd
  BY <1>3 DEF AtEnd
<1>10. CauseInv'
  BY <1>1, <1>5, <1>9, CauseStep
<1>11. EofInv'
  BY <1>1, <1>2, <1>9 DEF EofInv, bVars
<1> QED BY <1>2, <1>3, <1>4, <1>5, <1>6, <1>8, <1>10, <1>11 DEF TransferInv, bVars

\* A step of B that moves no octets, or the stream fails there.
LEMMA QuietOfB ==
  ASSUME TransferInv, BEnd', BStill, BErrors, UNCHANGED <<aVars, stream, partial, history>>,
         bNet' = bNet \/ BNetChanges,
         DOMAIN got' = BReaders,
         \A r \in BReaders : \/ bSegs'[r] = bSegs[r] /\ got'[r] = got[r]
                             \/ bSegs'[r] = 0 /\ got'[r] = Nothing /\ bPc'[r] = "idle"
  PROVE  TransferInv'
<1>1. AEnd /\ BEnd /\ StreamInv /\ ReaderInv /\ EofInv /\ CauseInv
  BY DEF TransferInv
<1>2. AEnd'
  BY <1>1, ARestStep
<1>3. StreamInv'
  BY <1>1, StreamOfB
<1>4. ReaderInv'
  BY <1>1, ReaderQuiet
<1>5. AtEnd => AtEnd' /\ UNCHANGED <<accepted, delivered, aOwner>>
  BY DEF AtEnd, aVars, history
<1>6. CauseInv'
  BY <1>1, <1>5, CauseStep
<1>7. EofInv'
  <2>1. CASE bNet' = bNet
    <3> SUFFICES ASSUME bNet = "eof"
                 PROVE  /\ AtEnd' /\ (partial' => bOwner'["read"] # NoProc)
                        /\ partial' /\ bPc'[bOwner'["read"]] = "io" => bInPkt'[bOwner'["read"]]
      BY <2>1 DEF EofInv
    <3>1. AtEnd' /\ bOwner' = bOwner
      BY <1>1, <1>5 DEF EofInv, BStill
    <3>2. partial => bOwner["read"] \in BReaders
      BY <1>1 DEF EofInv, BEnd, BTypes, Directions
    <3> QED BY <1>1, <3>1, <3>2, EndsAssumption DEF EofInv, BStill
  <2>2. CASE BNetChanges
    <3>1. UNCHANGED <<bPc, bInPkt, bOwner, aRawOpen, stream, partial>>
      BY <2>2 DEF BNetChanges, aVars, B!NetChanges, B!connVars, B!opVars
    <3>2. bNet' = "eof" => AtEnd'
      BY <1>1, <2>2, <3>1, SeqFacts DEF BNetChanges, AtEnd, StreamInv, StreamTypes
    <3>3. ASSUME bNet' = "eof", partial
          PROVE  bOwner["read"] # NoProc /\ bInPkt[bOwner["read"]]
      BY <1>1, <2>2, <3>3, EndsAssumption DEF BNetChanges, BEnd, BPacket
    <3> QED BY <3>1, <3>2, <3>3 DEF EofInv
  <2> QED BY <2>1, <2>2
<1> QED BY <1>2, <1>3, <1>4, <1>6, <1>7 DEF TransferInv

\* ReadOctets.
LEMMA OctetsOfB ==
  ASSUME TransferInv, NEW r \in BReaders, ReadOctets(r)
  PROVE  TransferInv' /\ UNCHANGED <<accepted, delivered, aTermKind, bTermKind>>
<1>1. AEnd /\ BEnd /\ StreamInv /\ ReaderInv /\ EofInv /\ CauseInv
  BY DEF TransferInv
<1>2. UNCHANGED aVars /\ UNCHANGED <<stream, partial, history, accepted, delivered>>
  BY DEF ReadOctets, history
<1>3. AEnd' /\ StreamInv' /\ ReaderInv'
  BY <1>1, <1>2, ARestStep, StreamOfB, ReaderOctets
<1>4. BEnd' /\ bNet' # "eof" /\ UNCHANGED <<bTermKind, bTermErr, bPc, bSegs, bErr>>
  BY <1>1, BOctetsStep DEF ReadOctets
<1>5. CauseInv'
  BY <1>1, <1>2, <1>4 DEF CauseInv, Cause, Raw, AtEnd, aVars
<1>6. EofInv'
  BY <1>4 DEF EofInv
<1> QED BY <1>2, <1>3, <1>4, <1>5, <1>6 DEF TransferInv, aVars

\* ReadSegment.
LEMMA SegmentOfB ==
  ASSUME TransferInv, NEW r \in BReaders, ReadSegment(r)
  PROVE  /\ TransferInv' /\ UNCHANGED <<accepted, aTermKind, bTermKind>>
         /\ \/ delivered' = delivered
            \/ /\ Len(delivered) < Len(accepted)
               /\ delivered' = Append(delivered, [tsdu |-> Len(delivered) + 1, len |-> accepted[Len(delivered) + 1]])
<1>1. AEnd /\ BEnd /\ StreamInv /\ ReaderInv /\ EofInv /\ CauseInv
  BY DEF TransferInv
<1>2. UNCHANGED aVars /\ accepted' = accepted
  BY DEF ReadSegment
<1>3. AEnd'
  BY <1>1, <1>2, ARestStep
<1>4. PICK s \in Segments :
        /\ Len(stream) > 0
        /\ B!ReadPacket(r, [type |-> "DT", len |-> s.to - s.from, eot |-> s.eot])
  BY <1>1, SegmentRead
<1> DEFINE pkt == [type |-> "DT", len |-> s.to - s.from, eot |-> s.eot]
<1>5. /\ bNet' # "eof" /\ UNCHANGED <<bTermKind, bTermErr>>
      /\ \A q \in BReaders : q # r => bPc'[q] = bPc[q] /\ bSegs'[q] = bSegs[q] /\ bErr'[q] = bErr[q]
      /\ bPc'[r] \in {"io", "return"} \/ (bPc'[r] = "finish" /\ bErr'[r] = B!abortOpen(r, B!segmentError(r, pkt)))
  <2>1. B!ReadPacket(r, pkt) /\ pkt.eot \in BOOLEAN
    BY <1>4 DEF Segments
  <2> HIDE DEF pkt
  <2> QED BY <1>1, <2>1, BPacketStep
<1>6. "EOF" \notin B!abortOpen(r, B!segmentError(r, pkt)) /\ "ErrUnexpectedEOF" \notin B!abortOpen(r, B!segmentError(r, pkt))
  BY DEF B!abortOpen, B!segmentError, B!decodeOpenDT, B!unexpectedOpenTPDU, B!DisconnectError, B!nil
<1> HIDE DEF pkt
<1>7. CauseInv'
  <2>1. ASSUME NEW q \in BReaders, bPc'[q] \in Failing PROVE Raw(bErr[q], bSegs[q] > 0)'
    <3>1. q # r
      BY <1>5, <2>1 DEF Failing
    <3>2. Raw(bErr[q], bSegs[q] > 0)
      BY <1>1, <1>5, <2>1, <3>1 DEF CauseInv
    <3> QED BY <1>4, <1>5, <3>1, <3>2 DEF Raw, AtEnd
  <2>2. ASSUME NEW q \in BReaders, bPc'[q] = "finish" PROVE Cause(bErr[q])'
    <3>1. CASE q = r
      BY <1>5, <1>6, <2>2, <3>1 DEF Cause
    <3>2. CASE q # r
      <4>1. Cause(bErr[q])
        BY <1>1, <1>5, <2>2, <3>2 DEF CauseInv
      <4> QED BY <1>4, <1>5, <3>2, <4>1 DEF Cause, AtEnd
    <3> QED BY <3>1, <3>2
  <2>3. Cause(bTermErr)'
    BY <1>1, <1>4, <1>5 DEF CauseInv, Cause, AtEnd
  <2> QED BY <2>1, <2>2, <2>3 DEF CauseInv
<1>8. EofInv'
  BY <1>5 DEF EofInv
<1> QED BY <1>1, <1>2, <1>3, <1>5, <1>7, <1>8, SegmentTaken DEF TransferInv, aVars

\* Every step keeps the invariant, and is one of the service or none.
LEMMA TransferStep ==
  ASSUME TransferInv, [Next]_vars
  PROVE  TransferInv' /\ [Service!Next]_Service!vars
<1>1. AEnd /\ BEnd /\ StreamInv /\ ReaderInv /\ EofInv /\ CauseInv
  BY DEF TransferInv
<1>2. ASSUME UNCHANGED <<accepted, delivered>>,
             aTermKind # "none" => aTermKind' = aTermKind,
             bTermKind # "none" => bTermKind' = bTermKind
      PROVE  [Service!Next]_Service!vars
  BY <1>2 DEF Service!Next, Service!Down, Service!vars
<1>3. ASSUME AEnd', AStill, UNCHANGED <<bVars, stream, partial, got, history>>
      PROVE  TransferInv' /\ [Service!Next]_Service!vars
  BY <1>2, <1>3, QuietOfA DEF AStill, bVars, history
<1>4. ASSUME BEnd', BStill, BErrors, UNCHANGED <<aVars, stream, partial, history>>,
             bNet' = bNet \/ BNetChanges,
             DOMAIN got' = BReaders,
             \A r \in BReaders : \/ bSegs'[r] = bSegs[r] /\ got'[r] = got[r]
                                 \/ bSegs'[r] = 0 /\ got'[r] = Nothing /\ bPc'[r] = "idle"
      PROVE  TransferInv' /\ [Service!Next]_Service!vars
  BY <1>2, <1>4, QuietOfB DEF BStill, aVars, history
<1>5. ASSUME NEW p \in AProcs, Write(p) \/ AStep(p) \/ AContext(p) \/ AClose(p)
      PROVE  TransferInv' /\ [Service!Next]_Service!vars
  <2>1. ALocal(p) /\ UNCHANGED <<bVars, stream, partial, got, history>>
    BY <1>5 DEF Write, AStep, AContext, AClose, ALocal
  <2> QED BY <1>1, <1>3, <2>1, ALocalStep
<1>6. ASSUME NEW w \in AWriters, WriteOctets(w)
      PROVE  TransferInv' /\ [Service!Next]_Service!vars
  BY <1>2, <1>6, OctetsOfA
<1>7. ASSUME NEW w \in AWriters, WriteSegment(w)
      PROVE  TransferInv' /\ [Service!Next]_Service!vars
  <2>1. TransferInv' /\ UNCHANGED <<delivered, aTermKind, bTermKind>>
    BY <1>7, SegmentOfA
  <2>2. \/ accepted' = accepted
        \/ \E n \in TsduLens \cap (1 .. AMaxTSDU) : accepted' = Append(accepted, n)
    BY <1>7, SegmentOfA
  <2>3. CASE accepted' = accepted
    BY <1>2, <2>1, <2>3
  <2>4. CASE \E n \in TsduLens \cap (1 .. AMaxTSDU) : accepted' = Append(accepted, n)
    <3>1. Service!Accept
      BY <2>1, <2>4 DEF Service!Accept
    <3> QED BY <2>1, <3>1 DEF Service!Next
  <2> QED BY <2>2, <2>3, <2>4
<1>8. ASSUME NEW r \in BReaders, Read(r) \/ BStep(r) \/ BContext(r)
      PROVE  TransferInv' /\ [Service!Next]_Service!vars
  <2>1. BLocal(r) /\ UNCHANGED <<aVars, stream, partial, history>>
    BY <1>8 DEF Read, BStep, BContext, BLocal
  <2>2. BEnd' /\ BStill /\ BErrors
    BY <1>1, <2>1, BLocalStep
  <2>3. bNet' = bNet
    BY <2>1 DEF BLocal, B!Step, B!Context, B!TryLock, B!GiveUpLock, B!RequireOpen, B!LoadState, B!Check,
         B!PacketFails, B!Fail, B!IdleTimeout, B!Classify, B!RecordCause, B!AwaitOnce, B!StoreState,
         B!CloseRaw, B!releaseRef, B!StoreClosed, B!Return, B!AwaitLock, B!CallMove, B!Cancel,
         B!DeadlinePasses, B!CtxTimerFires, B!connVars, B!streamVars, B!ctxVars, B!opVars
  <2>4. /\ DOMAIN got' = BReaders
        /\ \A q \in BReaders : \/ bSegs'[q] = bSegs[q] /\ got'[q] = got[q]
                               \/ bSegs'[q] = 0 /\ got'[q] = Nothing /\ bPc'[q] = "idle"
    <3>1. DOMAIN got = BReaders
      BY <1>1 DEF ReaderInv, Gathered
    <3>2. CASE BStep(r)
      <4>1. got' = [q \in BReaders |-> IF bPc'[q] = "idle" THEN Nothing ELSE got[q]]
        BY <3>2 DEF BStep
      <4>2. \A q \in BReaders : bPc'[q] = "idle" => bSegs'[q] = 0
        BY <2>2 DEF BEnd, BFresh, Before
      <4>3. \A q \in BReaders : bPc'[q] # "idle" => bSegs'[q] = bSegs[q]
        BY <2>2 DEF BStill
      <4> QED BY <4>1, <4>2, <4>3
    <3>3. CASE Read(r) \/ BContext(r)
      <4>1. got' = got /\ bSegs' = bSegs
        BY <3>3 DEF Read, BContext, B!CallMove, B!Context, B!Cancel, B!DeadlinePasses, B!CtxTimerFires, B!opVars
      <4> QED BY <3>1, <4>1
    <3> QED BY <1>8, <3>2, <3>3
  <2> QED BY <1>4, <2>1, <2>2, <2>3, <2>4
<1>9. ASSUME NEW r \in BReaders, ReadOctets(r)
      PROVE  TransferInv' /\ [Service!Next]_Service!vars
  BY <1>2, <1>9, OctetsOfB
<1>10. ASSUME NEW r \in BReaders, ReadSegment(r)
       PROVE  TransferInv' /\ [Service!Next]_Service!vars
  <2>1. TransferInv' /\ UNCHANGED <<accepted, aTermKind, bTermKind>>
    BY <1>10, SegmentOfB
  <2>2. \/ delivered' = delivered
        \/ /\ Len(delivered) < Len(accepted)
           /\ delivered' = Append(delivered, [tsdu |-> Len(delivered) + 1, len |-> accepted[Len(delivered) + 1]])
    BY <1>10, SegmentOfB
  <2>3. CASE delivered' = delivered
    BY <1>2, <2>1, <2>3
  <2>4. CASE delivered' # delivered
    <3>1. Service!Deliver
      BY <2>1, <2>2, <2>4 DEF Service!Deliver, Service!Whole
    <3> QED BY <2>1, <3>1 DEF Service!Next
  <2> QED BY <2>3, <2>4
<1>11. CASE ANetChanges
  <2>1. AEnd' /\ AStill
    BY <1>1, <1>11, ARestStep DEF ANetChanges
  <2> QED BY <1>3, <1>11, <2>1 DEF ANetChanges
<1>12. CASE BNetChanges
  <2>1. BEnd' /\ BStill /\ BErrors
    BY <1>1, <1>12, BRestStep DEF BNetChanges
  <2>2. got' = got /\ bSegs' = bSegs /\ DOMAIN got = BReaders
    BY <1>1, <1>12 DEF BNetChanges, B!NetChanges, B!opVars, ReaderInv, Gathered
  <2>3. UNCHANGED <<aVars, stream, partial, history>>
    BY <1>12 DEF BNetChanges
  <2> QED BY <1>4, <1>12, <2>1, <2>2, <2>3
<1>13. CASE UNCHANGED vars
  <2>1. UNCHANGED aVars /\ UNCHANGED <<bVars, stream, partial, got, history>>
    BY <1>13 DEF vars
  <2>2. AEnd' /\ AStill
    BY <1>1, <2>1, ARestStep
  <2> QED BY <1>3, <2>1, <2>2
<1> QED BY <1>5, <1>6, <1>7, <1>8, <1>9, <1>10, <1>11, <1>12, <1>13 DEF Next, AProcs

\* A new connection is a new service.
LEMMA TransferInit == Init => TransferInv /\ Service!Init
<1> SUFFICES ASSUME Init PROVE TransferInv /\ Service!Init
  OBVIOUS
<1> USE EndsAssumption DEF Init, A!Init, B!Init
<1>1. AEnd
  BY DEF AEnd, ATypes, AEnding, ALocks, AClear, AFresh, AInside, AHalf, AGiven, AWork, AProcs, Directions,
     Before, Inside, Finishing, A!Procs, A!Movers, A!Dirs, A!Places
<1>2. BEnd
  BY DEF BEnd, BTypes, BEnding, BLocks, BClear, BFresh, BInside, BPacket, BHalf, Directions,
     Before, Inside, Finishing, B!Procs, B!Movers, B!Dirs, B!Places
<1>3. /\ stream = <<>> /\ accepted = <<>> /\ delivered = <<>> /\ Len(stream) = 0 /\ Len(accepted) = 0
      /\ Len(delivered) = 0
  OBVIOUS
<1>4. StreamInv
  <2>1. StreamTypes
    <3>1. partial = FALSE
      OBVIOUS
    <3>2. \A S : <<>> \in Seq(S)
      <4> HIDE EndsAssumption DEF Init
      <4> QED OBVIOUS
    <3> HIDE EndsAssumption DEF Init
    <3> QED BY <1>3, <3>1, <3>2 DEF StreamTypes
  <2>2. Shape /\ Chain /\ EndsAtTip
    BY <1>3 DEF Shape, Chain, EndsAtTip
  <2> QED BY <2>1, <2>2 DEF StreamInv
<1>5. Tip(Position(1, 0, NoProc))
  BY <1>3 DEF Tip, Position, A!Dirs, A!Procs, A!Movers
<1>6. ReaderInv
  BY <1>3, <1>5 DEF ReaderInv, Gathered, AtBoundary, AtWork, Front, Nothing, B!Procs, B!Movers
<1>7. EofInv /\ CauseInv
  BY DEF EofInv, CauseInv, Cause, Failing, B!Procs, B!Movers, B!nil
<1> QED BY <1>1, <1>2, <1>3, <1>4, <1>6, <1>7 DEF TransferInv, Service!Init

-----------------------------------------------------------------------------
(* Theorems                                                                *)

\* TransferInv is an invariant of the two ends.
THEOREM TransferInvariant == Spec => []TransferInv
<1>1. TransferInv /\ [Next]_vars => TransferInv'
  BY TransferStep
<1> QED BY <1>1, TransferInit, PTL DEF Spec

\* The two connections implement the TSDU service: ReadTSDU returns the TSDUs
\* WriteTSDU accepted, whole, in order, each once, however many goroutines call,
\* whatever contexts end and whatever the stream does.
THEOREM ServiceIsImplemented == Spec => ImplementsService
<1>1. TransferInv /\ [Next]_vars => TransferInv' /\ [Service!Next]_Service!vars
  BY TransferStep
<1> QED BY <1>1, TransferInit, PTL DEF Spec, ImplementsService, Service!Spec

\* A reader that is told of an orderly end of the stream has been given every
\* TSDU that WriteTSDU accepted, and the writer broke off in none: EOF reaches
\* classifyIOPhase where the reader stands at the tip of the stream.
THEOREM CleanEndIsComplete == Spec => []CleanEndMeansAllDelivered
<1>1. TransferInv => CleanEndMeansAllDelivered
  BY DEF TransferInv, CauseInv, Cause, CleanEndMeansAllDelivered
<1> QED BY <1>1, TransferInvariant, PTL

\* ErrIncompleteTSDU at the end of the stream is no false alarm: the writer did
\* abandon a TSDU in the stream, and the reader was given all those before it.
THEOREM IncompleteIsTrue == Spec => []IncompleteMeansAbandoned
<1>1. TransferInv => IncompleteMeansAbandoned
  BY DEF TransferInv, CauseInv, Cause, IncompleteMeansAbandoned
<1> QED BY <1>1, TransferInvariant, PTL
=============================================================================
