--------------------------- MODULE HandshakeProofs ---------------------------
(***************************************************************************)
(* The three invariants of Handshake, for every set of configurations,     *)
(* references, decisions and network faults, and (NothingLeaks) for every  *)
(* TPDU another implementation may send.                                   *)
(*                                                                         *)
(* OpenEndsAgree and RefusalIsTheServers are about two ends of this code.  *)
(* Neither is inductive: what the client opens with, or reports, is read   *)
(* from the TPDU in its inbox, which the server wrote from what it had     *)
(* read from the client.  PairInv follows the values along that path: the  *)
(* CR in flight, the CR the server has read, its selection, the answer it  *)
(* is about to send, its negotiated parameters, and the answer in flight.  *)
(***************************************************************************)
EXTENDS Handshake, SizeNegotiationProofs

Pcs == {"foreign", "start", "alloc", "build", "write", "read", "decide", "answer",
        "release", "close", "failed", "open", "closed"}

\* Enough of the types for the functions over Ends to be updated pointwise.
TypeInv ==
  /\ pc \in [Ends -> Pcs]
  /\ ref \in [Ends -> Refs \cup {0}]
  /\ refHeld \in [Ends -> BOOLEAN]
  /\ closed \in [Ends -> BOOLEAN]
  /\ ctx \in [Ends -> {"nil", "Canceled", "DeadlineExceeded"}]
  /\ DOMAIN err = Ends /\ DOMAIN inbox = Ends /\ DOMAIN neg = Ends

\* Where in Connect and Accept the reference is held and the stream is closed.
HeldInv ==
  \A e \in Ends :
    /\ pc[e] \in {"build", "write", "open"} => refHeld[e]
    /\ pc[e] = "read" /\ e = "client" => refHeld[e]
    /\ pc[e] \in {"close", "failed", "closed"} => ~refHeld[e]
    /\ pc[e] \in {"failed", "closed"} => closed[e]
    /\ closed[e] => pc[e] \in {"failed", "closed", "foreign"}

-----------------------------------------------------------------------------
(* Nothing leaks                                                           *)

\* The initial values have their types.
LEMMA TypeInit == Init => TypeInv
BY DEF Init, TypeInv, Pcs

\* Every step keeps the types.
LEMMA TypeStep ==
  ASSUME TypeInv, [Next]_vars
  PROVE  TypeInv'
<1> USE DEF TypeInv, Goto, Fail, Pcs, Open, outside
<1>1. ASSUME NEW e \in Ends, Preflight(e) PROVE TypeInv'
  BY <1>1 DEF Preflight
<1>2. ASSUME NEW e \in Ends, Allocates(e) PROVE TypeInv'
  BY <1>2 DEF Allocates
<1>3. ASSUME NEW e \in Ends, AllocateFails(e) PROVE TypeInv'
  BY <1>3 DEF AllocateFails
<1>4. ASSUME NEW e \in Ends, PacketFails(e) PROVE TypeInv'
  BY <1>4 DEF PacketFails
<1>5. ASSUME NEW e \in Ends, ReleasesRef(e) PROVE TypeInv'
  BY <1>5 DEF ReleasesRef
<1>6. ASSUME NEW e \in Ends, ClosesConn(e) PROVE TypeInv'
  BY <1>6 DEF ClosesConn
<1>7. CASE BuildsCR
  BY <1>7 DEF BuildsCR, Ends
<1>8. CASE WritesCR
  BY <1>8 DEF WritesCR, Ends
<1>9. CASE ReadsAnswer
  BY <1>9 DEF ReadsAnswer, Ends
<1>10. CASE ReadsCR
  BY <1>10 DEF ReadsCR, Answers, Ends
<1>11. CASE Decides
  BY <1>11 DEF Decides, Ends
<1>12. CASE SendsAnswer
  BY <1>12 DEF SendsAnswer, Ends
<1>13. CASE BuildsCC
  BY <1>13 DEF BuildsCC, Ends
<1>14. CASE WritesCC
  BY <1>14 DEF WritesCC, Ends
<1>15. ASSUME NEW e \in Ends, ConnFinishes(e) PROVE TypeInv'
  BY <1>15 DEF ConnFinishes
<1>16. ASSUME NEW e \in Ends, CtxEnds(e) PROVE TypeInv'
  BY <1>16 DEF CtxEnds
<1>17. ASSUME NEW e \in Ends, DeadlinePasses(e) PROVE TypeInv'
  BY <1>17 DEF DeadlinePasses
<1>18. ASSUME NEW e \in Ends, ForeignSends(e) PROVE TypeInv'
  BY <1>18 DEF ForeignSends
<1>19. ASSUME NEW e \in Ends, ForeignCloses(e) PROVE TypeInv'
  BY <1>19 DEF ForeignCloses
<1>20. CASE NetFails
  BY <1>20 DEF NetFails
<1>21. CASE UNCHANGED vars
  BY <1>21 DEF vars
<1> QED
  BY <1>1, <1>2, <1>3, <1>4, <1>5, <1>6, <1>7, <1>8, <1>9, <1>10, <1>11, <1>12,
     <1>13, <1>14, <1>15, <1>16, <1>17, <1>18, <1>19, <1>20, <1>21
     DEF Next, Step, Environment

\* At the start nothing is held and nothing is closed.
LEMMA HeldInit == Init => HeldInv
BY DEF Init, HeldInv

\* Every path of the two calls keeps HeldInv.
LEMMA HeldStep ==
  ASSUME TypeInv, HeldInv, [Next]_vars
  PROVE  HeldInv'
<1> USE DEF TypeInv, HeldInv, Goto, Fail, Open
<1>1. ASSUME NEW e \in Ends, Preflight(e) PROVE HeldInv'
  BY <1>1 DEF Preflight
<1>2. ASSUME NEW e \in Ends, Allocates(e) PROVE HeldInv'
  BY <1>2 DEF Allocates
<1>3. ASSUME NEW e \in Ends, AllocateFails(e) PROVE HeldInv'
  BY <1>3 DEF AllocateFails
<1>4. ASSUME NEW e \in Ends, PacketFails(e) PROVE HeldInv'
  BY <1>4 DEF PacketFails
<1>5. ASSUME NEW e \in Ends, ReleasesRef(e) PROVE HeldInv'
  BY <1>5 DEF ReleasesRef
<1>6. ASSUME NEW e \in Ends, ClosesConn(e) PROVE HeldInv'
  BY <1>6 DEF ClosesConn
<1>7. CASE BuildsCR
  BY <1>7 DEF BuildsCR, Ends
<1>8. CASE WritesCR
  BY <1>8 DEF WritesCR, Ends
<1>9. CASE ReadsAnswer
  BY <1>9 DEF ReadsAnswer, Ends
<1>10. CASE ReadsCR
  BY <1>10 DEF ReadsCR, Answers, Ends
<1>11. CASE Decides
  BY <1>11 DEF Decides, Ends
<1>12. CASE SendsAnswer
  BY <1>12 DEF SendsAnswer, Ends
<1>13. CASE BuildsCC
  BY <1>13 DEF BuildsCC, Ends
<1>14. CASE WritesCC
  BY <1>14 DEF WritesCC, Ends
<1>15. ASSUME NEW e \in Ends, ConnFinishes(e) PROVE HeldInv'
  BY <1>15 DEF ConnFinishes
<1>16. ASSUME NEW e \in Ends, CtxEnds(e) PROVE HeldInv'
  BY <1>16 DEF CtxEnds
<1>17. ASSUME NEW e \in Ends, DeadlinePasses(e) PROVE HeldInv'
  BY <1>17 DEF DeadlinePasses
<1>18. ASSUME NEW e \in Ends, ForeignSends(e) PROVE HeldInv'
  BY <1>18 DEF ForeignSends
<1>19. ASSUME NEW e \in Ends, ForeignCloses(e) PROVE HeldInv'
  BY <1>19 DEF ForeignCloses
<1>20. CASE NetFails
  BY <1>20 DEF NetFails
<1>21. CASE UNCHANGED vars
  BY <1>21 DEF vars
<1> QED
  BY <1>1, <1>2, <1>3, <1>4, <1>5, <1>6, <1>7, <1>8, <1>9, <1>10, <1>11, <1>12,
     <1>13, <1>14, <1>15, <1>16, <1>17, <1>18, <1>19, <1>20, <1>21
     DEF Next, Step, Environment

\* A call that failed has closed its stream and given its reference back, on
\* every path of Connect and Accept and whatever the other end does; one that
\* succeeded has passed both on to the Conn.
THEOREM NothingIsLeaked == Spec => []NothingLeaks
<1>1. Init => TypeInv /\ HeldInv
  BY TypeInit, HeldInit
<1>2. (TypeInv /\ HeldInv) /\ [Next]_vars => (TypeInv /\ HeldInv)'
  BY TypeStep, HeldStep
<1>3. TypeInv /\ HeldInv => NothingLeaks
  BY DEF TypeInv, HeldInv, NothingLeaks
<1> QED BY <1>1, <1>2, <1>3, PTL DEF Spec

-----------------------------------------------------------------------------
(* Two ends of this code                                                   *)

\* The CR of a client of this code.
CRSent ==
  [type |-> "CR", src |-> ref["client"], dst |-> 0, class |-> 0, fixedOk |-> TRUE,
   forbidden |-> FALSE, size |-> buildSizeOffer(cfg.client.max, cfg.client.profile),
   dataFits |-> TRUE, calling |-> cfg.client.local, called |-> cfg.client.remote]

\* The CC of a server of this code.
CCSent ==
  [type |-> "CC", src |-> ref["server"], dst |-> cr.src, fixedOk |-> TRUE,
   paramsOk |-> TRUE, size |-> sel.params, dataFits |-> TRUE,
   calling |-> IF cfg.server.echo THEN cr.calling ELSE Absent, called |-> responding]

\* Neither end is another implementation, and preflight has seen the ceiling
\* of an end that is past it.
ConfigInv ==
  /\ \A e \in Ends : pc[e] # "foreign"
  /\ cfg \in [client : ClientConfigs, server : ServerConfigs]
  /\ pc["client"] \in {"alloc", "build", "write", "read", "open", "closed"} => ValidMax(cfg.client.max)
  /\ pc["server"] \in {"read", "decide", "answer", "alloc", "build", "write", "open", "closed"} =>
       ValidMax(cfg.server.max)

\* Where the server has come once it has taken a CR.
Took == {"decide", "alloc", "build", "write", "open", "closed"}
Succeeded == {"open", "closed"}
Failed == {"release", "close", "failed"}

\* What the server reads and keeps is the client's CR, whose reference and
\* configuration no longer change.
CRInv ==
  /\ inbox["server"] # Nothing \/ pc["server"] \in Took => pc["client"] \notin {"start", "alloc"}
  /\ inbox["server"] # Nothing => inbox["server"] = CRSent
  /\ pc["server"] \in Took => cr = CRSent

\* The server's selection comes from that CR, its own ceiling and the
\* decision's.
SelInv ==
  pc["server"] \in Took \ {"decide"} =>
    \E m \in Int : ValidMax(m) /\ sel = selectSize(Offer(cr.size), cfg.server.max, m)

\* The server's parameters are those of its selection and of the CR.
NegInv ==
  pc["server"] \in Succeeded =>
    neg["server"] = [max |-> sel.effective, localRef |-> ref["server"], remoteRef |-> cr.src,
                     local |-> responding, remote |-> cr.calling]

\* A DR about to be sent carries the reason the server will return.
AnswerInv ==
  pc["server"] = "answer" =>
    \/ answer.type = "ER"
    \/ answer.type = "DR" /\ err["server"] = {"ErrConnectionRefused", answer.reason}

\* What is on its way to the client: a CC of a server that has opened, or the
\* answer of one that has failed.
InboxInv ==
  inbox["client"] # Nothing =>
    \/ inbox["client"].type = "ER"
    \/ /\ inbox["client"].type = "DR" /\ pc["server"] \in Failed
       /\ err["server"] = {"ErrConnectionRefused", inbox["client"].reason}
    \/ inbox["client"] = CCSent /\ pc["server"] \in Succeeded

\* A refusal the client reports is the one the server returns.
RefusedInv ==
  "ErrConnectionRefused" \in err["client"] =>
    /\ pc["client"] \in Failed /\ pc["server"] \in Failed
    /\ err["server"] = err["client"]

PairInv ==
  /\ TypeInv /\ ConfigInv /\ CRInv /\ SelInv /\ NegInv /\ AnswerInv /\ InboxInv
  /\ RefusedInv /\ OpenEndsAgree

\* Nothing has been sent or taken at the start.
LEMMA PairInit == ASSUME Foreigns = {"none"} PROVE Init => PairInv
<1> SUFFICES ASSUME Init PROVE PairInv
  OBVIOUS
<1>1. TypeInv
  BY TypeInit
<1>2. \A e \in Ends : pc[e] = "start" /\ err[e] = {} /\ inbox[e] = Nothing
  BY DEF Init, Ends
<1>3. ConfigInv
  BY <1>2 DEF Init, ConfigInv, Ends
<1>4. CRInv /\ SelInv /\ NegInv /\ AnswerInv /\ InboxInv /\ RefusedInv /\ OpenEndsAgree
  BY <1>2 DEF Ends, CRInv, SelInv, NegInv, AnswerInv, InboxInv, RefusedInv, OpenEndsAgree, Took, Succeeded
<1> QED BY <1>1, <1>3, <1>4 DEF PairInv

\* Preflight is passed once, and configurations are never changed.
LEMMA ConfigStep ==
  ASSUME TypeInv, ConfigInv, [Next]_vars
  PROVE  ConfigInv'
<1> USE DEF TypeInv, Goto, Fail, Open, outside, ConfigInv, Ends
<1>1. ASSUME NEW e \in Ends, Preflight(e) PROVE ConfigInv'
  BY <1>1 DEF Preflight, preflight
<1>2. ASSUME NEW e \in Ends, Allocates(e) PROVE ConfigInv'
  BY <1>2 DEF Allocates
<1>3. ASSUME NEW e \in Ends, AllocateFails(e) PROVE ConfigInv'
  BY <1>3 DEF AllocateFails
<1>4. ASSUME NEW e \in Ends, PacketFails(e) PROVE ConfigInv'
  BY <1>4 DEF PacketFails
<1>5. ASSUME NEW e \in Ends, ReleasesRef(e) PROVE ConfigInv'
  BY <1>5 DEF ReleasesRef
<1>6. ASSUME NEW e \in Ends, ClosesConn(e) PROVE ConfigInv'
  BY <1>6 DEF ClosesConn
<1>7. CASE BuildsCR
  BY <1>7 DEF BuildsCR
<1>8. CASE WritesCR
  BY <1>8 DEF WritesCR
<1>9. CASE ReadsAnswer
  BY <1>9 DEF ReadsAnswer
<1>10. CASE ReadsCR
  BY <1>10 DEF ReadsCR, Answers
<1>11. CASE Decides
  BY <1>11 DEF Decides
<1>12. CASE SendsAnswer
  BY <1>12 DEF SendsAnswer
<1>13. CASE BuildsCC
  BY <1>13 DEF BuildsCC
<1>14. CASE WritesCC
  BY <1>14 DEF WritesCC
<1>15. ASSUME NEW e \in Ends, ConnFinishes(e) PROVE ConfigInv'
  BY <1>15 DEF ConnFinishes
<1>16. ASSUME NEW e \in Ends, CtxEnds(e) PROVE ConfigInv'
  BY <1>16 DEF CtxEnds
<1>17. ASSUME NEW e \in Ends, DeadlinePasses(e) PROVE ConfigInv'
  BY <1>17 DEF DeadlinePasses
<1>18. ASSUME NEW e \in Ends, ForeignSends(e) PROVE ConfigInv'
  BY <1>18 DEF ForeignSends
<1>19. ASSUME NEW e \in Ends, ForeignCloses(e) PROVE ConfigInv'
  BY <1>19 DEF ForeignCloses
<1>20. CASE NetFails
  BY <1>20 DEF NetFails
<1>21. CASE UNCHANGED vars
  BY <1>21 DEF vars
<1> QED
  BY <1>1, <1>2, <1>3, <1>4, <1>5, <1>6, <1>7, <1>8, <1>9, <1>10, <1>11, <1>12,
     <1>13, <1>14, <1>15, <1>16, <1>17, <1>18, <1>19, <1>20, <1>21
     DEF Next, Step, Environment

\* The CR in flight and the CR taken stay the client's.
LEMMA CRStep ==
  ASSUME TypeInv, ConfigInv, CRInv, [Next]_vars
  PROVE  CRInv'
<1> USE DEF TypeInv, Goto, Fail, Open, outside, ConfigInv, CRInv, CRSent, Ends, Took
<1>1. ASSUME NEW e \in Ends, Preflight(e) PROVE CRInv'
  BY <1>1 DEF Preflight
<1>2. ASSUME NEW e \in Ends, Allocates(e) PROVE CRInv'
  BY <1>2 DEF Allocates
<1>3. ASSUME NEW e \in Ends, AllocateFails(e) PROVE CRInv'
  BY <1>3 DEF AllocateFails
<1>4. ASSUME NEW e \in Ends, PacketFails(e) PROVE CRInv'
  BY <1>4 DEF PacketFails
<1>5. ASSUME NEW e \in Ends, ReleasesRef(e) PROVE CRInv'
  BY <1>5 DEF ReleasesRef
<1>6. ASSUME NEW e \in Ends, ClosesConn(e) PROVE CRInv'
  BY <1>6 DEF ClosesConn
<1>7. CASE BuildsCR
  BY <1>7 DEF BuildsCR
<1>8. CASE WritesCR
  BY <1>8 DEF WritesCR
<1>9. CASE ReadsAnswer
  BY <1>9 DEF ReadsAnswer
<1>10. CASE ReadsCR
  BY <1>10 DEF ReadsCR, Answers
<1>11. CASE Decides
  BY <1>11 DEF Decides
<1>12. CASE SendsAnswer
  BY <1>12 DEF SendsAnswer
<1>13. CASE BuildsCC
  BY <1>13 DEF BuildsCC
<1>14. CASE WritesCC
  BY <1>14 DEF WritesCC
<1>15. ASSUME NEW e \in Ends, ConnFinishes(e) PROVE CRInv'
  BY <1>15 DEF ConnFinishes
<1>16. ASSUME NEW e \in Ends, CtxEnds(e) PROVE CRInv'
  BY <1>16 DEF CtxEnds
<1>17. ASSUME NEW e \in Ends, DeadlinePasses(e) PROVE CRInv'
  BY <1>17 DEF DeadlinePasses
<1>18. ASSUME NEW e \in Ends, ForeignSends(e) PROVE CRInv'
  BY <1>18 DEF ForeignSends
<1>19. ASSUME NEW e \in Ends, ForeignCloses(e) PROVE CRInv'
  BY <1>19 DEF ForeignCloses
<1>20. CASE NetFails
  BY <1>20 DEF NetFails
<1>21. CASE UNCHANGED vars
  BY <1>21 DEF vars
<1> QED
  BY <1>1, <1>2, <1>3, <1>4, <1>5, <1>6, <1>7, <1>8, <1>9, <1>10, <1>11, <1>12,
     <1>13, <1>14, <1>15, <1>16, <1>17, <1>18, <1>19, <1>20, <1>21
     DEF Next, Step, Environment

\* The selection is made once, from the CR taken.
LEMMA SelStep ==
  ASSUME TypeInv, ConfigInv, SelInv, [Next]_vars
  PROVE  SelInv'
<1> USE DEF TypeInv, Goto, Fail, Open, outside, ConfigInv, SelInv, Ends, Took
<1>1. ASSUME NEW e \in Ends, Preflight(e) PROVE SelInv'
  BY <1>1 DEF Preflight
<1>2. ASSUME NEW e \in Ends, Allocates(e) PROVE SelInv'
  BY <1>2 DEF Allocates
<1>3. ASSUME NEW e \in Ends, AllocateFails(e) PROVE SelInv'
  BY <1>3 DEF AllocateFails
<1>4. ASSUME NEW e \in Ends, PacketFails(e) PROVE SelInv'
  BY <1>4 DEF PacketFails
<1>5. ASSUME NEW e \in Ends, ReleasesRef(e) PROVE SelInv'
  BY <1>5 DEF ReleasesRef
<1>6. ASSUME NEW e \in Ends, ClosesConn(e) PROVE SelInv'
  BY <1>6 DEF ClosesConn
<1>7. CASE BuildsCR
  BY <1>7 DEF BuildsCR
<1>8. CASE WritesCR
  BY <1>8 DEF WritesCR
<1>9. CASE ReadsAnswer
  BY <1>9 DEF ReadsAnswer
<1>10. CASE ReadsCR
  BY <1>10 DEF ReadsCR, Answers
<1>11. CASE Decides
  <2>1. PICK d \in (IF cfg.server.auto THEN {defaultAutoAccept} ELSE Decisions) :
          \/ pc' = [pc EXCEPT !["server"] = "answer"]
          \/ /\ ValidMax(d.max)
             /\ sel' = selectSize(Offer(cr.size), cfg.server.max, d.max)
          \/ pc' = [pc EXCEPT !["server"] = "release"]
    BY <1>11, Zenon DEF Decides
  <2>2. cfg' = cfg /\ cr' = cr
    BY <1>11 DEF Decides
  <2>3. d.max \in Int
    BY <2>1, ConfigsAssumption DEF defaultAutoAccept
  <2> QED BY <2>1, <2>2, <2>3
<1>12. CASE SendsAnswer
  BY <1>12 DEF SendsAnswer
<1>13. CASE BuildsCC
  BY <1>13 DEF BuildsCC
<1>14. CASE WritesCC
  BY <1>14 DEF WritesCC
<1>15. ASSUME NEW e \in Ends, ConnFinishes(e) PROVE SelInv'
  BY <1>15 DEF ConnFinishes
<1>16. ASSUME NEW e \in Ends, CtxEnds(e) PROVE SelInv'
  BY <1>16 DEF CtxEnds
<1>17. ASSUME NEW e \in Ends, DeadlinePasses(e) PROVE SelInv'
  BY <1>17 DEF DeadlinePasses
<1>18. ASSUME NEW e \in Ends, ForeignSends(e) PROVE SelInv'
  BY <1>18 DEF ForeignSends
<1>19. ASSUME NEW e \in Ends, ForeignCloses(e) PROVE SelInv'
  BY <1>19 DEF ForeignCloses
<1>20. CASE NetFails
  BY <1>20 DEF NetFails
<1>21. CASE UNCHANGED vars
  BY <1>21 DEF vars
<1> QED
  BY <1>1, <1>2, <1>3, <1>4, <1>5, <1>6, <1>7, <1>8, <1>9, <1>10, <1>11, <1>12,
     <1>13, <1>14, <1>15, <1>16, <1>17, <1>18, <1>19, <1>20, <1>21
     DEF Next, Step, Environment

\* The server's parameters are set once.
LEMMA NegStep ==
  ASSUME TypeInv, ConfigInv, NegInv, [Next]_vars
  PROVE  NegInv'
<1> USE DEF TypeInv, Goto, Fail, Open, outside, ConfigInv, NegInv, Ends, Succeeded, responding
<1>1. ASSUME NEW e \in Ends, Preflight(e) PROVE NegInv'
  BY <1>1 DEF Preflight
<1>2. ASSUME NEW e \in Ends, Allocates(e) PROVE NegInv'
  BY <1>2 DEF Allocates
<1>3. ASSUME NEW e \in Ends, AllocateFails(e) PROVE NegInv'
  BY <1>3 DEF AllocateFails
<1>4. ASSUME NEW e \in Ends, PacketFails(e) PROVE NegInv'
  BY <1>4 DEF PacketFails
<1>5. ASSUME NEW e \in Ends, ReleasesRef(e) PROVE NegInv'
  BY <1>5 DEF ReleasesRef
<1>6. ASSUME NEW e \in Ends, ClosesConn(e) PROVE NegInv'
  BY <1>6 DEF ClosesConn
<1>7. CASE BuildsCR
  BY <1>7 DEF BuildsCR
<1>8. CASE WritesCR
  BY <1>8 DEF WritesCR
<1>9. CASE ReadsAnswer
  BY <1>9 DEF ReadsAnswer
<1>10. CASE ReadsCR
  BY <1>10 DEF ReadsCR, Answers
<1>11. CASE Decides
  BY <1>11 DEF Decides
<1>12. CASE SendsAnswer
  BY <1>12 DEF SendsAnswer
<1>13. CASE BuildsCC
  BY <1>13 DEF BuildsCC
<1>14. CASE WritesCC
  BY <1>14 DEF WritesCC
<1>15. ASSUME NEW e \in Ends, ConnFinishes(e) PROVE NegInv'
  BY <1>15 DEF ConnFinishes
<1>16. ASSUME NEW e \in Ends, CtxEnds(e) PROVE NegInv'
  BY <1>16 DEF CtxEnds
<1>17. ASSUME NEW e \in Ends, DeadlinePasses(e) PROVE NegInv'
  BY <1>17 DEF DeadlinePasses
<1>18. ASSUME NEW e \in Ends, ForeignSends(e) PROVE NegInv'
  BY <1>18 DEF ForeignSends
<1>19. ASSUME NEW e \in Ends, ForeignCloses(e) PROVE NegInv'
  BY <1>19 DEF ForeignCloses
<1>20. CASE NetFails
  BY <1>20 DEF NetFails
<1>21. CASE UNCHANGED vars
  BY <1>21 DEF vars
<1> QED
  BY <1>1, <1>2, <1>3, <1>4, <1>5, <1>6, <1>7, <1>8, <1>9, <1>10, <1>11, <1>12,
     <1>13, <1>14, <1>15, <1>16, <1>17, <1>18, <1>19, <1>20, <1>21
     DEF Next, Step, Environment

\* The answer and the error are set together.
LEMMA AnswerStep ==
  ASSUME TypeInv, ConfigInv, AnswerInv, [Next]_vars
  PROVE  AnswerInv'
<1> USE DEF TypeInv, Goto, Fail, Open, outside, ConfigInv, AnswerInv, Ends
<1>1. ASSUME NEW e \in Ends, Preflight(e) PROVE AnswerInv'
  BY <1>1 DEF Preflight
<1>2. ASSUME NEW e \in Ends, Allocates(e) PROVE AnswerInv'
  BY <1>2 DEF Allocates
<1>3. ASSUME NEW e \in Ends, AllocateFails(e) PROVE AnswerInv'
  BY <1>3 DEF AllocateFails
<1>4. ASSUME NEW e \in Ends, PacketFails(e) PROVE AnswerInv'
  BY <1>4 DEF PacketFails
<1>5. ASSUME NEW e \in Ends, ReleasesRef(e) PROVE AnswerInv'
  BY <1>5 DEF ReleasesRef
<1>6. ASSUME NEW e \in Ends, ClosesConn(e) PROVE AnswerInv'
  BY <1>6 DEF ClosesConn
<1>7. CASE BuildsCR
  BY <1>7 DEF BuildsCR
<1>8. CASE WritesCR
  BY <1>8 DEF WritesCR
<1>9. CASE ReadsAnswer
  BY <1>9 DEF ReadsAnswer
<1>10. CASE ReadsCR
  <2> DEFINE p == inbox["server"]
  <2>1. \/ pc' # [pc EXCEPT !["server"] = "answer"]
        \/ /\ answer' = DR(p, "NegotiationFailed")
           /\ err' = [err EXCEPT !["server"] = {"ErrConnectionRefused", "NegotiationFailed"}]
        \/ protocolAnswer(p) # Nothing /\ answer' = protocolAnswer(p)
    BY <1>10, Zenon DEF ReadsCR, Answers
  <2>2. pc' = [pc EXCEPT !["server"] = pc'["server"]]
    BY <1>10 DEF ReadsCR, Answers
  <2>3. protocolAnswer(p) # Nothing => protocolAnswer(p).type = "ER"
    BY DEF protocolAnswer, ER
  <2> QED BY <2>1, <2>2, <2>3 DEF DR
<1>11. CASE Decides
  <2>1. PICK d \in (IF cfg.server.auto THEN {defaultAutoAccept} ELSE Decisions) :
          \/ /\ answer' = DR(cr, d.reason)
             /\ err' = [err EXCEPT !["server"] = {"ErrConnectionRefused", d.reason}]
          \/ pc' = [pc EXCEPT !["server"] = "alloc"]
          \/ pc' = [pc EXCEPT !["server"] = "release"]
    BY <1>11, Zenon DEF Decides
  <2> QED BY <2>1 DEF DR
<1>12. CASE SendsAnswer
  BY <1>12 DEF SendsAnswer
<1>13. CASE BuildsCC
  BY <1>13 DEF BuildsCC
<1>14. CASE WritesCC
  BY <1>14 DEF WritesCC
<1>15. ASSUME NEW e \in Ends, ConnFinishes(e) PROVE AnswerInv'
  BY <1>15 DEF ConnFinishes
<1>16. ASSUME NEW e \in Ends, CtxEnds(e) PROVE AnswerInv'
  BY <1>16 DEF CtxEnds
<1>17. ASSUME NEW e \in Ends, DeadlinePasses(e) PROVE AnswerInv'
  BY <1>17 DEF DeadlinePasses
<1>18. ASSUME NEW e \in Ends, ForeignSends(e) PROVE AnswerInv'
  BY <1>18 DEF ForeignSends
<1>19. ASSUME NEW e \in Ends, ForeignCloses(e) PROVE AnswerInv'
  BY <1>19 DEF ForeignCloses
<1>20. CASE NetFails
  BY <1>20 DEF NetFails
<1>21. CASE UNCHANGED vars
  BY <1>21 DEF vars
<1> QED
  BY <1>1, <1>2, <1>3, <1>4, <1>5, <1>6, <1>7, <1>8, <1>9, <1>10, <1>11, <1>12,
     <1>13, <1>14, <1>15, <1>16, <1>17, <1>18, <1>19, <1>20, <1>21
     DEF Next, Step, Environment

\* What reaches the client is what the server wrote.
LEMMA InboxStep ==
  ASSUME TypeInv, ConfigInv, CRInv, AnswerInv, InboxInv, [Next]_vars
  PROVE  InboxInv'
<1> USE DEF TypeInv, Goto, Fail, Open, outside, ConfigInv, CRInv, AnswerInv, InboxInv, CCSent, responding, Ends, Took, Succeeded, Failed
<1>1. ASSUME NEW e \in Ends, Preflight(e) PROVE InboxInv'
  BY <1>1 DEF Preflight
<1>2. ASSUME NEW e \in Ends, Allocates(e) PROVE InboxInv'
  BY <1>2 DEF Allocates
<1>3. ASSUME NEW e \in Ends, AllocateFails(e) PROVE InboxInv'
  BY <1>3 DEF AllocateFails
<1>4. ASSUME NEW e \in Ends, PacketFails(e) PROVE InboxInv'
  BY <1>4 DEF PacketFails
<1>5. ASSUME NEW e \in Ends, ReleasesRef(e) PROVE InboxInv'
  BY <1>5 DEF ReleasesRef
<1>6. ASSUME NEW e \in Ends, ClosesConn(e) PROVE InboxInv'
  BY <1>6 DEF ClosesConn
<1>7. CASE BuildsCR
  BY <1>7 DEF BuildsCR
<1>8. CASE WritesCR
  BY <1>8 DEF WritesCR
<1>9. CASE ReadsAnswer
  BY <1>9 DEF ReadsAnswer
<1>10. CASE ReadsCR
  BY <1>10 DEF ReadsCR, Answers
<1>11. CASE Decides
  BY <1>11 DEF Decides
<1>12. CASE SendsAnswer
  BY <1>12 DEF SendsAnswer
<1>13. CASE BuildsCC
  BY <1>13 DEF BuildsCC
<1>14. CASE WritesCC
  BY <1>14 DEF WritesCC
<1>15. ASSUME NEW e \in Ends, ConnFinishes(e) PROVE InboxInv'
  BY <1>15 DEF ConnFinishes
<1>16. ASSUME NEW e \in Ends, CtxEnds(e) PROVE InboxInv'
  BY <1>16 DEF CtxEnds
<1>17. ASSUME NEW e \in Ends, DeadlinePasses(e) PROVE InboxInv'
  BY <1>17 DEF DeadlinePasses
<1>18. ASSUME NEW e \in Ends, ForeignSends(e) PROVE InboxInv'
  BY <1>18 DEF ForeignSends
<1>19. ASSUME NEW e \in Ends, ForeignCloses(e) PROVE InboxInv'
  BY <1>19 DEF ForeignCloses
<1>20. CASE NetFails
  BY <1>20 DEF NetFails
<1>21. CASE UNCHANGED vars
  BY <1>21 DEF vars
<1> QED
  BY <1>1, <1>2, <1>3, <1>4, <1>5, <1>6, <1>7, <1>8, <1>9, <1>10, <1>11, <1>12,
     <1>13, <1>14, <1>15, <1>16, <1>17, <1>18, <1>19, <1>20, <1>21
     DEF Next, Step, Environment

\* No error of the stream or of the framing reads as a refusal.
LEMMA IOErrorIsNoRefusal ==
  ASSUME TypeInv, NEW e \in Ends, NEW s \in StreamErrors(e) \cup {{"tpkt"}}
  PROVE  "ErrConnectionRefused" \notin connectIOError(e, s)
<1>1. s \in {{"timeout"}, {"ECONNRESET"}, {"ErrUnexpectedEOF"}, {"EOF"}, {"tpkt"}}
  BY DEF StreamErrors
<1>2. "ErrConnectionRefused" \notin s
  BY <1>1
<1>3. ctx[e] \in {"nil", "Canceled", "DeadlineExceeded"}
  BY DEF TypeInv
<1> QED BY <1>2, <1>3 DEF connectIOError

\* A refusal comes to the client from the DR in its inbox and from nowhere else.
LEMMA RefusedStep ==
  ASSUME TypeInv, ConfigInv, InboxInv, RefusedInv, [Next]_vars
  PROVE  RefusedInv'
<1> USE DEF TypeInv, Goto, Fail, Open, outside, ConfigInv, RefusedInv, Ends, Failed
<1>1. ASSUME NEW e \in Ends, Preflight(e) PROVE RefusedInv'
  BY <1>1 DEF Preflight
<1>2. ASSUME NEW e \in Ends, Allocates(e) PROVE RefusedInv'
  BY <1>2 DEF Allocates
<1>3. ASSUME NEW e \in Ends, AllocateFails(e) PROVE RefusedInv'
  BY <1>3 DEF AllocateFails
<1>4. ASSUME NEW e \in Ends, PacketFails(e) PROVE RefusedInv'
  <2>1. PICK s \in StreamErrors(e) : Fail(e, pc[e], connectIOError(e, s))
    BY <1>4 DEF PacketFails
  <2>2. "ErrConnectionRefused" \notin connectIOError(e, s)
    BY IOErrorIsNoRefusal
  <2>3. pc[e] \in {"read", "write"}
    BY <1>4 DEF PacketFails
  <2> QED BY <2>1, <2>2, <2>3
<1>5. ASSUME NEW e \in Ends, ReleasesRef(e) PROVE RefusedInv'
  BY <1>5 DEF ReleasesRef
<1>6. ASSUME NEW e \in Ends, ClosesConn(e) PROVE RefusedInv'
  BY <1>6 DEF ClosesConn
<1>7. CASE BuildsCR
  BY <1>7 DEF BuildsCR
<1>8. CASE WritesCR
  BY <1>8 DEF WritesCR
<1>9. CASE ReadsAnswer
  <2> DEFINE p == inbox["client"]
  <2>1. /\ pc["client"] = "read" /\ p # Nothing
        /\ \/ err' = err
           \/ err' = [err EXCEPT !["client"] = refusal(p)] /\ pc' = [pc EXCEPT !["client"] = "release"]
    BY <1>9 DEF ReadsAnswer
  <2>2. "ErrConnectionRefused" \notin err["client"]
    BY <2>1
  <2>3. CASE p.type = "DR"
    <3>1. pc["server"] \in Failed /\ err["server"] = {"ErrConnectionRefused", p.reason}
      BY <2>1, <2>3 DEF InboxInv, CCSent
    <3>2. refusal(p) = {"ErrConnectionRefused", p.reason}
      BY <2>3 DEF refusal
    <3> QED BY <2>1, <2>2, <3>1, <3>2
  <2>4. CASE p.type # "DR"
    <3>1. "ErrConnectionRefused" \notin refusal(p)
      BY <2>4, IOErrorIsNoRefusal DEF refusal
    <3> QED BY <2>1, <2>2, <3>1
  <2> QED BY <2>3, <2>4
<1>10. CASE ReadsCR
  BY <1>10 DEF ReadsCR, Answers
<1>11. CASE Decides
  BY <1>11 DEF Decides
<1>12. CASE SendsAnswer
  BY <1>12 DEF SendsAnswer
<1>13. CASE BuildsCC
  BY <1>13 DEF BuildsCC
<1>14. CASE WritesCC
  BY <1>14 DEF WritesCC
<1>15. ASSUME NEW e \in Ends, ConnFinishes(e) PROVE RefusedInv'
  BY <1>15 DEF ConnFinishes
<1>16. ASSUME NEW e \in Ends, CtxEnds(e) PROVE RefusedInv'
  BY <1>16 DEF CtxEnds
<1>17. ASSUME NEW e \in Ends, DeadlinePasses(e) PROVE RefusedInv'
  BY <1>17 DEF DeadlinePasses
<1>18. ASSUME NEW e \in Ends, ForeignSends(e) PROVE RefusedInv'
  BY <1>18 DEF ForeignSends
<1>19. ASSUME NEW e \in Ends, ForeignCloses(e) PROVE RefusedInv'
  BY <1>19 DEF ForeignCloses
<1>20. CASE NetFails
  BY <1>20 DEF NetFails
<1>21. CASE UNCHANGED vars
  BY <1>21 DEF vars
<1> QED
  BY <1>1, <1>2, <1>3, <1>4, <1>5, <1>6, <1>7, <1>8, <1>9, <1>10, <1>11, <1>12,
     <1>13, <1>14, <1>15, <1>16, <1>17, <1>18, <1>19, <1>20, <1>21
     DEF Next, Step, Environment

\* What the client opens with is what the server has opened with.
LEMMA AgreeStep ==
  ASSUME PairInv, [Next]_vars
  PROVE  OpenEndsAgree'
<1> USE DEF TypeInv, Goto, Fail, Open, outside, PairInv, OpenEndsAgree, ConfigInv, Ends
<1>1. ASSUME NEW e \in Ends, Preflight(e) PROVE OpenEndsAgree'
  BY <1>1 DEF Preflight
<1>2. ASSUME NEW e \in Ends, Allocates(e) PROVE OpenEndsAgree'
  BY <1>2 DEF Allocates
<1>3. ASSUME NEW e \in Ends, AllocateFails(e) PROVE OpenEndsAgree'
  BY <1>3 DEF AllocateFails
<1>4. ASSUME NEW e \in Ends, PacketFails(e) PROVE OpenEndsAgree'
  BY <1>4 DEF PacketFails
<1>5. ASSUME NEW e \in Ends, ReleasesRef(e) PROVE OpenEndsAgree'
  BY <1>5 DEF ReleasesRef
<1>6. ASSUME NEW e \in Ends, ClosesConn(e) PROVE OpenEndsAgree'
  BY <1>6 DEF ClosesConn
<1>7. CASE BuildsCR
  BY <1>7 DEF BuildsCR
<1>8. CASE WritesCR
  BY <1>8 DEF WritesCR
<1>9. CASE ReadsAnswer
  <2> DEFINE p == inbox["client"]
  <2>1. pc["client"] = "read" /\ p # Nothing /\ neg'["server"] = neg["server"] /\ pc'["server"] = pc["server"]
    BY <1>9 DEF ReadsAnswer
  <2>2. CASE refusal(p) # {}
    BY <1>9, <2>1, <2>2 DEF ReadsAnswer
  <2>3. CASE refusal(p) = {}
    <3>1. p.type = "CC"
      BY <2>3 DEF refusal, connectIOError
    <3>2. p = CCSent /\ pc["server"] \in Succeeded
      BY <2>1, <3>1 DEF InboxInv
    <3>3. neg'["client"] = [max |-> ccSize(p).effective,
                            localRef |-> ref["client"], remoteRef |-> p.src,
                            local |-> cfg.client.local,
                            remote |-> IF p.called # Absent THEN p.called ELSE cfg.client.remote]
      BY <1>9, <2>3 DEF ReadsAnswer
    <3>4. neg["server"] = [max |-> sel.effective, localRef |-> ref["server"], remoteRef |-> cr.src,
                           local |-> responding, remote |-> cr.calling]
      BY <3>2 DEF NegInv
    <3>5. cr = CRSent
      BY <3>2 DEF CRInv, Succeeded, Took
    <3>6. ccSize(p).effective = sel.effective
      <4> DEFINE sent == Offer(buildSizeOffer(cfg.client.max, cfg.client.profile))
      <4>1. PICK m \in Int : ValidMax(m) /\ sel = selectSize(Offer(cr.size), cfg.server.max, m)
        BY <3>2 DEF SelInv, Succeeded, Took
      <4>2. sel = selectSize(sent, cfg.server.max, m) /\ p.size = sel.params
        BY <3>2, <3>5, <4>1 DEF CRSent, CCSent
      <4>3. /\ cfg.client.max \in Int /\ cfg.client.profile \in Profiles /\ ValidMax(cfg.client.max)
            /\ cfg.server.max \in Int /\ ValidMax(cfg.server.max)
        BY <2>1, <3>2, ConfigsAssumption DEF Succeeded
      <4>4. interpretCCSize(sent, sel.params, cfg.client.profile) = [ok |-> TRUE, effective |-> sel.effective]
        BY <4>1, <4>2, <4>3, InterpretsSelection
      <4>5. ccSize(p) = [ok |-> TRUE, effective |-> sel.effective]
        BY <4>2, <4>4 DEF ccSize
      <4> QED BY <4>5
    <3> QED
      BY <2>1, <3>2, <3>3, <3>4, <3>5, <3>6 DEF CRSent, CCSent, Succeeded
  <2> QED BY <2>2, <2>3
<1>10. CASE ReadsCR
  BY <1>10 DEF ReadsCR, Answers
<1>11. CASE Decides
  BY <1>11 DEF Decides
<1>12. CASE SendsAnswer
  BY <1>12 DEF SendsAnswer
<1>13. CASE BuildsCC
  BY <1>13 DEF BuildsCC
<1>14. CASE WritesCC
  BY <1>14 DEF WritesCC
<1>15. ASSUME NEW e \in Ends, ConnFinishes(e) PROVE OpenEndsAgree'
  BY <1>15 DEF ConnFinishes
<1>16. ASSUME NEW e \in Ends, CtxEnds(e) PROVE OpenEndsAgree'
  BY <1>16 DEF CtxEnds
<1>17. ASSUME NEW e \in Ends, DeadlinePasses(e) PROVE OpenEndsAgree'
  BY <1>17 DEF DeadlinePasses
<1>18. ASSUME NEW e \in Ends, ForeignSends(e) PROVE OpenEndsAgree'
  BY <1>18 DEF ForeignSends
<1>19. ASSUME NEW e \in Ends, ForeignCloses(e) PROVE OpenEndsAgree'
  BY <1>19 DEF ForeignCloses
<1>20. CASE NetFails
  BY <1>20 DEF NetFails
<1>21. CASE UNCHANGED vars
  BY <1>21 DEF vars
<1> QED
  BY <1>1, <1>2, <1>3, <1>4, <1>5, <1>6, <1>7, <1>8, <1>9, <1>10, <1>11, <1>12,
     <1>13, <1>14, <1>15, <1>16, <1>17, <1>18, <1>19, <1>20, <1>21
     DEF Next, Step, Environment

\* The parts together.
LEMMA PairStep == PairInv /\ [Next]_vars => PairInv'
BY TypeStep, ConfigStep, CRStep, SelStep, NegStep, AnswerStep, InboxStep, RefusedStep, AgreeStep
   DEF PairInv

\* When the client of two ends of this code has opened, the server had opened
\* too, and they agree on the TPDU length, the references and the selectors:
\* for all configurations, decisions, references, deadlines and resets.
THEOREM EndsAgree == ASSUME Foreigns = {"none"} PROVE Spec => []OpenEndsAgree
<1>1. Init => PairInv
  BY PairInit
<1>2. PairInv => OpenEndsAgree
  BY DEF PairInv
<1> QED BY <1>1, <1>2, PairStep, PTL DEF Spec

\* A client that reports a refusal was refused by the server, with the reason
\* the server's own caller is told.
THEOREM RefusalsAreTrue == ASSUME Foreigns = {"none"} PROVE Spec => []RefusalIsTheServers
<1>1. Init => PairInv
  BY PairInit
<1>2. PairInv => RefusalIsTheServers
  BY DEF PairInv, RefusedInv, RefusalIsTheServers
<1> QED BY <1>1, <1>2, PairStep, PTL DEF Spec
=============================================================================
