---------------------- MODULE DirectionDeadlineProofs ----------------------
(***************************************************************************)
(* For any set of operations: only an operation's own context cuts its I/O *)
(* and a direction at rest has no deadline.  The argument is that an       *)
(* object has at most one armed operation, that the generation of an       *)
(* operation that is not armed is never the active one, and that a         *)
(* deadline in force was set by, or for, the armed operation.              *)
(***************************************************************************)
EXTENDS DirectionDeadline, TLAPS

\* The caller's lock: at most one operation is inside arm .. disarm.
HolderIsInside ==
  /\ \A o \in Ops : holder[Object(o)] = o <=> pc[o] \notin {"idle", "over"}
  /\ \A d \in Objects : holder[d] # NoOp => Object(holder[d]) = d

\* Nothing uses the connection before the handshake is over.
HandshakeFirst ==
  \A o \in Ops \ HandshakeOps : pc[o] # "idle" => \A h \in HandshakeOps : pc[h] = "over"

\* Generations: counted by gen, captured once, never shared.
GenerationsUnique ==
  /\ \A o \in Ops : g[o] <= gen[Object(o)]
  /\ \A o \in Ops : pc[o] \in {"idle", "check", "set"} => g[o] = 0 /\ cb[o] = "none"
  /\ \A o \in Ops : cb[o] # "none" => g[o] # 0
  /\ \A o, q \in Ops : Object(o) = Object(q) /\ o # q /\ g[o] # 0 => g[o] # g[q]

\* The active generation is that of the armed operation.
ActiveIsArmed ==
  /\ \A o \in Ops : Armed(o) => g[o] # 0 /\ active[Object(o)] = g[o]
  /\ \A d \in Objects : active[d] # 0 => holder[d] # NoOp /\ Armed(holder[d])

CallbackAfterDone == \A o \in Ops : cb[o] = "started" => done[o]

\* Whose deadline a direction may carry.
DeadlineOf(r, o) ==
  Armed(o) /\ r \in Sets(o) /\ (deadline[r] = o \/ (deadline[r] = Past /\ done[o]))

DeadlineIsArmed == \A r \in Dirs : deadline[r] = NoDeadline \/ \E o \in Ops : DeadlineOf(r, o)

IInv ==
  /\ TypeOK /\ HolderIsInside /\ HandshakeFirst /\ GenerationsUnique
  /\ ActiveIsArmed /\ CallbackAfterDone /\ DeadlineIsArmed

-----------------------------------------------------------------------------
\* The objects and the directions of an operation.
LEMMA ObjectFacts ==
  /\ \A o \in Ops : Object(o) \in Objects /\ Sets(o) \subseteq Dirs
  /\ \A o \in Ops \ HandshakeOps : Sets(o) = {Object(o)}
  /\ \A o, q \in Ops : o \in HandshakeOps /\ q \in HandshakeOps => Object(o) = Object(q)
  BY DEF Object, Sets, Objects, Dirs, Ops

\* At most one armed operation sets a direction.
LEMMA OneArmed ==
  ASSUME IInv, NEW o \in Ops, NEW q \in Ops, NEW r \in Dirs,
         Armed(o), Armed(q), r \in Sets(o), r \in Sets(q)
  PROVE  o = q
<1>1. (o \in HandshakeOps) <=> (q \in HandshakeOps)
  BY DEF IInv, HandshakeFirst, Armed
<1>2. Object(o) = Object(q)
  BY <1>1, ObjectFacts
<1> QED BY <1>2 DEF IInv, HolderIsInside, Armed

\* An operation that is not armed, or not yet, never has the active
\* generation: its late callback and its disarm do nothing.
LEMMA StaleGeneration ==
  ASSUME IInv, NEW o \in Ops, g[o] # 0, active[Object(o)] = g[o]
  PROVE  Armed(o)
<1> DEFINE q == holder[Object(o)]
<1>1. q \in Ops /\ Armed(q) /\ Object(q) = Object(o)
  BY ObjectFacts DEF IInv, TypeOK, ActiveIsArmed, HolderIsInside
<1>2. g[q] = g[o]
  BY <1>1 DEF IInv, ActiveIsArmed
<1> QED BY <1>1, <1>2 DEF IInv, GenerationsUnique

-----------------------------------------------------------------------------
\* The first state satisfies the invariant.
LEMMA InitIInv == Init => IInv
<1> SUFFICES ASSUME Init PROVE IInv
  OBVIOUS
<1>1. TypeOK
  BY DEF Init, TypeOK
<1>2. HolderIsInside /\ HandshakeFirst /\ GenerationsUnique /\ ActiveIsArmed
  BY OpsAssumption, ObjectFacts DEF Init, HolderIsInside, HandshakeFirst, GenerationsUnique,
      ActiveIsArmed, Armed
<1>3. CallbackAfterDone /\ DeadlineIsArmed
  BY DEF Init, CallbackAfterDone, DeadlineIsArmed
<1> QED BY <1>1, <1>2, <1>3 DEF IInv

\* Every step preserves the invariant.
LEMMA StepIInv == IInv /\ [Next]_vars => IInv'
<1> SUFFICES ASSUME IInv, [Next]_vars PROVE IInv'
  OBVIOUS
<1> USE DEF IInv
<1>0. CASE UNCHANGED vars
  BY <1>0 DEF vars, TypeOK, HolderIsInside, HandshakeFirst, GenerationsUnique, ActiveIsArmed,
              CallbackAfterDone, DeadlineIsArmed, DeadlineOf, Armed
<1>1. ASSUME NEW o \in Ops, Begin(o) PROVE IInv'
  <2>1. TypeOK'
    BY <1>1 DEF Begin, Goto, TypeOK
  <2>2. HolderIsInside'
    BY <1>1, ObjectFacts, OpsAssumption DEF Begin, Goto, TypeOK, HolderIsInside
  <2>3. HandshakeFirst'
    BY <1>1 DEF Begin, Goto, HolderIsInside, TypeOK, HandshakeFirst
  <2>4. GenerationsUnique'
    BY <1>1, ObjectFacts DEF Begin, Goto, TypeOK, GenerationsUnique
  <2>5. ActiveIsArmed'
    BY <1>1, ObjectFacts, OpsAssumption DEF Begin, Goto, HolderIsInside, GenerationsUnique, Armed,
        TypeOK, ActiveIsArmed
  <2>6. CallbackAfterDone'
    BY <1>1 DEF Begin, Goto, TypeOK, CallbackAfterDone
  <2>7. DeadlineIsArmed'
    BY <1>1, ObjectFacts DEF Begin, Goto, DeadlineOf, Armed, TypeOK, DeadlineIsArmed
  <2> QED BY <2>1, <2>2, <2>3, <2>4, <2>5, <2>6, <2>7
<1>2. ASSUME NEW o \in Ops, ArmChecks(o) PROVE IInv'
  <2>1. TypeOK'
    BY <1>2 DEF ArmChecks, Goto, TypeOK
  <2>2. HolderIsInside'
    BY <1>2, ObjectFacts, OpsAssumption DEF ArmChecks, Goto, TypeOK, HolderIsInside
  <2>3. HandshakeFirst'
    <3>1. pc[o] = "check" /\ \E to \in {"over", "set"} : pc' = [pc EXCEPT ![o] = to]
      BY <1>2 DEF ArmChecks, Goto
    <3> QED BY <3>1 DEF TypeOK, HandshakeFirst
  <2>4. GenerationsUnique'
    BY <1>2, ObjectFacts DEF ArmChecks, Goto, TypeOK, GenerationsUnique
  <2>5. ActiveIsArmed'
    BY <1>2, ObjectFacts, OpsAssumption DEF ArmChecks, Goto, HolderIsInside, GenerationsUnique, Armed,
        TypeOK, ActiveIsArmed
  <2>6. CallbackAfterDone'
    BY <1>2 DEF ArmChecks, Goto, TypeOK, CallbackAfterDone
  <2>7. DeadlineIsArmed'
    BY <1>2, ObjectFacts DEF ArmChecks, Goto, DeadlineOf, Armed, TypeOK, DeadlineIsArmed
  <2> QED BY <2>1, <2>2, <2>3, <2>4, <2>5, <2>6, <2>7
<1>3. ASSUME NEW o \in Ops, ArmSets(o) PROVE IInv'
  <2>1. TypeOK'
    BY <1>3, ObjectFacts DEF ArmSets, Goto, Set, TypeOK
  <2>2. HolderIsInside'
    BY <1>3, ObjectFacts, OpsAssumption DEF ArmSets, Goto, Set, TypeOK, HolderIsInside
  <2>3. HandshakeFirst'
    BY <1>3, ObjectFacts DEF ArmSets, Goto, Set, TypeOK, HandshakeFirst
  <2>4. GenerationsUnique'
    BY <1>3, ObjectFacts DEF ArmSets, Goto, Set, TypeOK, GenerationsUnique
  <2>5. ActiveIsArmed'
    BY <1>3, ObjectFacts, OpsAssumption DEF ArmSets, Goto, Set, HolderIsInside, GenerationsUnique,
        Armed, TypeOK, ActiveIsArmed
  <2>6. CallbackAfterDone'
    BY <1>3, ObjectFacts DEF ArmSets, Goto, Set, TypeOK, CallbackAfterDone
  <2>7. DeadlineIsArmed'
    BY <1>3, ObjectFacts DEF ArmSets, Goto, Set, DeadlineOf, Armed, TypeOK, DeadlineIsArmed
  <2> QED BY <2>1, <2>2, <2>3, <2>4, <2>5, <2>6, <2>7
<1>4. ASSUME NEW o \in Ops, Registers(o) PROVE IInv'
  <2>1. TypeOK'
    BY <1>4 DEF Registers, Goto, TypeOK
  <2>2. HolderIsInside'
    BY <1>4, ObjectFacts, OpsAssumption DEF Registers, Goto, TypeOK, HolderIsInside
  <2>3. HandshakeFirst'
    BY <1>4 DEF Registers, Goto, TypeOK, HandshakeFirst
  <2>4. GenerationsUnique'
    BY <1>4, ObjectFacts DEF Registers, Goto, TypeOK, ActiveIsArmed, Armed, GenerationsUnique
  <2>5. ActiveIsArmed'
    BY <1>4, ObjectFacts, OpsAssumption DEF Registers, Goto, HolderIsInside, GenerationsUnique, Armed,
        TypeOK, ActiveIsArmed
  <2>6. CallbackAfterDone'
    BY <1>4 DEF Registers, Goto, TypeOK, CallbackAfterDone
  <2>7. DeadlineIsArmed'
    BY <1>4, ObjectFacts DEF Registers, Goto, DeadlineOf, Armed, TypeOK, DeadlineIsArmed
  <2> QED BY <2>1, <2>2, <2>3, <2>4, <2>5, <2>6, <2>7
<1>5. ASSUME NEW o \in Ops, CallbackStarts(o) PROVE IInv'
  <2>1. TypeOK'
    BY <1>5 DEF CallbackStarts, TypeOK
  <2>2. HolderIsInside'
    BY <1>5, ObjectFacts, OpsAssumption DEF CallbackStarts, TypeOK, HolderIsInside
  <2>3. HandshakeFirst'
    BY <1>5 DEF CallbackStarts, TypeOK, HandshakeFirst
  <2>4. GenerationsUnique'
    BY <1>5, ObjectFacts DEF CallbackStarts, TypeOK, GenerationsUnique
  <2>5. ActiveIsArmed'
    BY <1>5, ObjectFacts, OpsAssumption DEF CallbackStarts, HolderIsInside, GenerationsUnique, Armed,
        TypeOK, ActiveIsArmed
  <2>6. CallbackAfterDone'
    BY <1>5 DEF CallbackStarts, TypeOK, CallbackAfterDone
  <2>7. DeadlineIsArmed'
    BY <1>5, ObjectFacts DEF CallbackStarts, DeadlineOf, Armed, TypeOK, DeadlineIsArmed
  <2> QED BY <2>1, <2>2, <2>3, <2>4, <2>5, <2>6, <2>7
<1>6. ASSUME NEW o \in Ops, CallbackSets(o) PROVE IInv'
  <2>1. TypeOK'
    BY <1>6, ObjectFacts DEF CallbackSets, Set, TypeOK
  <2>2. HolderIsInside'
    BY <1>6, ObjectFacts, OpsAssumption DEF CallbackSets, Set, TypeOK, HolderIsInside
  <2>3. HandshakeFirst'
    BY <1>6, ObjectFacts DEF CallbackSets, Set, TypeOK, HandshakeFirst
  <2>4. GenerationsUnique'
    BY <1>6, ObjectFacts DEF CallbackSets, Set, TypeOK, GenerationsUnique
  <2>5. ActiveIsArmed'
    BY <1>6, ObjectFacts, OpsAssumption DEF CallbackSets, Set, HolderIsInside, GenerationsUnique,
        Armed, TypeOK, ActiveIsArmed
  <2>6. CallbackAfterDone'
    BY <1>6, ObjectFacts DEF CallbackSets, Set, TypeOK, CallbackAfterDone
  <2>7. DeadlineIsArmed'
    <3>1. CASE active[Object(o)] = g[o]
      <4>1. Armed(o) /\ done[o]
        BY <1>6, <3>1, StaleGeneration DEF CallbackSets, GenerationsUnique, CallbackAfterDone
      <4>2. /\ deadline' = [r \in Dirs |-> IF r \in Sets(o) THEN Past ELSE deadline[r]]
            /\ pc' = pc /\ done' = done
        BY <1>6, <3>1 DEF CallbackSets, Set
      <4> QED BY <4>1, <4>2 DEF DeadlineIsArmed, DeadlineOf, Armed
    <3>2. CASE active[Object(o)] # g[o]
      BY <1>6, <3>2 DEF CallbackSets, DeadlineIsArmed, DeadlineOf, Armed
    <3> QED BY <3>1, <3>2
  <2> QED BY <2>1, <2>2, <2>3, <2>4, <2>5, <2>6, <2>7
<1>7. ASSUME NEW o \in Ops, Stops(o) PROVE IInv'
  <2>1. TypeOK'
    BY <1>7 DEF Stops, Goto, TypeOK
  <2>2. HolderIsInside'
    BY <1>7, ObjectFacts, OpsAssumption DEF Stops, Goto, TypeOK, HolderIsInside
  <2>3. HandshakeFirst'
    BY <1>7 DEF Stops, Goto, TypeOK, HandshakeFirst
  <2>4. GenerationsUnique'
    BY <1>7, ObjectFacts DEF Stops, Goto, TypeOK, GenerationsUnique
  <2>5. ActiveIsArmed'
    BY <1>7, ObjectFacts, OpsAssumption DEF Stops, Goto, HolderIsInside, GenerationsUnique, Armed,
        TypeOK, ActiveIsArmed
  <2>6. CallbackAfterDone'
    BY <1>7 DEF Stops, Goto, TypeOK, CallbackAfterDone
  <2>7. DeadlineIsArmed'
    BY <1>7, ObjectFacts DEF Stops, Goto, DeadlineOf, Armed, TypeOK, DeadlineIsArmed
  <2> QED BY <2>1, <2>2, <2>3, <2>4, <2>5, <2>6, <2>7
<1>8. ASSUME NEW o \in Ops, Disarms(o) PROVE IInv'
  <2>1. TypeOK'
    BY <1>8, ObjectFacts DEF Disarms, Goto, Set, TypeOK
  <2>2. HolderIsInside'
    BY <1>8, ObjectFacts, OpsAssumption DEF Disarms, Goto, Set, TypeOK, HolderIsInside
  <2>3. HandshakeFirst'
    BY <1>8, ObjectFacts DEF Disarms, Goto, Set, TypeOK, HandshakeFirst
  <2>4. GenerationsUnique'
    BY <1>8, ObjectFacts DEF Disarms, Goto, Set, TypeOK, GenerationsUnique
  <2>5. ActiveIsArmed'
    BY <1>8, ObjectFacts, OpsAssumption DEF Disarms, Goto, Set, HolderIsInside, GenerationsUnique,
        Armed, TypeOK, ActiveIsArmed
  <2>6. CallbackAfterDone'
    BY <1>8, ObjectFacts DEF Disarms, Goto, Set, TypeOK, CallbackAfterDone
  <2>7. DeadlineIsArmed'
    <3>1. Armed(o)
      BY <1>8 DEF Disarms, Goto, Armed
    <3>2. /\ deadline' = [r \in Dirs |-> IF r \in Sets(o) THEN NoDeadline ELSE deadline[r]]
          /\ done' = done /\ \A q \in Ops \ {o} : Armed(q)' = Armed(q)
      BY <1>8, <3>1 DEF Disarms, Goto, Set, ActiveIsArmed, Armed, TypeOK
    <3> QED BY <3>2 DEF DeadlineIsArmed, DeadlineOf
  <2> QED BY <2>1, <2>2, <2>3, <2>4, <2>5, <2>6, <2>7
<1>9. ASSUME NEW o \in Ops, IoTimesOut(o) PROVE IInv'
  <2>1. TypeOK'
    BY <1>9 DEF IoTimesOut, Goto, TypeOK
  <2>2. HolderIsInside'
    BY <1>9, ObjectFacts, OpsAssumption DEF IoTimesOut, Goto, TypeOK, HolderIsInside
  <2>3. HandshakeFirst'
    BY <1>9 DEF IoTimesOut, Goto, TypeOK, HandshakeFirst
  <2>4. GenerationsUnique'
    BY <1>9, ObjectFacts DEF IoTimesOut, Goto, TypeOK, GenerationsUnique
  <2>5. ActiveIsArmed'
    BY <1>9, ObjectFacts, OpsAssumption DEF IoTimesOut, Goto, HolderIsInside, GenerationsUnique, Armed,
        TypeOK, ActiveIsArmed
  <2>6. CallbackAfterDone'
    BY <1>9 DEF IoTimesOut, Goto, TypeOK, CallbackAfterDone
  <2>7. DeadlineIsArmed'
    BY <1>9, ObjectFacts DEF IoTimesOut, Goto, DeadlineOf, Armed, TypeOK, DeadlineIsArmed
  <2> QED BY <2>1, <2>2, <2>3, <2>4, <2>5, <2>6, <2>7
<1>10. ASSUME NEW o \in Ops, IoEnds(o) PROVE IInv'
  <2>1. TypeOK'
    BY <1>10 DEF IoEnds, Goto, TypeOK
  <2>2. HolderIsInside'
    BY <1>10, ObjectFacts, OpsAssumption DEF IoEnds, Goto, TypeOK, HolderIsInside
  <2>3. HandshakeFirst'
    BY <1>10 DEF IoEnds, Goto, TypeOK, HandshakeFirst
  <2>4. GenerationsUnique'
    BY <1>10, ObjectFacts DEF IoEnds, Goto, TypeOK, GenerationsUnique
  <2>5. ActiveIsArmed'
    BY <1>10, ObjectFacts, OpsAssumption DEF IoEnds, Goto, HolderIsInside, GenerationsUnique, Armed,
        TypeOK, ActiveIsArmed
  <2>6. CallbackAfterDone'
    BY <1>10 DEF IoEnds, Goto, TypeOK, CallbackAfterDone
  <2>7. DeadlineIsArmed'
    BY <1>10, ObjectFacts DEF IoEnds, Goto, DeadlineOf, Armed, TypeOK, DeadlineIsArmed
  <2> QED BY <2>1, <2>2, <2>3, <2>4, <2>5, <2>6, <2>7
<1>11. ASSUME NEW o \in Ops, CtxDone(o) PROVE IInv'
  <2>1. TypeOK'
    BY <1>11 DEF CtxDone, TypeOK
  <2>2. HolderIsInside'
    BY <1>11, ObjectFacts, OpsAssumption DEF CtxDone, TypeOK, HolderIsInside
  <2>3. HandshakeFirst'
    BY <1>11 DEF CtxDone, TypeOK, HandshakeFirst
  <2>4. GenerationsUnique'
    BY <1>11, ObjectFacts DEF CtxDone, TypeOK, GenerationsUnique
  <2>5. ActiveIsArmed'
    BY <1>11, ObjectFacts, OpsAssumption DEF CtxDone, HolderIsInside, GenerationsUnique, Armed, TypeOK,
        ActiveIsArmed
  <2>6. CallbackAfterDone'
    BY <1>11 DEF CtxDone, TypeOK, CallbackAfterDone
  <2>7. DeadlineIsArmed'
    BY <1>11, ObjectFacts DEF CtxDone, DeadlineOf, Armed, TypeOK, DeadlineIsArmed
  <2> QED BY <2>1, <2>2, <2>3, <2>4, <2>5, <2>6, <2>7
<1>12. ASSUME NEW o \in Ops, DeadlinePasses(o) PROVE IInv'
  <2>1. TypeOK'
    BY <1>12 DEF DeadlinePasses, TypeOK
  <2>2. HolderIsInside'
    BY <1>12, ObjectFacts, OpsAssumption DEF DeadlinePasses, TypeOK, HolderIsInside
  <2>3. HandshakeFirst'
    BY <1>12 DEF DeadlinePasses, TypeOK, HandshakeFirst
  <2>4. GenerationsUnique'
    BY <1>12, ObjectFacts DEF DeadlinePasses, TypeOK, GenerationsUnique
  <2>5. ActiveIsArmed'
    BY <1>12, ObjectFacts, OpsAssumption DEF DeadlinePasses, HolderIsInside, GenerationsUnique, Armed,
        TypeOK, ActiveIsArmed
  <2>6. CallbackAfterDone'
    BY <1>12 DEF DeadlinePasses, TypeOK, CallbackAfterDone
  <2>7. DeadlineIsArmed'
    BY <1>12, ObjectFacts DEF DeadlinePasses, DeadlineOf, Armed, TypeOK, DeadlineIsArmed
  <2> QED BY <2>1, <2>2, <2>3, <2>4, <2>5, <2>6, <2>7
<1> QED BY <1>0, <1>1, <1>2, <1>3, <1>4, <1>5, <1>6, <1>7, <1>8, <1>9, <1>10, <1>11, <1>12 DEF Next,
        Operation, Callback

-----------------------------------------------------------------------------
\* The invariant holds for ever.
THEOREM IInvHolds == Spec => []IInv
  BY InitIInv, StepIInv, PTL DEF Spec

\* Every variable keeps its type.
THEOREM TypeCorrect == Spec => []TypeOK
<1>1. IInv => TypeOK
  BY DEF IInv
<1> QED BY <1>1, IInvHolds, PTL

\* Whatever callbacks of earlier operations, of the handshake or of the other
\* direction are still to run, an operation is cut by its own context only.
THEOREM OnlyOwnContextCuts == Spec => []TimeoutIsOwn
<1>1. IInv => TimeoutIsOwn
  <2> SUFFICES ASSUME IInv, NEW o \in Ops, pc[o] = "io", NEW r \in Sets(o), Expired(r)
               PROVE  done[o] \/ dl[o] = "passed"
    BY DEF TimeoutIsOwn
  <2>1. r \in Dirs /\ deadline[r] # NoDeadline
    BY ObjectFacts, OpsAssumption DEF Expired
  <2>2. PICK q \in Ops : DeadlineOf(r, q)
    BY <2>1 DEF IInv, DeadlineIsArmed
  <2>3. q = o
    BY <2>1, <2>2, OneArmed DEF DeadlineOf, Armed
  <2> QED BY <2>2, <2>3, OpsAssumption DEF DeadlineOf, Expired
<1> QED BY <1>1, IInvHolds, PTL

\* A direction that no armed operation uses has no deadline.
THEOREM BaseIsRestored == Spec => []RestoredBetweenOps
<1>1. IInv => RestoredBetweenOps
  BY DEF IInv, DeadlineIsArmed, DeadlineOf, RestoredBetweenOps
<1> QED BY <1>1, IInvHolds, PTL
=============================================================================
