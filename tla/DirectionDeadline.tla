-------------------------- MODULE DirectionDeadline --------------------------
(***************************************************************************)
(* directionDeadline (deadline.go): how the context of an operation is     *)
(* turned into deadlines of one stream.  The handshake arms one object     *)
(* that sets both directions; the open connection has an object for each   *)
(* direction, and the callbacks of finished operations may still be        *)
(* running.  A critical section of d.mu is one step.                       *)
(***************************************************************************)
EXTENDS Naturals

CONSTANTS
  HandshakeOps,       \* the Connect or Accept that opens the connection
  ReadOps, WriteOps,  \* calls of ReadTSDU and of WriteTSDU
  NoOp,
  NoDeadline, Past    \* time.Time{} and pastDeadline

Ops == HandshakeOps \cup ReadOps \cup WriteOps

ASSUME OpsAssumption ==
  /\ HandshakeOps \cap (ReadOps \cup WriteOps) = {}
  /\ ReadOps \cap WriteOps = {}
  /\ NoOp \notin Ops
  /\ NoDeadline \notin Ops /\ Past \notin Ops /\ NoDeadline # Past

Dirs == {"read", "write"}
Objects == {"handshake", "read", "write"}  \* the directionDeadline values

Object(o) ==
  IF o \in HandshakeOps THEN "handshake" ELSE IF o \in ReadOps THEN "read" ELSE "write"

\* The directions the set function of o's object applies to.
Sets(o) == IF o \in HandshakeOps THEN Dirs ELSE {Object(o)}

VARIABLES
  active,    \* active[d]: generation of the armed operation, 0 when idle
  gen,       \* gen[d]
  deadline,  \* the stream's deadline in each direction: an operation stands
             \* for the deadline of its context
  holder,    \* holder[d]: the operation its caller serializes on object d
  pc,
  g,         \* the generation an operation captured
  cb,        \* its context.AfterFunc callback
  done,      \* ctx.Done() is closed
  dl         \* ctx.Deadline(): "none", "pending" or "passed"

vars == <<active, gen, deadline, holder, pc, g, cb, done, dl>>

Init ==
  /\ active = [d \in Objects |-> 0]
  /\ gen = [d \in Objects |-> 0]
  /\ deadline = [r \in Dirs |-> NoDeadline]
  /\ holder = [d \in Objects |-> NoOp]
  /\ pc = [o \in Ops |-> "idle"]
  /\ g = [o \in Ops |-> 0]
  /\ cb = [o \in Ops |-> "none"]
  /\ done = [o \in Ops |-> FALSE]
  /\ dl \in [Ops -> {"none", "pending"}]

Goto(o, from, to) == pc[o] = from /\ pc' = [pc EXCEPT ![o] = to]

\* set(t) on the directions of o's object.
Set(o, t) == deadline' = [r \in Dirs |-> IF r \in Sets(o) THEN t ELSE deadline[r]]

-----------------------------------------------------------------------------
\* The caller takes its turn: readMu, writeMu, or the handshake's goroutine;
\* there is no Conn to read or write before the handshake is over.
Begin(o) ==
  /\ holder[Object(o)] = NoOp
  /\ o \notin HandshakeOps => \A h \in HandshakeOps : pc[h] = "over"
  /\ Goto(o, "idle", "check")
  /\ holder' = [holder EXCEPT ![Object(o)] = o]
  /\ UNCHANGED <<active, gen, deadline, g, cb, done, dl>>

\* arm: a context that is done already changes nothing.
ArmChecks(o) ==
  /\ IF done[o]
       THEN Goto(o, "check", "over") /\ holder' = [holder EXCEPT ![Object(o)] = NoOp]
       ELSE Goto(o, "check", "set") /\ UNCHANGED holder
  /\ UNCHANGED <<active, gen, deadline, g, cb, done, dl>>

ArmSets(o) ==
  LET d == Object(o) IN
  /\ Goto(o, "set", "register")
  /\ gen' = [gen EXCEPT ![d] = @ + 1]
  /\ g' = [g EXCEPT ![o] = gen[d] + 1]
  /\ active' = [active EXCEPT ![d] = gen[d] + 1]
  /\ IF dl[o] # "none" THEN Set(o, o) ELSE UNCHANGED deadline
  /\ UNCHANGED <<holder, cb, done, dl>>

\* Mutant: no callback for a context that ended since arm looked.
RegistersUnlessDone(o) ==
  /\ Goto(o, "register", "io")
  /\ cb' = [cb EXCEPT ![o] = IF done[o] THEN "none" ELSE "waiting"]
  /\ UNCHANGED <<active, gen, deadline, holder, g, done, dl>>

Registers(o) ==
  /\ Goto(o, "register", "io")
  /\ cb' = [cb EXCEPT ![o] = "waiting"]
  /\ UNCHANGED <<active, gen, deadline, holder, g, done, dl>>

\* The runtime starts the callback in a goroutine of its own; from here on
\* stop cannot prevent it.
CallbackStarts(o) ==
  /\ cb[o] = "waiting" /\ done[o]
  /\ cb' = [cb EXCEPT ![o] = "started"]
  /\ UNCHANGED <<active, gen, deadline, holder, pc, g, done, dl>>

\* Mutant: the callback does not compare generations.
CallbackSetsAlways(o) ==
  /\ cb[o] = "started"
  /\ cb' = [cb EXCEPT ![o] = "none"]
  /\ Set(o, Past)
  /\ UNCHANGED <<active, gen, holder, pc, g, done, dl>>

CallbackSets(o) ==
  /\ cb[o] = "started"
  /\ cb' = [cb EXCEPT ![o] = "none"]
  /\ IF active[Object(o)] = g[o] THEN Set(o, Past) ELSE UNCHANGED deadline
  /\ UNCHANGED <<active, gen, holder, pc, g, done, dl>>

\* disarm: stop, then the critical section, then the caller's unlock.
Stops(o) ==
  /\ Goto(o, "stop", "disarm")
  /\ cb' = [cb EXCEPT ![o] = IF @ = "waiting" THEN "none" ELSE @]
  /\ UNCHANGED <<active, gen, deadline, holder, g, done, dl>>

\* Mutant: the base deadline is not restored.
DisarmsKeepingDeadline(o) ==
  LET d == Object(o) IN
  /\ Goto(o, "disarm", "over")
  /\ active' = [active EXCEPT ![d] = IF @ = g[o] THEN 0 ELSE @]
  /\ holder' = [holder EXCEPT ![d] = NoOp]
  /\ UNCHANGED <<gen, deadline, g, cb, done, dl>>

Disarms(o) ==
  LET d == Object(o) IN
  /\ Goto(o, "disarm", "over")
  /\ IF active[d] = g[o]
       THEN active' = [active EXCEPT ![d] = 0] /\ Set(o, NoDeadline)
       ELSE UNCHANGED <<active, deadline>>
  /\ holder' = [holder EXCEPT ![d] = NoOp]
  /\ UNCHANGED <<gen, g, cb, done, dl>>

-----------------------------------------------------------------------------
(* The stream and the contexts                                             *)

Expired(r) == deadline[r] = Past \/ (deadline[r] \in Ops /\ dl[deadline[r]] = "passed")

IoTimesOut(o) ==
  /\ \E r \in Sets(o) : Expired(r)
  /\ Goto(o, "io", "stop")
  /\ UNCHANGED <<active, gen, deadline, holder, g, cb, done, dl>>

IoEnds(o) ==
  /\ Goto(o, "io", "stop")
  /\ UNCHANGED <<active, gen, deadline, holder, g, cb, done, dl>>

CtxDone(o) ==
  /\ ~done[o] /\ pc[o] # "over"
  /\ done' = [done EXCEPT ![o] = TRUE]
  /\ UNCHANGED <<active, gen, deadline, holder, pc, g, cb, dl>>

DeadlinePasses(o) ==
  /\ dl[o] = "pending" /\ pc[o] # "over"
  /\ dl' = [dl EXCEPT ![o] = "passed"]
  /\ UNCHANGED <<active, gen, deadline, holder, pc, g, cb, done>>

-----------------------------------------------------------------------------
Operation(o) ==
  ArmChecks(o) \/ ArmSets(o) \/ Registers(o) \/ IoTimesOut(o) \/ Stops(o) \/ Disarms(o)

Callback(o) == CallbackStarts(o) \/ CallbackSets(o)

Next ==
  \E o \in Ops : Begin(o) \/ Operation(o) \/ Callback(o) \/ IoEnds(o) \/ CtxDone(o) \/ DeadlinePasses(o)

Spec == Init /\ [][Next]_vars

\* Operations and callbacks are scheduled; a stream whose deadline has passed
\* returns.  The peer and the contexts owe nothing.
FairSpec == Spec /\ \A o \in Ops : WF_vars(Operation(o)) /\ WF_vars(Callback(o))

-----------------------------------------------------------------------------
TypeOK ==
  /\ active \in [Objects -> Nat]
  /\ gen \in [Objects -> Nat]
  /\ deadline \in [Dirs -> Ops \cup {NoDeadline, Past}]
  /\ holder \in [Objects -> Ops \cup {NoOp}]
  /\ pc \in [Ops -> {"idle", "check", "set", "register", "io", "stop", "disarm", "over"}]
  /\ g \in [Ops -> Nat]
  /\ cb \in [Ops -> {"none", "waiting", "started"}]
  /\ done \in [Ops -> BOOLEAN]
  /\ dl \in [Ops -> {"none", "pending", "passed"}]

Armed(o) == pc[o] \in {"register", "io", "stop", "disarm"}

\* An operation's I/O is cut by a deadline only if its own context is done or
\* its own deadline has passed: not by the callback of an earlier operation
\* or of the handshake that runs late, nor by the other direction.
TimeoutIsOwn ==
  \A o \in Ops : pc[o] = "io" /\ (\E r \in Sets(o) : Expired(r)) => done[o] \/ dl[o] = "passed"

\* Between operations a direction has no deadline, whatever callbacks are
\* still to run ("restored to base").
RestoredBetweenOps ==
  \A r \in Dirs : (\A o \in Ops : r \in Sets(o) => ~Armed(o)) => deadline[r] = NoDeadline

\* A context that ends while its operation is blocked interrupts it: arm's
\* set(dl) never overwrites the past deadline of its own callback, and the
\* callback is not lost when the context ended before AfterFunc.
CancelInterrupts ==
  \A o \in Ops : pc[o] = "io" /\ done[o] ~> pc[o] = "over"
=============================================================================
