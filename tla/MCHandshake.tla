---------------------------- MODULE MCHandshake ----------------------------
(* TLC instances of Handshake: two ends of this code, or one of them       *)
(* against another implementation.                                         *)
EXTENDS Handshake

Client(max, profile) ==
  [max |-> max, profile |-> profile, local |-> "A", remote |-> "B", dataFits |-> TRUE, crFits |-> TRUE]

Server(max, auto) ==
  [max |-> max, local |-> Absent, echo |-> FALSE, auto |-> auto, ccFits |-> TRUE]

\* Each field takes its unusual value in some configuration.
MCClients ==
  {Client(0, Compat), Client(2048, Compat), Client(0, PreferredMaximum), Client(127, Compat),
   [Client(3000, Compat) EXCEPT !.local = Absent, !.remote = Absent],
   [Client(0, Compat) EXCEPT !.dataFits = FALSE], [Client(0, Compat) EXCEPT !.crFits = FALSE]}

MCServers ==
  {Server(0, TRUE), Server(3000, FALSE), Server(65532, TRUE),
   [Server(1024, TRUE) EXCEPT !.local = "B"], [Server(1024, TRUE) EXCEPT !.local = "C"],
   [Server(0, FALSE) EXCEPT !.echo = TRUE], [Server(0, TRUE) EXCEPT !.ccFits = FALSE]}

Decision(action, max) == [action |-> action, max |-> max, dataFits |-> TRUE, reason |-> "Congestion"]

MCDecisions ==
  {Decision("accept", 0), Decision("accept", 512), Decision("accept", 65536), Decision("reject", 0),
   Decision("error", 0), Decision("invalid", 0),
   [Decision("accept", 0) EXCEPT !.dataFits = FALSE]}

Sizes == {SizeParams(None, None), SizeParams(11, None), SizeParams(11, 24), SizeParams(3, None),
          SizeParams(None, 512)}

Strange == {[type |-> "DT"], [type |-> "malformed"], [type |-> "framing"]}

MCForeignCRs ==
  Strange \cup
  [type : {"CR"}, src : {0, 9}, dst : {0, 9}, class : {0, 2}, fixedOk : BOOLEAN, forbidden : BOOLEAN,
   size : Sizes, dataFits : BOOLEAN, calling : {Absent}, called : {"B"}]

MCForeignAnswers ==
  Strange \cup {[type |-> "DR", dst |-> 1, reason |-> "Congestion"], [type |-> "ER", dst |-> 1, cause |-> "value"]}
    \cup
  [type : {"CC"}, src : {0, 9}, dst : {1, 9}, fixedOk : BOOLEAN, paramsOk : BOOLEAN,
   size : Sizes, dataFits : BOOLEAN, calling : {Absent}, called : {Absent, "C"}]
=============================================================================
