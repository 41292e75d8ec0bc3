---------------------------- MODULE SizeExchange ----------------------------
(***************************************************************************)
(* One exchange of sizes: the client's Connect builds an offer, the        *)
(* server's Accept selects, the client interprets the selection.  Either   *)
(* end may be another implementation that sends any parameters at all.     *)
(***************************************************************************)
EXTENDS SizeNegotiation

CONSTANTS
  Ceilings,       \* values of MaxTPDULength, all of them valid
  Codes, Units    \* what another implementation may send

ASSUME CeilingsAssumption == \A c \in Ceilings : c \in Int /\ ValidMax(c)
ASSUME CodesAssumption == Codes \subseteq Nat
ASSUME UnitsAssumption == Units \subseteq Nat

VARIABLES
  step,      \* "offer", "select", "interpret", "done"
  client, server, callback,  \* the configured ceilings
  profile,   \* the client's profile
  foreign,   \* the end that is another implementation: "none", "client", "server"
  cr, cc,    \* the size parameters on the wire
  serverEnd, clientEnd       \* the outcomes: [ok, effective]

config == <<client, server, callback, profile>>
vars == <<step, config, foreign, cr, cc, serverEnd, clientEnd>>

Pending == [ok |-> FALSE, effective |-> 0]

Init ==
  /\ step = "offer"
  /\ client \in Ceilings /\ server \in Ceilings /\ callback \in Ceilings
  /\ profile \in Profiles
  /\ foreign = "none"
  /\ cr = SizeParams(None, None) /\ cc = SizeParams(None, None)
  /\ serverEnd = Pending /\ clientEnd = Pending

\* Connect sends the CR.
ClientOffers ==
  /\ step = "offer" /\ step' = "select"
  /\ cr' = buildSizeOffer(client, profile)
  /\ UNCHANGED <<config, foreign, cc, serverEnd, clientEnd>>

\* Another client's CR.
OtherOffers ==
  /\ step = "offer" /\ step' = "select"
  /\ foreign' = "client"
  /\ \E code \in Codes \cup {None}, units \in Units \cup {None} : cr' = SizeParams(code, units)
  /\ UNCHANGED <<config, cc, serverEnd, clientEnd>>

\* Accept: an offer that does not decode ends the handshake.
ServerSelects ==
  LET peer == decodeSizeOffer(cr)
      sel == selectSize(peer.offer, server, callback)
  IN
  /\ step = "select"
  /\ IF peer.ok
       THEN /\ serverEnd' = [ok |-> TRUE, effective |-> sel.effective]
            /\ cc' = sel.params
            /\ step' = "interpret"
       ELSE /\ step' = "done"
            /\ UNCHANGED <<serverEnd, cc>>
  /\ UNCHANGED <<config, foreign, cr, clientEnd>>

\* Another server's CC.
OtherSelects ==
  /\ step = "select" /\ step' = "interpret"
  /\ foreign = "none" /\ foreign' = "server"
  /\ \E code \in Codes \cup {None}, units \in Units \cup {None} : cc' = SizeParams(code, units)
  /\ UNCHANGED <<config, cr, serverEnd, clientEnd>>

\* Connect reads the CC.
ClientInterprets ==
  /\ step = "interpret" /\ step' = "done"
  /\ clientEnd' = IF foreign = "client" THEN Pending
                                        ELSE interpretCCSize(Offer(cr), cc, profile)
  /\ UNCHANGED <<config, foreign, cr, cc, serverEnd>>

Next == ClientOffers \/ OtherOffers \/ ServerSelects \/ OtherSelects \/ ClientInterprets

Spec == Init /\ [][Next]_vars

-----------------------------------------------------------------------------
\* Two ends that both run this code always agree on a size, whatever their
\* ceilings and the client's profile.
SizesAgree ==
  step = "done" /\ foreign = "none" => clientEnd.ok /\ serverEnd.ok /\ clientEnd = serverEnd

Allowed(configured) == MinTPDULength .. normalizeConfiguredMax(configured)

\* An end that opens never works with a TPDU longer than its own ceiling or
\* shorter than the class allows, whatever the other end sent.
WithinOwnCeiling ==
  /\ clientEnd.ok => clientEnd.effective \in Allowed(client)
  /\ serverEnd.ok => serverEnd.effective \in Allowed(server) \cap Allowed(callback)

\* What the size codes 0x07 to 0x10 stand for.  This is the table of the code
\* and of RELEASE.md:204; docs/TP0_API_DESIGN.md:492 and docs/COMPLIANCE.md:82
\* still end it at 2048.
StandardSizes == {128, 256, 512, 1024, 2048, 4096, 8192, 16384, 32768, 65536}

IsLargestWithin(s, sizes, n) == s \in sizes /\ s <= n /\ \A t \in sizes : t <= n => t <= s

\* Against a reference definition: the server selects the largest size that
\* the chosen parameter can express within the CR's proposal and both
\* ceilings.  No ceiling costs more than its rounding, and rounding each
\* before taking the least loses nothing.  The sizes are those of the code,
\* not of docs/TP0_API_DESIGN.md:607 (a server with ceiling 16384 answers a CR
\* without size with 16384 here, not with 2048).
SelectsLargest ==
  LET peer == Offer(cr)
      limit == Least(clientEffectiveProposal(peer),
                     Least(normalizeConfiguredMax(server), normalizeConfiguredMax(callback)))
      sizes == IF peer.preferred # None THEN {128 * u : u \in 1 .. MaxPreferredUnitsITOT}
               ELSE StandardSizes \cup (IF peer.standard = None THEN {DefaultMaxTPDULength} ELSE {})
  IN serverEnd.ok => IsLargestWithin(serverEnd.effective, sizes, limit)

\* OnConnect may answer with the MaxTPDULength of the indication: it is a
\* ceiling that decides nothing, on every path of the selection.  The one it
\* must not repeat is 65536, of a CR with nothing but the size code 0x10:
\* Accept takes that for an invalid configuration.
EchoKeepsSelection ==
  LET peer == Offer(cr)
      echo == indicationMaxTPDULength(peer)
  IN serverEnd.ok =>
       IF ValidMax(echo) THEN selectSize(peer, server, echo) = selectSize(peer, server, 0)
                         ELSE cr = SizeParams(16, None)
=============================================================================
