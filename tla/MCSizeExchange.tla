--------------------------- MODULE MCSizeExchange ---------------------------
(* TLC instance of SizeExchange: ceilings at and around every place where  *)
(* a branch of the negotiation turns.                                      *)
EXTENDS SizeExchange

MCCeilings == {0, 128, 129, 2047, 2048, 16384, 40000, 65408, 65530, 65531}
MCCodes == {0, 7, 12, 15, 16, 17}
MCUnits == {0, 1, 17, 511, 512}
=============================================================================
