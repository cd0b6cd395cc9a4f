--------------------------- MODULE MCPublication ---------------------------
(* Instances of Publication for TLC.                                       *)
EXTENDS Publication, TLC

CONSTANTS a, b, mcp, a2a

Leftover == {<<a, mcp>>}
NoLeftover == {}

HonestFaults == {"write", "lostReply", "crash", "zone"}
AllFaults == {"write", "lostReply", "crash", "zone", "silentDelete", "read"}
OnlySilent == {"silentDelete"}
=============================================================================
