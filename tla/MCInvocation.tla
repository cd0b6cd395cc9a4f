---------------------------- MODULE MCInvocation ----------------------------
(* Instances of Invocation for TLC.                                        *)
EXTENDS Invocation, TLC

CONSTANTS a1, a2
=============================================================================
