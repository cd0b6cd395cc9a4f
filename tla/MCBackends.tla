----------------------------- MODULE MCBackends -----------------------------
(* Instances of Backends for TLC: all nine providers, and two callers that  *)
(* share a backend object or have one each.                                 *)
EXTENDS Backends

SharedOrOwn == {[c \in Client |-> "b1"], [c \in Client |-> IF c = "c1" THEN "b1" ELSE "b2"]}
=============================================================================
