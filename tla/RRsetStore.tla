----------------------------- MODULE RRsetStore -----------------------------
(***************************************************************************)
(* What a DNS backend promises to the code above it: a store of record     *)
(* sets.  Publishing replaces what an owner serves and never leaves it      *)
(* unserved; deleting takes records away; nothing else changes the zone.    *)
(*                                                                         *)
(* Owners whose deletion is wanted are in deleting; no other owner loses its *)
(* last record.                                                            *)
(*                                                                         *)
(* A provider that keys a record set by its owner replaces the whole set.   *)
(* One that hands out record ids replaces one record, and may hold several  *)
(* of one owner.                                                           *)
(***************************************************************************)
CONSTANTS Owner, Value

VARIABLES
    store,     \* [Owner -> SUBSET Value]: the values each owner serves
    keyed,     \* does the provider key a record set by its owner?
    deleting   \* the owners some caller is deleting

vars == <<store, keyed, deleting>>

Init == /\ store \in [Owner -> SUBSET Value]
        /\ keyed \in BOOLEAN
        /\ deleting = {}

\* The owner serves v and nothing else.
Replace(o, v) == store' = [store EXCEPT ![o] = {v}]

\* One record of the owner now holds v; the others are as they were, some of
\* them perhaps equal to the one that was overwritten.
Rewrite(o, v) ==
    /\ ~keyed
    /\ \E lost \in SUBSET store[o] :
          store' = [store EXCEPT ![o] = (@ \ lost) \union {v}]

\* Surplus records of an owner go, never the last of them.
Tidy(o) ==
    /\ ~keyed
    /\ \E kept \in (SUBSET store[o]) \ {{}} : store' = [store EXCEPT ![o] = kept]

\* Records of an owner are deleted: all of them where sets are keyed.
Delete(o) ==
    /\ o \in deleting
    /\ \E kept \in SUBSET store[o] :
          /\ keyed => kept = {}
          /\ store' = [store EXCEPT ![o] = kept]

Next == /\ \E o \in Owner :
              \/ \E v \in Value : Replace(o, v) \/ Rewrite(o, v)
              \/ Tidy(o)
              \/ Delete(o)
              \/ UNCHANGED store       \* a caller starts or ends
        /\ deleting' \in SUBSET Owner
        /\ UNCHANGED keyed

Spec == Init /\ [][Next]_vars
=============================================================================
