--------------------------- MODULE AgentDirectory ---------------------------
(***************************************************************************)
(* What a domain's agent index promises its readers, whoever maintains it: *)
(* agents are announced by DNS records, and each rewrite of the list keeps *)
(* to agents that have been announced. The list may be stale (it may miss  *)
(* an agent, or still name one that left); it is never invented.           *)
(***************************************************************************)
CONSTANT Entries     \* the agents that could be listed

VARIABLES
    announced,       \* every entry some record of the zone has stood for
    listed           \* the entries of the index

Init == announced \subseteq Entries /\ listed = {}

(* Records appear or change in the zone.                                   *)
Announce == /\ \E new \in SUBSET Entries : announced' = announced \cup new
            /\ UNCHANGED listed

(* The index is rewritten, by an update or by a sync.                      *)
Relist == /\ listed' \in SUBSET announced
          /\ UNCHANGED announced

Next == Announce \/ Relist

Spec == Init /\ [][Next]_<<announced, listed>>
=============================================================================
