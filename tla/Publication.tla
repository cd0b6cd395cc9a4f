---------------------------- MODULE Publication ----------------------------
(***************************************************************************)
(* Publishing, unpublishing and indexing agents in one DNS zone:           *)
(* core/publisher.py, DNSBackend.publish_agent and core/indexer.py, driven *)
(* as the MCP server and the CLI drive them (the index is updated after a  *)
(* successful publish or unpublish).                                       *)
(*                                                                         *)
(* Every backend call is one step, so operators working on the same zone   *)
(* interleave between any two calls: nothing in the code locks the zone.   *)
(* A call may fail, fail after it took effect, or (a delete) answer False  *)
(* without deleting, and an operator may stop between two calls.           *)
(***************************************************************************)
EXTENDS Naturals

CONSTANTS
    Clients,      \* processes that publish, unpublish and sync
    Names,        \* agent names: the flat owner {name}.{domain}
    Protocols,    \* Protocol values: the alpn of the primary SVCB
    NativeKeys,   \* supports_private_svcb_keys: "yes", "no" or "unknown"
    AbsentAnswer, \* what delete_record says of an absent RRset
    LegacyZone,   \* draft-01 agents, <<name, protocol>>, left in the zone
    Kinds,        \* which operations the clients run
    FaultKinds,   \* which faults the environment may inject
    MaxOps,       \* bound: publishes and unpublishes started
    MaxFaults,    \* bound: faults injected
    None,         \* no record at this owner
    Unknown       \* UNKNOWN_PROTOCOL

ASSUME PublicationAssumption ==
    /\ MaxOps \in Nat
    /\ MaxFaults \in Nat
    /\ NativeKeys \in {"yes", "no", "unknown"}
    /\ AbsentAnswer \in {"yes", "no"}
    /\ LegacyZone \subseteq Names \X Protocols
    /\ Kinds \subseteq {"publish", "unpublish", "sync"}
    /\ Names # {}
    /\ Protocols # {}

(* No record is a record.                                                  *)
ASSUME NoneIsNoRecord == \A p \in Protocols, b \in BOOLEAN :
    None # [proto |-> p, full |-> b] /\ None # [demoted |-> b]

VARIABLES
    svcb,       \* primary SVCB RRset of each name
    txt,        \* companion TXT RRset of each name
    alias,      \* names with a walkable AliasMode SVCB
    legacy,     \* draft-01 records left: <<<<name, protocol>>, type>>
    index,      \* entries of the _index._agents TXT (absent reads as empty)
    pc,         \* the next backend call of each client
    me,         \* each client's arguments, locals and last outcome
    ops, faults,
    alone,      \* history: nobody else wrote since this client started
    touched,    \* history: names whose records changed since its sync began to list
    announced   \* history: every entry the zone's records ever stood for

zoneVars == <<svcb, txt, alias, legacy, index>>
vars == <<zoneVars, pc, me, ops, faults, alone, touched, announced>>

Agents == Names \X Protocols
SomeAgent == CHOOSE agent \in Agents : TRUE  \* that of a sync, which has none
Entries == Names \X (Protocols \cup {Unknown})

Primary == [proto : Protocols, full : BOOLEAN]   \* full: private keys native
Companion == [demoted : BOOLEAN]                 \* private keys in the TXT

Steps == {"idle", "zone", "native", "svcb", "txt", "alias",
          "probeSvcb", "probeTxt", "delSvcb", "delTxt", "delAlias",
          "delLegacySvcb", "delLegacyTxt", "idxRead", "idxWrite",
          "scanSvcb", "scanTxt", "syncRead", "syncWrite"}

SyncUnderway == {"scanTxt", "syncRead", "syncWrite"}

(* The Boolean locals that are TRUE: private keys go to the TXT, what      *)
(* unpublish decides with, and the index update's success.                 *)
Flags == {"demote", "existed", "deleted", "cleaned", "indexed"}

(* seen: what read_index returned; sure: the entries sync_index discovered;*)
(* maybe: the flat owners that still need a companion TXT to be entries.   *)
Local == [kind : {"publish", "unpublish", "sync"}, agent : Agents,
          walk : BOOLEAN, flags : SUBSET Flags, seen : SUBSET Entries,
          sure : SUBSET Entries, maybe : SUBSET Entries,
          outcome : {"none", "ok", "failed"}]

Fresh(kind, agent, walk) ==
    [kind |-> kind, agent |-> agent, walk |-> walk, flags |-> {}, seen |-> {},
     sure |-> {}, maybe |-> {}, outcome |-> "none"]

TypeOK ==
    /\ svcb \in [Names -> Primary \cup {None}]
    /\ txt \in [Names -> Companion \cup {None}]
    /\ alias \subseteq Names
    /\ legacy \subseteq Agents \X {"SVCB", "TXT"}
    /\ index \subseteq Entries
    /\ pc \in [Clients -> Steps]
    /\ me \in [Clients -> Local]
    /\ ops \in Nat
    /\ faults \in Nat
    /\ alone \in [Clients -> BOOLEAN]
    /\ touched \in [Clients -> SUBSET Names]
    /\ announced \subseteq Entries
-----------------------------------------------------------------------------
(* What the records of a zone say.                                         *)

(* _protocol_from_primary: the alpn of the primary SVCB, if there is one.  *)
ProtocolOf(s, n) == IF s[n] = None THEN Unknown ELSE s[n].proto

WalkableEntries(s, a) == {<<n, ProtocolOf(s, n)>> : n \in a}

LegacyEntries(l) == {e \in Agents : <<e, "SVCB">> \in l}

Owners(s) == {n \in Names : s[n] # None}

PrimaryEntries(s) == {<<n, ProtocolOf(s, n)>> : n \in Owners(s)}

(* The flat owners that no walkable or legacy record already named.        *)
FlatEntries(s, a, l) ==
    {e \in PrimaryEntries(s) :
        \A f \in WalkableEntries(s, a) \cup LegacyEntries(l) : f[1] # e[1]}

(* Every entry that some record of this zone stands for.                   *)
Shown(s, a, l) ==
    WalkableEntries(s, a) \cup LegacyEntries(l) \cup PrimaryEntries(s)

(* The agents a reader of the whole zone would enumerate: the walkable and *)
(* the draft-01 owners, and every other primary with a companion TXT.      *)
Discoverable ==
    {e \in Shown(svcb, alias, legacy) :
        \/ e[1] \in alias /\ e[2] = ProtocolOf(svcb, e[1])
        \/ <<e, "SVCB">> \in legacy
        \/ /\ svcb[e[1]] # None /\ txt[e[1]] # None
           /\ ~ \E p \in Protocols : <<<<e[1], p>>, "SVCB">> \in legacy}
-----------------------------------------------------------------------------
(* The environment's answers to one backend call.                          *)

Fault(kind) == /\ kind \in FaultKinds
               /\ faults < MaxFaults
               /\ faults' = faults + 1

(* A create call: it works, raises, or raises after it took effect.        *)
Created(ok, applied) ==
    \/ ok /\ applied /\ UNCHANGED faults
    \/ ~ok /\ ~applied /\ Fault("write")
    \/ ~ok /\ applied /\ Fault("lostReply")

(* A delete call: True or False, or an exception.                          *)
Deleted(found, said, applied) ==
    \/ applied /\ said = (IF found THEN "yes" ELSE AbsentAnswer)
       /\ UNCHANGED faults
    \/ ~applied /\ said = "no" /\ found /\ Fault("silentDelete")
    \/ ~applied /\ said = "raise" /\ Fault("write")
    \/ applied /\ said = "raise" /\ Fault("lostReply")

Answers == {"yes", "no", "raise"}

(* A read or list call: it works or raises.                                *)
Reads(ok) == \/ ok /\ UNCHANGED faults
             \/ ~ok /\ Fault("read")

Goto(c, step) == pc' = [pc EXCEPT ![c] = step]

(* Client c sets one of its flags if the condition holds.                  *)
Raise(c, flag, condition) ==
    me' = [me EXCEPT ![c].flags = IF condition THEN @ \cup {flag} ELSE @]

(* The names whose records a step changes.                                 *)
RecordsOf(n) ==
    <<svcb[n], txt[n], alias \cap {n}, {l \in legacy : l[1][1] = n}>>
Changed == {n \in Names : RecordsOf(n)' # RecordsOf(n)}

(* The call took effect for client c: nobody else is alone any more.       *)
Wrote(c) == /\ alone' = [d \in Clients |-> d = c /\ alone[d]]
            /\ touched' = [d \in Clients |-> IF pc[d] \in SyncUnderway
                                             THEN touched[d] \cup Changed ELSE {}]
            /\ announced' = announced \cup Shown(svcb', alias', legacy')

NoWrite == UNCHANGED <<zoneVars, alone, announced>>

(* The operation ends: it returns or raises, and its listings are gone.    *)
Ended(l) == [l EXCEPT !.seen = {}, !.sure = {}, !.maybe = {}]

End(c, outcome) == /\ Goto(c, "idle")
                   /\ me' = [me EXCEPT ![c] = [Ended(@) EXCEPT !.outcome = outcome]]
-----------------------------------------------------------------------------
(* publish() and the zone_exists check of every operation.                 *)

Start(c) ==
    /\ pc[c] = "idle"
    /\ \E kind \in Kinds, agent \in Agents, walk \in BOOLEAN :
         /\ kind = "sync" \/ ops < MaxOps
         /\ kind # "publish" => ~walk
         /\ kind = "sync" => agent = SomeAgent
         /\ ops' = IF kind = "sync" THEN ops ELSE ops + 1
         /\ me' = [me EXCEPT ![c] = Fresh(kind, agent, walk)]
    /\ Goto(c, "zone")
    /\ alone' = [alone EXCEPT ![c] = TRUE]
    /\ UNCHANGED <<zoneVars, faults, touched, announced>>

FirstCall(kind) == CASE kind = "unpublish" -> "probeSvcb"
                     [] kind = "sync" -> "scanSvcb"
                     [] OTHER -> IF NativeKeys = "unknown" THEN "native"
                                                           ELSE "svcb"

ZoneExists(c) ==
    /\ pc[c] = "zone"
    /\ \/ /\ Goto(c, FirstCall(me[c].kind))
          /\ Raise(c, "demote", NativeKeys = "no")
          /\ UNCHANGED faults
       \/ Fault("zone") /\ End(c, "failed")
    /\ NoWrite /\ UNCHANGED <<touched, ops>>

(* A plausible bug: the fallback forgets to demote the private keys.       *)
PutNative_NoDemotion(c) ==
    /\ pc[c] = "native"
    /\ \E ok, applied \in BOOLEAN :
         /\ \/ Created(ok, applied)
            \/ ~ok /\ ~applied /\ UNCHANGED faults
         /\ svcb' = IF applied
                    THEN [svcb EXCEPT ![me[c].agent[1]] =
                             [proto |-> me[c].agent[2], full |-> TRUE]]
                    ELSE svcb
         /\ Goto(c, IF ok THEN "txt" ELSE "svcb")
         /\ UNCHANGED me
    /\ UNCHANGED <<txt, alias, legacy, index, ops>>
    /\ Wrote(c)

(* supports_private_svcb_keys is None: all params first; an exception,     *)
(* from a server that rejects the keys or from a call that took effect     *)
(* and lost its reply, falls back to the standard params.                  *)
PutNative(c) ==
    /\ pc[c] = "native"
    /\ \E ok, applied \in BOOLEAN :
         /\ \/ Created(ok, applied)
            \/ ~ok /\ ~applied /\ UNCHANGED faults
         /\ svcb' = IF applied
                    THEN [svcb EXCEPT ![me[c].agent[1]] =
                             [proto |-> me[c].agent[2], full |-> TRUE]]
                    ELSE svcb
         /\ Goto(c, IF ok THEN "txt" ELSE "svcb")
         /\ Raise(c, "demote", ~ok)
    /\ UNCHANGED <<txt, alias, legacy, index, ops>>
    /\ Wrote(c)

(* A plausible bug: the index is updated although the publish failed.      *)
PutSvcb_IndexAnyway(c) ==
    /\ pc[c] = "svcb"
    /\ \E ok, applied \in BOOLEAN :
         /\ Created(ok, applied)
         /\ svcb' = IF applied
                    THEN [svcb EXCEPT ![me[c].agent[1]] =
                             [proto |-> me[c].agent[2], full |-> NativeKeys = "yes"]]
                    ELSE svcb
         /\ Goto(c, IF ok THEN "txt" ELSE "idxRead") /\ UNCHANGED me
    /\ UNCHANGED <<txt, alias, legacy, index, ops>>
    /\ Wrote(c)

PutSvcb(c) ==
    /\ pc[c] = "svcb"
    /\ \E ok, applied \in BOOLEAN :
         /\ Created(ok, applied)
         /\ svcb' = IF applied
                    THEN [svcb EXCEPT ![me[c].agent[1]] =
                             [proto |-> me[c].agent[2], full |-> NativeKeys = "yes"]]
                    ELSE svcb
         /\ IF ok THEN Goto(c, "txt") /\ UNCHANGED me
                  ELSE End(c, "failed")
    /\ UNCHANGED <<txt, alias, legacy, index, ops>>
    /\ Wrote(c)

Published(c) ==
    /\ Goto(c, "idxRead")
    /\ me' = [me EXCEPT ![c].outcome = "ok"]

(* to_txt_values() is never empty (the version is always there).           *)
PutTxt(c) ==
    /\ pc[c] = "txt"
    /\ \E ok, applied \in BOOLEAN :
         /\ Created(ok, applied)
         /\ txt' = IF applied
                   THEN [txt EXCEPT ![me[c].agent[1]] =
                            [demoted |-> "demote" \in me[c].flags]]
                   ELSE txt
         /\ CASE ~ok -> End(c, "failed")
              [] ok /\ me[c].walk ->
                   Goto(c, "alias") /\ UNCHANGED me
              [] OTHER -> Published(c)
    /\ UNCHANGED <<svcb, alias, legacy, index, ops>>
    /\ Wrote(c)

(* The walkable alias is best effort: its failure is swallowed.            *)
PutAlias(c) ==
    /\ pc[c] = "alias"
    /\ \E ok, applied \in BOOLEAN :
         /\ Created(ok, applied)
         /\ alias' = IF applied THEN alias \cup {me[c].agent[1]} ELSE alias
    /\ Published(c)
    /\ UNCHANGED <<svcb, txt, legacy, index, ops>>
    /\ Wrote(c)
-----------------------------------------------------------------------------
(* unpublish().                                                            *)

(* The pre-delete existence probes: an exception propagates.               *)
Probe(c, step, found, next) ==
    /\ pc[c] = step
    /\ \E ok \in BOOLEAN :
         /\ Reads(ok)
         /\ IF ok THEN /\ Goto(c, next)
                       /\ Raise(c, "existed", found)
                  ELSE End(c, "failed")
    /\ NoWrite /\ UNCHANGED <<touched, ops>>

ProbeSvcb(c) == Probe(c, "probeSvcb", svcb[me[c].agent[1]] # None, "probeTxt")
ProbeTxt(c) == Probe(c, "probeTxt", txt[me[c].agent[1]] # None, "delSvcb")

(* A plausible bug: the primary deletes swallow exceptions, as the cleanup *)
(* deletes do.                                                             *)
DeletedPrimary_Swallow(c, said, next) ==
    /\ Goto(c, next)
    /\ Raise(c, "deleted", said = "yes")

(* The deletes of the primary owner: an exception propagates.              *)
DeletedPrimary(c, said, next) ==
    IF said = "raise"
    THEN End(c, "failed")
    ELSE /\ Goto(c, next)
         /\ Raise(c, "deleted", said = "yes")

DeleteSvcb(c) ==
    /\ pc[c] = "delSvcb"
    /\ \E said \in Answers, applied \in BOOLEAN :
         /\ Deleted(svcb[me[c].agent[1]] # None, said, applied)
         /\ svcb' = IF applied THEN [svcb EXCEPT ![me[c].agent[1]] = None]
                               ELSE svcb
         /\ DeletedPrimary(c, said, "delTxt")
    /\ UNCHANGED <<txt, alias, legacy, index, ops>>
    /\ Wrote(c)

DeleteTxt(c) ==
    /\ pc[c] = "delTxt"
    /\ \E said \in Answers, applied \in BOOLEAN :
         /\ Deleted(txt[me[c].agent[1]] # None, said, applied)
         /\ txt' = IF applied THEN [txt EXCEPT ![me[c].agent[1]] = None]
                              ELSE txt
         /\ DeletedPrimary(c, said, "delAlias")
    /\ UNCHANGED <<svcb, alias, legacy, index, ops>>
    /\ Wrote(c)

(* Cleanup of the walkable alias: an exception counts as not deleted.      *)
DeleteAlias(c) ==
    /\ pc[c] = "delAlias"
    /\ \E said \in Answers, applied \in BOOLEAN :
         /\ Deleted(me[c].agent[1] \in alias, said, applied)
         /\ alias' = IF applied THEN alias \ {me[c].agent[1]} ELSE alias
         /\ Raise(c, "cleaned", said = "yes")
    /\ Goto(c, "delLegacySvcb")
    /\ UNCHANGED <<svcb, txt, legacy, index, ops>>
    /\ Wrote(c)

(* A plausible bug: no masked-failure guard.                               *)
Unpublished_NoGuard(flags) == "deleted" \in flags \/ "cleaned" \in flags

(* primary_masked_failure: the primary existed and no delete of it said    *)
(* True. Otherwise something must have been deleted.                       *)
Unpublished(flags) ==
    /\ ~ ("existed" \in flags /\ "deleted" \notin flags)
    /\ "deleted" \in flags \/ "cleaned" \in flags

Decided(c, flags) ==
    IF Unpublished(flags)
    THEN /\ Goto(c, "idxRead")
         /\ me' = [me EXCEPT ![c].outcome = "ok"]
    ELSE End(c, "failed")

(* One try block: an exception of the SVCB delete skips the TXT delete.    *)
DeleteLegacy(c, step, type) ==
    /\ pc[c] = step
    /\ \E said \in Answers, applied \in BOOLEAN :
         /\ Deleted(<<me[c].agent, type>> \in legacy, said, applied)
         /\ legacy' = IF applied THEN legacy \ {<<me[c].agent, type>>}
                                 ELSE legacy
         /\ CASE said # "raise" /\ type = "SVCB" ->
                   Goto(c, "delLegacyTxt") /\ Raise(c, "cleaned", said = "yes")
              [] said = "yes" /\ type = "TXT" ->
                   Decided(c, me[c].flags \cup {"cleaned"})
              [] OTHER -> Decided(c, me[c].flags)
    /\ UNCHANGED <<svcb, txt, alias, index, ops>>
    /\ Wrote(c)

DeleteLegacySvcb(c) == DeleteLegacy(c, "delLegacySvcb", "SVCB")
DeleteLegacyTxt(c) == DeleteLegacy(c, "delLegacyTxt", "TXT")
-----------------------------------------------------------------------------
(* update_index(), run after a publish or an unpublish succeeded.          *)

(* read_index: an exception reads as an empty index.                       *)
ReadIndex(c, step, next) ==
    /\ pc[c] = step
    /\ \E ok \in BOOLEAN :
         /\ Reads(ok)
         /\ me' = [me EXCEPT ![c].seen = IF ok THEN index ELSE {}]
    /\ Goto(c, next)
    /\ NoWrite /\ UNCHANGED <<touched, ops>>

IndexRead(c) == ReadIndex(c, "idxRead", "idxWrite")

(* Plausible bugs: the index is overwritten, not read-modified; the entry  *)
(* loses its protocol.                                                     *)
Edited_Overwrite(l) == IF l.kind = "publish" THEN {l.agent}
                                             ELSE l.seen \ {l.agent}

Edited_BareName(l) == IF l.kind = "publish" THEN l.seen \cup {l.agent[1]}
                                            ELSE l.seen \ {l.agent}

Edited(l) == IF l.kind = "publish" THEN l.seen \cup {l.agent}
                                   ELSE l.seen \ {l.agent}

IndexWrite(c) ==
    /\ pc[c] = "idxWrite"
    /\ \E ok, applied \in BOOLEAN :
         /\ \/ Created(ok, applied)
            \/ ~ok /\ ~applied /\ Fault("zone")
         /\ index' = IF applied THEN Edited(me[c]) ELSE index
         /\ me' = [me EXCEPT ![c] = [Ended(@) EXCEPT !.flags =
                      me[c].flags \cup (IF ok THEN {"indexed"} ELSE {})]]
    /\ Goto(c, "idle")
    /\ UNCHANGED <<svcb, txt, alias, legacy, ops>>
    /\ Wrote(c)
-----------------------------------------------------------------------------
(* sync_index(): an SVCB listing, a TXT listing, read_index, one write.    *)

ScanSvcb(c) ==
    /\ pc[c] = "scanSvcb"
    /\ \E ok \in BOOLEAN :
         /\ Reads(ok)
         /\ IF ok
            THEN /\ Goto(c, "scanTxt")
                 /\ me' = [me EXCEPT
                      ![c].sure = WalkableEntries(svcb, alias)
                                      \cup LegacyEntries(legacy),
                      ![c].maybe = FlatEntries(svcb, alias, legacy)]
            ELSE End(c, "failed")
    /\ touched' = [touched EXCEPT ![c] = {}]
    /\ NoWrite /\ UNCHANGED ops

(* A plausible bug: every SVCB owner is indexed, companion TXT or not.     *)
ScanTxt_NoCompanion(c) ==
    /\ pc[c] = "scanTxt"
    /\ \E ok \in BOOLEAN :
         /\ Reads(ok)
         /\ IF ok
            THEN /\ Goto(c, "syncRead")
                 /\ me' = [me EXCEPT ![c].maybe = {},
                                     ![c].sure = @ \cup me[c].maybe]
            ELSE End(c, "failed")
    /\ NoWrite /\ UNCHANGED <<touched, ops>>

ScanTxt(c) ==
    /\ pc[c] = "scanTxt"
    /\ \E ok \in BOOLEAN :
         /\ Reads(ok)
         /\ IF ok
            THEN /\ Goto(c, "syncRead")
                 /\ me' = [me EXCEPT
                      ![c].sure = @ \cup {e \in me[c].maybe : txt[e[1]] # None},
                      ![c].maybe = {}]
            ELSE End(c, "failed")
    /\ NoWrite /\ UNCHANGED <<touched, ops>>

SyncRead(c) == ReadIndex(c, "syncRead", "syncWrite")

(* A plausible bug: a sync only adds entries, it never removes stale ones. *)
SyncWrite_OnlyAdds(c) ==
    /\ pc[c] = "syncWrite"
    /\ IF me[c].sure \cup me[c].seen = {}
       THEN End(c, "ok") /\ UNCHANGED <<index, faults, alone, announced>>
       ELSE /\ \E ok, applied \in BOOLEAN :
                 /\ Created(ok, applied)
                 /\ index' = IF applied THEN me[c].sure \cup me[c].seen
                                        ELSE index
                 /\ End(c, IF ok THEN "ok" ELSE "failed")
            /\ alone' = [d \in Clients |-> d = c /\ alone[d]]
            /\ UNCHANGED announced
    /\ touched' = [touched EXCEPT ![c] = {}]
    /\ UNCHANGED <<svcb, txt, alias, legacy, ops>>

(* Nothing discovered and nothing read: nothing is written, and the sync   *)
(* reports success.                                                        *)
SyncWrite(c) ==
    /\ pc[c] = "syncWrite"
    /\ IF me[c].sure \cup me[c].seen = {}
       THEN End(c, "ok") /\ UNCHANGED <<index, faults, alone, announced>>
       ELSE /\ \E ok, applied \in BOOLEAN :
                 /\ Created(ok, applied)
                 /\ index' = IF applied THEN me[c].sure ELSE index
                 /\ End(c, IF ok THEN "ok" ELSE "failed")
            /\ alone' = [d \in Clients |-> d = c /\ alone[d]]
            /\ UNCHANGED announced
    /\ touched' = [touched EXCEPT ![c] = {}]
    /\ UNCHANGED <<svcb, txt, alias, legacy, ops>>

(* The process stops between two calls.                                    *)
Stop(c) ==
    /\ pc[c] # "idle"
    /\ Fault("crash")
    /\ End(c, "none")
    /\ NoWrite /\ UNCHANGED <<touched, ops>>
-----------------------------------------------------------------------------
PublishStep(c) == PutNative(c) \/ PutSvcb(c) \/ PutTxt(c) \/ PutAlias(c)

UnpublishStep(c) ==
    \/ ProbeSvcb(c) \/ ProbeTxt(c) \/ DeleteSvcb(c) \/ DeleteTxt(c)
    \/ DeleteAlias(c) \/ DeleteLegacySvcb(c) \/ DeleteLegacyTxt(c)

IndexStep(c) ==
    \/ IndexRead(c) \/ IndexWrite(c)
    \/ ScanSvcb(c) \/ ScanTxt(c) \/ SyncRead(c) \/ SyncWrite(c)

Step(c) == ZoneExists(c) \/ PublishStep(c) \/ UnpublishStep(c) \/ IndexStep(c)

Init ==
    /\ svcb = [n \in Names |-> None]
    /\ txt = [n \in Names |-> None]
    /\ alias = {}
    /\ legacy = LegacyZone \X {"SVCB", "TXT"}
    /\ index = {}
    /\ pc = [c \in Clients |-> "idle"]
    /\ me = [c \in Clients |-> Fresh("sync", SomeAgent, FALSE)]
    /\ ops = 0
    /\ faults = 0
    /\ alone = [c \in Clients |-> FALSE]
    /\ touched = [c \in Clients |-> {}]
    /\ announced = LegacyZone

Next == \E c \in Clients : Start(c) \/ Step(c) \/ Stop(c)

Spec == Init /\ [][Next]_vars

(* Backend calls return (every client sets a timeout), so a started        *)
(* operation goes on; starting one is an operator's choice, except that a  *)
(* periodic sync is one that is run again and again.                       *)
FairSpec == /\ Spec
            /\ \A c \in Clients : WF_vars(Step(c))
            /\ \A c \in Clients : WF_vars(Start(c) /\ me'[c].kind = "sync")
-----------------------------------------------------------------------------
(* Properties.                                                             *)

(* An operation that reported success with no other writer beside it.      *)
Succeeded(c, kind) == me[c].kind = kind /\ me[c].outcome = "ok" /\ alone[c]

(* A publish that reports success left the whole agent in the zone: its    *)
(* protocol, a companion TXT, and every private key either in the SVCB or  *)
(* demoted into the TXT ("without data loss", publish_agent).              *)
PublishIsComplete ==
    \A c \in Clients : Succeeded(c, "publish") =>
        LET n == me[c].agent[1] IN
        /\ svcb[n] # None /\ txt[n] # None
        /\ svcb[n].proto = me[c].agent[2]
        /\ svcb[n].full \/ txt[n].demoted
        /\ "indexed" \in me[c].flags => me[c].agent \in index

(* An unpublish that reports success left no primary SVCB at the owner:    *)
(* the masked-failure guard exists so that a still-live agent is not       *)
(* reported gone and de-indexed.                                           *)
UnpublishIsGone ==
    \A c \in Clients : Succeeded(c, "unpublish") => svcb[me[c].agent[1]] = None

(* What the guard does ensure when a delete may answer False without       *)
(* deleting: the SVCB and its companion TXT are never both still there.    *)
UnpublishTookSomething ==
    \A c \in Clients : Succeeded(c, "unpublish") =>
        LET n == me[c].agent[1] IN svcb[n] = None \/ txt[n] = None

(* A sync that reports success ("updates the index to match what's         *)
(* actually published", core/indexer.py:374) leaves the index equal to     *)
(* what the zone enumerates, for every name whose records did not change   *)
(* since its first listing: beside it others publish and remove agents     *)
(* between the two listings, and write the index before and after its own  *)
(* read, which may fail. Only where that read brought nothing and none of  *)
(* these names is listed does it report success and leave the index.       *)
EntriesOf(entries, n) == {e \in entries : e[1] = n}
Untouched(c) == Names \ touched[c]
SyncReports(c) == pc[c] = "syncWrite" /\ pc'[c] = "idle" /\ me'[c].outcome = "ok"
NothingSeen(c) ==
    me[c].seen = {} /\ \A n \in Untouched(c) : EntriesOf(Discoverable, n) = {}

SyncIsExact ==
    [][\A c \in Clients : SyncReports(c) =>
         \/ \A n \in Untouched(c) : EntriesOf(index', n) = EntriesOf(Discoverable, n)
         \/ NothingSeen(c) /\ index' = index]_vars

(* Whatever the interleaving, lost update or fault, the index never names  *)
(* an agent that no record of the zone ever stood for: to an observer, the *)
(* whole machinery is a directory that lists only what was announced.      *)
IndexWasAnnounced == index \subseteq announced

(* The inductive strengthening: everything a client still carries towards  *)
(* the index (what it read, what it discovered, the agent whose SVCB it    *)
(* has written) was announced, and the zone's records are.                 *)
UnpublishCalls == {"probeSvcb", "probeTxt", "delSvcb", "delTxt", "delAlias",
                   "delLegacySvcb", "delLegacyTxt"}

Lineage ==
    /\ TypeOK
    /\ Shown(svcb, alias, legacy) \subseteq announced
    /\ IndexWasAnnounced
    /\ \A c \in Clients :
         /\ me[c].seen \cup me[c].sure \cup me[c].maybe \subseteq announced
         /\ pc[c] \in UnpublishCalls => me[c].kind = "unpublish"
         /\ \/ pc[c] \in {"txt", "alias"}
            \/ pc[c] \in {"idxRead", "idxWrite"} /\ me[c].kind = "publish"
            => me[c].agent \in announced

Directory == INSTANCE AgentDirectory WITH listed <- index

ListsOnlyAnnounced == Directory!Spec

(* An index update touches only its own entry; only a sync may drop others *)
(* (it holds for one operator at a time).                                  *)
NoCollateralLoss ==
    [][\A e \in index \ index' : \E c \in Clients :
          \/ pc[c] = "syncWrite"
          \/ pc[c] = "idxWrite" /\ me[c].kind = "unpublish" /\ me[c].agent = e]_vars

(* After the last publish or unpublish and the last fault, repeated syncs  *)
(* bring the index back to what the zone enumerates, and keep it there.    *)
SyncHeals == <>[](index = Discoverable)
=============================================================================
