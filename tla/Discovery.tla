------------------------------ MODULE Discovery ------------------------------
(***************************************************************************)
(* One call of discover() (core/discoverer.py): where the names to ask for *)
(* come from (the DNS index, ten common names, or an HTTP catalog), the    *)
(* queries that run side by side, the merge of their answers, and the gates*)
(* the merged agents pass: DNSSEC, endpoint cards, JWS signatures, DANE and*)
(* the caller's filters.                                                   *)
(*                                                                         *)
(* The queries are asyncio tasks; an action runs from one suspension of a  *)
(* task to the next. Meanwhile the operator of the domain publishes,       *)
(* replaces and unpublishes records and rewrites the index. Slots of the   *)
(* semaphores are not kept: they delay tasks and nothing else.             *)
(***************************************************************************)
EXTENDS Naturals, Sequences, FiniteSets, SequencesExt, Selection

CONSTANTS
    Name,       \* labels of agents under the domain
    Common,     \* the labels tried when the domain has no index, in order
    Elsewhere,  \* other owners that an alias may lead to
    Endpoints,  \* where agents answer
    Scenes,     \* what is published when the call begins
    Requests,   \* the arguments of the call
    Capacity,   \* index entries that fit in one string of a TXT record
    Republished,\* the records the operator may put in place of another
    MaxChanges, \* bound: changes the operator makes during the call
    MaxFaults,  \* bound: requests of the call that go unanswered
    None

Protocols == {"mcp", "a2a"}
Unknown == "unknown"                 \* an index entry's protocol, if not known
LegacyOwner == Name \X Protocols     \* _name._protocol._agents
Owner == Name \cup LegacyOwner \cup Elsewhere

Verdicts == {"yes", "no", "unknown"}
Statuses == {"not_signed", "invalid", "unbound", "endpoint_only", "verified",
             "no_key", "not_checked"}
Places == {"on", "off", "wellknown"}   \* of an HTTP catalog

(* The SVCB records that are published somewhere, some time.               *)
Records ==
    Republished \cup UNION {{scene.zone[o] : o \in Owner} : scene \in Scenes}

IsRecord(r) ==
    /\ r.speaks \in Protocols \cup {None} /\ r.alias \in Owner \cup {None}
    /\ r.locator \in {"cap_uri", "well_known", None} /\ r.endpoint \in Endpoints

(* An entry of an HTTP catalog; one in the ARD format names its protocol.  *)
IsEntry(e) ==
    /\ e # None /\ e.name \in Name /\ e.protocol \in Protocols \cup {None}
    /\ e.format = "legacy" \/ (e.format = "ard" /\ e.protocol # None)
    /\ e.endpoint \in Endpoints /\ e.card \in Endpoints \cup {None}

IsWorld(w) ==
    /\ w.tlsa \in [Endpoints -> Verdicts] /\ IsFiniteSet(w.skills)
    /\ \A place \in Places :
          LET entries == w.catalog[place]
          IN  /\ entries \in Seq({entries[k] : k \in DOMAIN entries})
              /\ \A k \in DOMAIN entries : IsEntry(entries[k])

IsScene(scene) ==
    /\ scene.zone \in [Owner -> Records \cup {None}]
    /\ scene.index \in Seq(Name \X (Protocols \cup {Unknown}))
    /\ IsWorld(scene.world)

Arguments ==
    [http : BOOLEAN, name : Name \cup {None}, protocol : Protocols \cup {None},
     legacy : BOOLEAN, trustPointers : BOOLEAN, verify : BOOLEAN,
     requireDnssec : BOOLEAN, minDnssec : BOOLEAN, dane : BOOLEAN,
     requireSigned : BOOLEAN, requireParams : BOOLEAN]

ASSUME DiscoveryAssumption ==
    /\ Common \in Seq(Name) /\ Requests \subseteq Arguments
    /\ Name \cap (LegacyOwner \cup Elsewhere) = {}
    /\ None \notin Statuses \cup Places \cup Owner
    /\ Capacity \in Nat \ {0} /\ MaxChanges \in Nat /\ MaxFaults \in Nat

ASSUME ScenesAssumption ==
    /\ \A scene \in Scenes : IsScene(scene)
    /\ \A r \in Records \ {None} : IsRecord(r)

VARIABLES
    zone,      \* the SVCB record of each owner, or None
    index,     \* the entries of the index, in the order of its text
    world,     \* the rest of the scene: hosts, texts, certificates, catalog
    request,   \* the arguments
    phase,     \* the await the call stands at
    tasks,     \* the queries of asyncio.gather, in its order
    agents,    \* the agents they brought
    pending,   \* agents whose signature, or certificate, is being checked
    served,    \* which of its places the HTTP catalog came from
    trust,     \* catalog_trust
    disturbed, \* names that a change or a fault has touched
    changes, faults

locals == <<phase, tasks, agents, pending, served, trust>>
vars == <<zone, index, world, request, locals, disturbed, changes, faults>>

Stages == {"resolve", "legacy", "alias", "describe", "text", "card"}
Phases == {"start", "listing", "asking", "dnssec", "cards", "signatures",
           "dane", "filters", "done", "refused"}

(* discover: require_signed asks for verification.                         *)
Effective(r) == [r EXCEPT !.verify = @ \/ r.requireSigned]

TypeOK ==
    /\ zone \in [Owner -> Records \cup {None}]
    /\ index \in Seq(Name \X (Protocols \cup {Unknown}))
    /\ request \in {Effective(r) : r \in Requests} /\ phase \in Phases
    /\ \A i \in DOMAIN tasks :
          /\ tasks[i].at \in Stages \cup {"done"}
          /\ tasks[i].at \in {"describe", "text"} <=> tasks[i].rec # None
          /\ tasks[i].at \in Stages => phase = "asking"
    /\ \A i \in DOMAIN agents :
          /\ agents[i].name \in Name /\ agents[i].protocol \in Protocols
          /\ agents[i].source \in {"dns", "catalog"}
          /\ agents[i].dnssec \in BOOLEAN /\ agents[i].covers \in BOOLEAN
          /\ agents[i].verified \in Verdicts /\ agents[i].dane \in Verdicts
    /\ pending \subseteq DOMAIN agents
    /\ pending # {} => phase \in {"signatures", "dane"}
    /\ phase = "dane" => \A i \in pending : agents[i].dnssec
    /\ served \in Places \cup {None}
    /\ trust \in {None, "tls_domain", "dnssec", "jws"}
    /\ disturbed \subseteq Name
    /\ changes \in 0..MaxChanges /\ faults \in 0..MaxFaults

(* k requests of the call go unanswered.                                   *)
Lost(k) == faults + k <= MaxFaults /\ faults' = faults + k

(* One request goes unanswered, and what is found of n may suffer.         *)
LostFor(n) == Lost(1) /\ disturbed' = disturbed \cup {n}

Undisturbed == UNCHANGED <<faults, disturbed>>
-----------------------------------------------------------------------------
(* Agents. What a record refers to is part of the world: world.document[e] *)
(* and world.skills hold what the host of endpoint e serves, world.text the*)
(* owners with a TXT record of capabilities. A signature says what it was  *)
(* made of and by whom; by "nothing" it is the empty text.                 *)

NewAgent(n, protocol, source, rec) ==
    [name |-> n, protocol |-> protocol, source |-> source,
     endpoint |-> rec.endpoint, params |-> rec.params, sig |-> rec.sig,
     caps |-> None, from |-> "none", pin |-> rec.pin, pinned |-> FALSE,
     card |-> FALSE, override |-> FALSE, trust |-> None, dnssec |-> FALSE,
     verified |-> "unknown", status |-> None, covers |-> FALSE,
     dane |-> "unknown"]

(* What a query brings that finds no agent.                                *)
Nobody == [name |-> None]

(* A plausible bug: the protocol asked for, whatever the record says.      *)
Reconcile_Probe(probe, rec) == probe

(* _reconcile_protocol: what the record's bap or alpn names, or the probe. *)
Reconcile(probe, rec) == IF rec.speaks = None THEN probe ELSE rec.speaks

(* _http_agent_to_record.                                                  *)
FromEntry(e, protocol) ==
    [NewAgent(e.name, protocol, "catalog", e) EXCEPT
        !.caps = e.caps, !.from = IF e.caps = None THEN "none" ELSE "catalog",
        !.override = e.format = "legacy"]

(* _enrich_from_http_index: the entry fills in what DNS left empty.        *)
Enriched(a, e) ==
    [a EXCEPT !.override = TRUE,
              !.caps = IF @ = None THEN e.caps ELSE @,
              !.from = IF a.caps = None /\ e.caps # None THEN "http_index" ELSE @]

Task(n, probes, entry) ==
    [name |-> n, probes |-> probes, entry |-> entry, at |-> "resolve",
     owner |-> n, rec |-> None, agent |-> Nobody]

Answered(n, entry, agent) ==
    [Task(n, <<>>, entry) EXCEPT !.at = "done", !.agent = agent]

(* The protocols a catalog's entry is asked for under.                     *)
Probes(e) ==
    IF e.protocol # None THEN <<e.protocol>>
    ELSE IF request.protocol # None THEN <<request.protocol>>
    ELSE <<"mcp", "a2a">>

(* A query brings its agent, or nobody. For a catalog's entry that leads to*)
(* its next protocol, and after the last to what the catalog says.         *)
Settled(t, agent) ==
    IF t.entry = None THEN Answered(t.name, None, agent)
    ELSE IF agent # Nobody
         THEN Answered(t.name, t.entry, Enriched(agent, t.entry))
    ELSE IF Len(t.probes) > 1 THEN Task(t.name, Tail(t.probes), t.entry)
    ELSE Answered(t.name, t.entry, FromEntry(t.entry, Probes(t.entry)[1]))

Step(i, t) == tasks' = [tasks EXCEPT ![i] = t]
-----------------------------------------------------------------------------
(* Where the names come from.                                              *)

Begins(ts) ==
    /\ phase' = "asking"
    /\ tasks' = ts
    /\ UNCHANGED <<agents, pending>>

Asking(n, probe) == Task(n, <<probe>>, None)

(* discover with a name and a protocol.                                    *)
AskForOne ==
    /\ phase = "start"
    /\ ~request.http /\ request.name # None /\ request.protocol # None
    /\ Begins(<<Asking(request.name, request.protocol)>>)
    /\ Undisturbed
    /\ UNCHANGED <<zone, index, world, request, served, trust, changes>>

(* _build_index_tasks: an entry of another protocol, or of one that the    *)
(* code does not know, is not asked for.                                   *)
IndexTasks(entries) ==
    LET asked == Pick(entries, {k \in DOMAIN entries :
                    /\ entries[k][2] \in Protocols
                    /\ request.protocol \in {None, entries[k][2]}})
    IN  [i \in DOMAIN asked |-> Asking(asked[i][1], asked[i][2])]

(* Without an index: the common names, under each protocol.                *)
CommonTasks ==
    LET under(p) == [i \in DOMAIN Common |-> Asking(Common[i], p)]
    IN  IF request.protocol = None THEN under("mcp") \o under("a2a")
        ELSE under(request.protocol)

(* read_index_via_dns: entries are taken from the first string of the TXT  *)
(* record that has any.                                                    *)
FirstString(entries) ==
    SubSeq(entries, 1, IF Len(entries) < Capacity THEN Len(entries) ELSE Capacity)

(* _discover_agents_in_zone up to its gather. An index that cannot be read *)
(* is no index.                                                            *)
ReadIndex ==
    /\ phase = "start"
    /\ ~request.http /\ None \in {request.name, request.protocol}
    /\ \/ /\ Begins(IF index = <<>> THEN CommonTasks
                    ELSE IndexTasks(FirstString(index)))
          /\ Undisturbed
       \/ /\ Begins(CommonTasks)
          /\ Lost(1) /\ disturbed' = Name
    /\ UNCHANGED <<zone, index, world, request, served, trust, changes>>

(* resolve_catalog_pointer_detail: the first usable record under the two   *)
(* labels, of the first four; a label that cannot be read has none.        *)
PointerThrough(labels) ==
    LET records == FlattenSeq([l \in 1..2 |->
                       IF l \in labels THEN world.catalog.labels[l] ELSE <<>>])
        usable == {k \in DOMAIN records : k <= 4 /\ records[k] \in {"on", "off"}}
    IN  IF usable = {} THEN None
        ELSE records[CHOOSE k \in usable : \A j \in usable : k <= j]

Pointer == PointerThrough({1, 2})

Follows(place, why) == served' = place /\ trust' = why

(* _discover_via_http_index: whether the catalog pointer is followed, and  *)
(* what then vouches for the catalog. A pointer that leads off the domain  *)
(* needs DNSSEC, if the caller trusts it, or signatures on the agents.     *)
FollowPointer ==
    /\ phase = "start" /\ request.http
    /\ phase' = "listing"
    /\ \E labels \in SUBSET {1, 2} :
          LET leads == PointerThrough(labels)
              lost == 2 - Cardinality(labels)
              validates == request.trustPointers /\ world.catalog.signed
          IN  \/ /\ leads = None \/ (leads = "off" /\ ~validates /\ ~request.verify)
                 /\ Follows("wellknown", "tls_domain") /\ Lost(lost)
              \/ leads = "on" /\ Follows("on", "tls_domain") /\ Lost(lost)
              \/ /\ leads = "off" /\ validates
                 /\ Follows("off", "dnssec") /\ Lost(lost)
              \/ /\ leads = "off" /\ request.verify
                 /\ Follows("off", "jws")
                 /\ Lost(IF validates THEN lost + 1 ELSE lost)
              \/ /\ leads = "off" /\ validates /\ ~request.verify
                 /\ Follows("wellknown", "tls_domain") /\ Lost(lost + 1)
    /\ UNCHANGED <<zone, index, world, request, tasks, agents, pending>>
    /\ UNCHANGED <<disturbed, changes>>

(* _process_http_agent and _process_ard_agent up to their first await.     *)
EntryTask(e) ==
    LET bars == \/ request.name \notin {None, e.name}
                \/ e.protocol # None /\ request.protocol \notin {None, e.protocol}
        own == FromEntry(e, e.protocol)
    IN  IF bars THEN Answered(e.name, e, Nobody)
        ELSE IF e.format = "legacy" THEN Task(e.name, Probes(e), e)
        ELSE IF e.card = None THEN Answered(e.name, e, own)
        ELSE [Task(e.name, <<>>, e) EXCEPT !.at = "card", !.agent = own]

(* _fetch_index_cascade: the pointer's catalog if it lists agents, else    *)
(* what the domain serves itself, for which TLS vouches.                   *)
FetchCatalog ==
    LET from(place) == [i \in DOMAIN world.catalog[place] |->
                            EntryTask(world.catalog[place][i])]
        pointed == served \in {"on", "off"}
    IN  /\ phase = "listing"
        /\ \/ /\ pointed /\ from(served) # <<>>
              /\ Begins(from(served))
              /\ Undisturbed /\ UNCHANGED <<served, trust>>
           \/ /\ Begins(from("wellknown"))
              /\ served' = "wellknown" /\ trust' = "tls_domain"
              /\ IF pointed /\ from(served) # <<>>
                 THEN Lost(1) /\ disturbed' = Name ELSE Undisturbed
           \/ /\ Begins(<<>>)
              /\ served' = None /\ UNCHANGED trust
              /\ Lost(IF pointed THEN 2 ELSE 1) /\ disturbed' = Name
        /\ UNCHANGED <<zone, index, world, request, changes>>
-----------------------------------------------------------------------------
(* One query: _query_single_agent.                                         *)

Asked(i, stage) ==
    /\ phase = "asking" /\ tasks[i].at = stage
    /\ UNCHANGED <<zone, index, world, request, changes>>
    /\ UNCHANGED <<phase, agents, pending, served, trust>>

(* What follows a look-up that found r: a record, an alias or nothing.     *)
Read(t, r) ==
    IF r = None THEN Settled(t, Nobody)
    ELSE IF r.alias # None THEN [t EXCEPT !.at = "alias", !.agent = r.alias]
    ELSE [t EXCEPT !.at = IF r.locator = None THEN "text" ELSE "describe",
                   !.rec = r,
                   !.agent = NewAgent(t.name, Reconcile(Head(t.probes), r), "dns", r)]

(* The look-up of the agent's own name, under which an agent of the first  *)
(* draft is not found. The queries for a catalog's entries do not pass on  *)
(* the caller's leave to look on.                                          *)
Resolve(i) ==
    LET t == tasks[i]
        r == zone[t.name]
    IN  /\ Asked(i, "resolve")
        /\ \/ /\ Step(i, IF r = None /\ request.legacy /\ t.entry = None
                         THEN [t EXCEPT !.at = "legacy"] ELSE Read(t, r))
              /\ Undisturbed
           \/ Step(i, Settled(t, Nobody)) /\ LostFor(t.name)

ResolveLegacy(i) ==
    LET t == tasks[i]
    IN  /\ Asked(i, "legacy")
        /\ \/ /\ LET o == <<t.name, Head(t.probes)>>
                 IN  Step(i, Read([t EXCEPT !.owner = o], zone[o]))
              /\ Undisturbed
           \/ Step(i, Settled(t, Nobody)) /\ LostFor(t.name)

(* A plausible bug: an alias of an alias is followed like the first.       *)
Behind_AllTheWay(r) == r

(* An alias is followed once.                                              *)
Behind(r) == IF r # None /\ r.alias # None THEN None ELSE r

FollowAlias(i) ==
    LET t == tasks[i]
    IN  /\ Asked(i, "alias")
        /\ \/ /\ Step(i, Read([t EXCEPT !.agent = Nobody], Behind(zone[t.agent])))
              /\ Undisturbed
           \/ Step(i, Settled(t, Nobody)) /\ LostFor(t.name)

(* The descriptor at the record's cap or well-known locator. One that is   *)
(* not the document the record pins refuses the record.                    *)
Describe(i) ==
    LET t == tasks[i]
        doc == world.document[t.rec.endpoint]
        ToText(from) == [t EXCEPT !.at = "text", !.agent.from = from]
        Describes(caps, from, pinned) ==
            Settled(t, [t.agent EXCEPT !.caps = caps, !.from = from,
                                       !.pinned = pinned, !.card = doc.skills])
    IN  /\ Asked(i, "describe")
        /\ \/ /\ doc # None
              /\ Step(i, IF t.rec.pin \notin {None, doc.id} THEN Settled(t, Nobody)
                         ELSE IF doc.lists
                         THEN Describes(doc.id, t.rec.locator, t.rec.pin # None)
                         ELSE IF doc.skills
                         THEN Describes("skills", "agent_card", FALSE)
                         ELSE ToText("none"))
              /\ Undisturbed
           \/ /\ Step(i, ToText("descriptor_unreachable"))
              /\ IF doc = None THEN Undisturbed ELSE LostFor(t.name)

(* _query_capabilities, for an agent without any so far, at the owner that *)
(* answered; the one an alias leads to is not asked.                       *)
ReadText(i) ==
    LET t == tasks[i]
    IN  /\ Asked(i, "text")
        /\ \/ /\ t.owner \in world.text
              /\ Step(i, Settled(t, [t.agent EXCEPT !.caps = "text",
                                                    !.from = "txt_fallback"]))
              /\ Undisturbed
           \/ /\ Step(i, Settled(t, t.agent))
              /\ IF t.owner \in world.text THEN Lost(1) /\ UNCHANGED disturbed
                 ELSE Undisturbed

(* _apply_ard_card: the card behind a catalog's entry, inline or fetched,  *)
(* names the endpoint. A card that cannot be had leaves the entry as it is.*)
ReadArdCard(i) ==
    LET t == tasks[i]
    IN  /\ Asked(i, "card")
        /\ \/ /\ Step(i, Answered(t.name, t.entry,
                     [t.agent EXCEPT !.endpoint = t.entry.card, !.override = TRUE,
                                     !.caps = "skills", !.from = "agent_card"]))
              /\ Undisturbed
           \/ /\ Step(i, Answered(t.name, t.entry, t.agent))
              /\ Lost(1) /\ UNCHANGED disturbed
-----------------------------------------------------------------------------
(* The merge, and the gates of _apply_post_discovery.                      *)

(* _collect_agent_results: failed queries are left out, and of the agents  *)
(* with one name and protocol the first is kept.                           *)
Collect(found) ==
    LET same(a, b) == a.name = b.name /\ a.protocol = b.protocol
    IN  Pick(found, {i \in DOMAIN found :
                        /\ found[i] # Nobody
                        /\ \A j \in 1..(i - 1) : ~same(found[j], found[i])})

Named(found) ==
    IF request.name = None \/ request.http \/ request.protocol # None THEN found
    ELSE Pick(found, {i \in DOMAIN found : found[i].name = request.name})

Gather ==
    LET found == Collect([i \in DOMAIN tasks |-> tasks[i].agent])
    IN  /\ phase = "asking" /\ \A i \in DOMAIN tasks : tasks[i].at = "done"
        /\ phase' = "dnssec"
        /\ agents' = Named([i \in DOMAIN found |-> [found[i] EXCEPT
                                !.trust = IF request.http THEN trust ELSE None]])
        /\ tasks' = <<>>
        /\ Undisturbed
        /\ UNCHANGED <<zone, index, world, request, pending, served, trust, changes>>

InScope == {i \in DOMAIN agents : agents[i].source = "dns"}

(* _dnssec_check_runs.                                                     *)
DnssecCheckRuns ==
    request.requireDnssec \/ request.minDnssec \/ request.dane \/ request.verify

(* _check_dnssec_with_evidence: the AD flag of one more query, which asks  *)
(* for the agent's own name, whatever owner it was found under. The answer *)
(* is the SVCB record there, the TXT record if there is none, or no answer.*)
Validates(i, lost) ==
    /\ world.secure /\ i \notin lost
    /\ zone[agents[i].name] # None \/ agents[i].name \in world.text

(* The DNSSEC checks, gathered. The verdicts are kept by name, so of two   *)
(* agents with one name the later one's counts for require_dnssec.         *)
CheckDnssec ==
    LET fails(lost) == {i \in InScope : ~Validates(i, lost)}
        last == {i \in InScope : \A j \in InScope :
                    agents[j].name = agents[i].name => j <= i}
    IN  /\ phase = "dnssec"
        /\ IF InScope # {} /\ DnssecCheckRuns
           THEN \E lost \in SUBSET InScope :
                  /\ world.secure \/ lost = {}
                  /\ Lost(Cardinality(lost))
                  /\ agents' = [i \in DOMAIN agents |->
                         [agents[i] EXCEPT !.dnssec = i \in InScope \ fails(lost)]]
                  /\ phase' = IF request.requireDnssec /\ last \cap fails(lost) # {}
                              THEN "refused" ELSE "cards"
           ELSE phase' = "cards" /\ UNCHANGED <<agents, faults>>
        /\ UNCHANGED <<zone, index, world, request, tasks, pending, served,
                       trust, disturbed, changes>>

(* _apply_agent_card: the skills of a card, unless a descriptor said more. *)
ApplyCard(a) ==
    IF a.from \in {"cap_uri", "well_known"} THEN a
    ELSE [a EXCEPT !.caps = "skills", !.from = "agent_card"]

(* The signature is not an empty text.                                     *)
Signs(a) == a.sig # None /\ a.sig.by # "nothing"

(* _verify_agent_signatures before its tasks.                              *)
Unsigned(a) == IF a.sig = None THEN [a EXCEPT !.status = "not_signed"] ELSE a

(* _enrich_agents_with_endpoint_paths: the agent's own card, or the one its*)
(* host serves; then the signature tasks start.                            *)
EnrichCards ==
    LET served_by(lost) == world.skills \ lost
        enrich(a, lost) == IF ~a.override /\ (a.card \/ a.endpoint \in served_by(lost))
                           THEN ApplyCard(a) ELSE a
    IN  /\ phase = "cards"
        /\ \E lost \in SUBSET world.skills :
              /\ Lost(Cardinality(lost))
              /\ agents' = [i \in DOMAIN agents |->
                     LET a == enrich(agents[i], lost)
                     IN  IF request.verify THEN Unsigned(a) ELSE a]
        /\ pending' = IF request.verify
                      THEN {i \in DOMAIN agents : Signs(agents[i])} ELSE {}
        /\ phase' = "signatures"
        /\ UNCHANGED <<zone, index, world, request, tasks, served, trust,
                       disturbed, changes>>

(* What _verify_one writes once verify_record_signature_detailed answers.  *)
Verdict(a, verified, status, covers) ==
    [a EXCEPT !.verified = verified, !.status = status, !.covers = covers]

(* The payload describes the agent.                                        *)
Binds(s, a) ==
    s.name = a.name /\ s.endpoint = a.endpoint /\ s.speaks = a.protocol

Judged(a) ==
    LET s == a.sig
    IN  IF s.by # "zone" THEN Verdict(a, "no", "invalid", FALSE)
        ELSE IF ~Binds(s, a) THEN Verdict(a, "no", "unbound", FALSE)
        ELSE IF s.params = None THEN Verdict(a, "yes", "endpoint_only", FALSE)
        ELSE IF s.params = a.params THEN Verdict(a, "yes", "verified", TRUE)
        ELSE Verdict(a, "no", "unbound", FALSE)

Checked(i, a) ==
    /\ agents' = [agents EXCEPT ![i] = a]
    /\ pending' = pending \ {i}
    /\ UNCHANGED <<zone, index, world, request, phase, tasks, served, trust,
                   disturbed, changes>>

(* _verify_one. Keys that cannot be had leave the signature unknown.       *)
VerifyOne(i) ==
    /\ phase = "signatures" /\ i \in pending
    /\ \/ Checked(i, Judged(agents[i])) /\ UNCHANGED faults
       \/ Checked(i, Verdict(agents[i], "unknown", "no_key", FALSE)) /\ Lost(1)

(* A plausible bug: the tasks are cancelled and nothing more.              *)
NotChecked_Silent(a) == a

NotChecked(a) ==
    IF a.status = None /\ Signs(a) THEN [a EXCEPT !.status = "not_checked"] ELSE a

(* The signature budget is spent before the last task is done.             *)
SignatureBudgetEnds ==
    /\ phase = "signatures" /\ pending # {}
    /\ agents' = [i \in DOMAIN agents |-> NotChecked(agents[i])]
    /\ pending' = {}
    /\ UNCHANGED <<zone, index, world, request, phase, tasks, served, trust>>
    /\ UNCHANGED <<disturbed, changes, faults>>

(* A plausible bug: DANE without DNSSEC.                                   *)
DaneTargets_All == DOMAIN agents

DaneTargets == {i \in DOMAIN agents : agents[i].dnssec}

(* _verify_agents_dane: only for agents with DNSSEC.                       *)
StartDane ==
    /\ phase = "signatures" /\ pending = {}
    /\ phase' = "dane"
    /\ pending' = IF request.dane THEN DaneTargets ELSE {}
    /\ UNCHANGED <<zone, index, world, request, tasks, agents, served, trust>>
    /\ UNCHANGED <<disturbed, changes, faults>>

CheckDane(i) ==
    /\ phase = "dane" /\ i \in pending
    /\ \/ /\ Checked(i, [agents[i] EXCEPT !.dane = world.tlsa[agents[i].endpoint]])
          /\ UNCHANGED faults
       \/ Checked(i, agents[i]) /\ Lost(1)

DaneBudgetEnds ==
    /\ phase = "dane" /\ pending # {}
    /\ pending' = {}
    /\ UNCHANGED <<zone, index, world, request, phase, tasks, agents, served, trust>>
    /\ UNCHANGED <<disturbed, changes, faults>>

(* A plausible bug: only what failed verification is dropped.              *)
DropsUnverified_OnlyForged(a) == a.trust = "jws" /\ a.verified = "no"

(* _drop_unverified_off_domain.                                            *)
DropsUnverified(a) == a.trust = "jws" /\ a.verified # "yes"

(* apply_filters: the filters about trust.                                 *)
Passes(a) ==
    /\ request.minDnssec => a.source = "catalog" \/ a.dnssec
    /\ request.requireSigned => a.verified = "yes"
    /\ request.requireSigned /\ request.requireParams => a.covers

Filter ==
    /\ phase = "dane" /\ pending = {}
    /\ phase' = "done"
    /\ agents' = Pick(agents, {i \in DOMAIN agents :
                      ~DropsUnverified(agents[i]) /\ Passes(agents[i])})
    /\ UNCHANGED <<zone, index, world, request, tasks, pending, served, trust>>
    /\ UNCHANGED <<disturbed, changes, faults>>
-----------------------------------------------------------------------------
(* The operator, while names are being asked for.                          *)

Changes ==
    /\ phase \in {"start", "listing", "asking"} /\ changes < MaxChanges
    /\ changes' = changes + 1
    /\ UNCHANGED <<world, request, locals, faults>>

(* The names whose look-up leads to what n publishes: its own and those it *)
(* is the alias of.                                                        *)
LeadTo(n) ==
    {n} \cup {m \in Name : \E o \in {m} \cup ({m} \X Protocols) :
                               zone[o] # None /\ zone[o].alias = n}

Republish(n) ==
    /\ Changes
    /\ \E r \in Republished \cup {None} :
          r # zone[n] /\ zone' = [zone EXCEPT ![n] = r]
    /\ disturbed' = disturbed \cup LeadTo(n)
    /\ UNCHANGED index

(* An entry is added at the end, or taken out, or the last one taken out   *)
(* turns the index into none.                                              *)
EditIndex(n) ==
    /\ Changes
    /\ \/ /\ Len(index) < Capacity
          /\ index' = Append(index, <<n, "mcp">>)
       \/ /\ \E i \in DOMAIN index : index[i][1] = n
          /\ index' = Pick(index, {i \in DOMAIN index : index[i][1] # n})
    /\ disturbed' = IF <<>> \in {index, index'} THEN Name ELSE disturbed \cup {n}
    /\ UNCHANGED zone
-----------------------------------------------------------------------------
Init ==
    /\ \E scene \in Scenes :
          /\ zone = scene.zone /\ index = scene.index /\ world = scene.world
    /\ \E r \in Requests : request = Effective(r)
    /\ phase = "start" /\ tasks = <<>> /\ agents = <<>> /\ pending = {}
    /\ served = None /\ trust = None
    /\ disturbed = {} /\ changes = 0 /\ faults = 0

Query(i) ==
    \/ Resolve(i) \/ ResolveLegacy(i) \/ FollowAlias(i)
    \/ Describe(i) \/ ReadText(i) \/ ReadArdCard(i)

Progress ==
    \/ AskForOne \/ ReadIndex \/ FollowPointer \/ FetchCatalog
    \/ \E i \in DOMAIN tasks : Query(i)
    \/ Gather \/ CheckDnssec \/ EnrichCards
    \/ \E i \in DOMAIN agents : VerifyOne(i) \/ CheckDane(i)
    \/ SignatureBudgetEnds \/ StartDane \/ DaneBudgetEnds \/ Filter

Next == Progress \/ \E n \in Name : Republish(n) \/ EditIndex(n)

(* Every request of a call has a timeout and the gates have budgets, so the*)
(* event loop always has a step of the call to take.                       *)
Spec == Init /\ [][Next]_vars /\ WF_vars(Progress)
-----------------------------------------------------------------------------
(* The record a resolver finds for n under p, if nothing changes.          *)
Published(n, p) ==
    LET r == IF zone[n] = None /\ request.legacy THEN zone[<<n, p>>] ELSE zone[n]
        next == IF r # None /\ r.alias # None THEN zone[r.alias] ELSE r
    IN  IF next # None /\ next.alias # None THEN None ELSE next

Refuses(r) ==
    /\ r.locator # None /\ r.pin # None
    /\ world.document[r.endpoint] # None
    /\ world.document[r.endpoint].id # r.pin

(* What the domain announces to this call.                                 *)
Announced ==
    IF None \notin {request.name, request.protocol}
    THEN {<<request.name, request.protocol>>}
    ELSE {e \in IF index = <<>> THEN ToSet(Common) \X Protocols ELSE ToSet(index) :
             /\ e[2] \in Protocols /\ request.protocol \in {None, e[2]}
             /\ request.name \in {None, e[1]}}

Merged == phase \in {"dnssec", "cards", "signatures", "dane"}

(* Discovery over DNS finds exactly the agents that are announced and      *)
(* published, each once and under the protocol its record names, however   *)
(* the queries interleave and whatever else of the zone changes or fails:  *)
(* only the names a change or a fault touched may be missing, or left over.*)
DiscoveryIsExact ==
    (Merged /\ ~request.http) =>
        LET calm(pairs) == {x \in pairs : x[1] \notin disturbed}
            found == {<<a.name, a.protocol>> : a \in ToSet(agents)}
            onShow == {x \in Announced :
                         LET r == Published(x[1], x[2]) IN r # None /\ ~Refuses(r)}
            spoken(x) == LET r == Published(x[1], x[2])
                         IN  IF r.speaks = None THEN x[2] ELSE r.speaks
        IN  /\ calm(found) = calm({<<x[1], spoken(x)>> : x \in onShow})
            /\ Cardinality(found) = Len(agents)

(* An agent's verdict is one verdict: what is verified is what the zone    *)
(* signed, for this name, endpoint and protocol, and what the caller sees  *)
(* after the budget is a verdict or not_checked, never the blank of an     *)
(* agent that was not in scope. An empty text is the one signature that is *)
(* given neither: discoverer.py tests it for truth where it counts the     *)
(* signed agents and for None where it counts the unsigned.                *)
VerdictsAreWhole ==
    (phase = "done" /\ request.verify) => \A a \in ToSet(agents) :
        /\ a.verified = "yes" <=> a.status \in {"verified", "endpoint_only"}
        /\ a.verified = "no" <=> a.status \in {"invalid", "unbound"}
        /\ a.covers <=> a.status = "verified"
        /\ a.status = "not_signed" => a.sig = None
        /\ a.status = None => a.sig # None /\ ~Signs(a)
        /\ a.verified = "yes" =>
              /\ a.sig.by = "zone"
              /\ <<a.sig.name, a.sig.endpoint, a.sig.speaks>>
                    = <<a.name, a.endpoint, a.protocol>>
              /\ a.sig.params \in {None, a.params}

(* What is returned has earned the trust the caller asked for: agents of a *)
(* catalog off the domain are verified, or its pointer was validated and   *)
(* the caller trusts that; a filter on DNSSEC or signatures leaves only    *)
(* what passed it; DANE is never reported without DNSSEC.                  *)
GatesHold ==
    phase = "done" => \A a \in ToSet(agents) :
        /\ (a.source = "catalog" /\ served = "off") =>
              \/ a.verified = "yes"
              \/ request.trustPointers /\ world.catalog.signed
        /\ request.requireSigned => a.verified = "yes"
        /\ (request.minDnssec /\ a.source = "dns") => a.dnssec
        /\ a.dane # "unknown" => a.dnssec

(* An agent said to have its pin verified lists the capabilities of the    *)
(* document that its record pins: neither a TXT record, nor a card, nor a  *)
(* catalog has replaced them since.                                        *)
PinIsHonoured == \A a \in ToSet(agents) : a.pinned => a.caps = a.pin

(* Nothing is vouched for that was not checked, at any of the three places *)
(* that vouch: the gates, the DANE verdict, the pinned descriptor.         *)
TrustIsEarned == GatesHold /\ PinIsHonoured

(* discover: require_dnssec raises if any DNS agent is not validated.      *)
RequiredDnssecHolds ==
    (phase = "done" /\ request.requireDnssec) =>
        \A a \in ToSet(agents) : a.source = "dns" => a.dnssec

(* Every call ends, with its agents or with a refusal.                     *)
EveryDiscoveryEnds == <>(phase \in {"done", "refused"})
=============================================================================
