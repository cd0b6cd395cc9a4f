--------------------------- MODULE Discovery_proofs ---------------------------
(***************************************************************************)
(* Theorems about Discovery: what a call of discover() finds and believes, *)
(* for any names, zones, catalogs and arguments, and any number of changes *)
(* and faults.                                                             *)
(*                                                                         *)
(* The agents carry many fields and every step rewrites a few of them, so  *)
(* the lemmas about the operators come first: what each makes of an agent  *)
(* and of a query. The invariants are then carried through the actions by  *)
(* those lemmas alone.                                                     *)
(***************************************************************************)
EXTENDS Discovery, Selection_proofs

AgentFields ==
    {"name", "protocol", "source", "endpoint", "params", "sig", "caps", "from",
     "pin", "pinned", "card", "override", "trust", "dnssec", "verified",
     "status", "covers", "dane"}

IsAgent(a) == a = [f \in AgentFields |-> a[f]]

(* Who an agent is: its key in the merge, its plane and its host.          *)
Typed(a) ==
    /\ IsAgent(a)
    /\ a.name \in Name /\ a.protocol \in Protocols
    /\ a.source \in {"dns", "catalog"} /\ a.endpoint \in Endpoints
    /\ a.dnssec \in BOOLEAN /\ a.covers \in BOOLEAN
    /\ a.verified \in Verdicts /\ a.dane \in Verdicts

(* A pin that is said to be verified is the capabilities, and the place    *)
(* they are from is one that nothing replaces.                             *)
Pins(a) ==
    a.pinned => a.caps = a.pin /\ a.pin # None /\ a.from \in {"cap_uri", "well_known"}

(* No gate has spoken of the agent.                                        *)
Blank(a) ==
    /\ a.verified = "unknown" /\ a.status = None /\ a.covers = FALSE
    /\ a.dane = "unknown" /\ a.dnssec = FALSE

(* The agent a query is about to bring, and then brings.                   *)
Fresh(a) == Typed(a) /\ Pins(a) /\ Blank(a)

(* The same agent to the merge.                                            *)
SameKey(a, b) == a.name = b.name /\ a.protocol = b.protocol

LEMMA NewAgentIs ==
    ASSUME NEW n \in Name, NEW p \in Protocols, NEW s, s = "dns" \/ s = "catalog",
           NEW r, r.endpoint \in Endpoints
    PROVE  Fresh(NewAgent(n, p, s, r))
<1> DEFINE a == NewAgent(n, p, s, r)
<1>1. IsAgent(a)
  BY DEF NewAgent, IsAgent, AgentFields
<1>2. /\ a.pinned = FALSE /\ a.pin = r.pin /\ a.endpoint = r.endpoint
      /\ a.name = n /\ a.protocol = p /\ a.source = s
  BY DEF NewAgent
<1>3. Blank(a)
  BY DEF NewAgent, Blank
<1> HIDE DEF a
<1>4. Typed(a)
  BY <1>1, <1>2, <1>3 DEF Typed, Blank, Verdicts
<1>5. QED
  BY <1>2, <1>3, <1>4 DEF Fresh, Pins, a

LEMMA FromEntryIs ==
    ASSUME NEW e, IsEntry(e), NEW p \in Protocols
    PROVE  LET a == FromEntry(e, p)
           IN  /\ Fresh(a) /\ a.pinned = FALSE
               /\ a.name = e.name /\ a.protocol = p
<1> DEFINE b == NewAgent(e.name, p, "catalog", e)
           a == FromEntry(e, p)
<1>0. e.name \in Name /\ e.endpoint \in Endpoints
  BY DEF IsEntry
<1>1. Fresh(b)
  BY <1>0, NewAgentIs
<1>f. b.pinned = FALSE /\ b.name = e.name /\ b.protocol = p
  BY DEF NewAgent
<1>2. a = [b EXCEPT !.caps = e.caps,
                    !.from = IF e.caps = None THEN "none" ELSE "catalog",
                    !.override = e.format = "legacy"]
  BY DEF FromEntry
<1> HIDE DEF a, b
<1>3. IsAgent(a)
  BY <1>1, <1>2 DEF Fresh, Typed, IsAgent
<1>4. /\ a.pinned = FALSE /\ SameKey(a, b) /\ a.source = b.source
      /\ a.endpoint = b.endpoint /\ a.dnssec = b.dnssec /\ a.covers = b.covers
      /\ a.verified = b.verified /\ a.dane = b.dane /\ a.status = b.status
  BY <1>1, <1>2, <1>f DEF Fresh, Typed, IsAgent, AgentFields, SameKey
<1>5. Fresh(a)
  BY <1>1, <1>3, <1>4 DEF Fresh, Typed, Pins, Blank, SameKey
<1>6. QED
  BY <1>f, <1>4, <1>5 DEF SameKey, a

LEMMA EnrichedIs ==
    ASSUME NEW a, NEW e, Fresh(a)
    PROVE  /\ Fresh(Enriched(a, e)) /\ SameKey(Enriched(a, e), a)
           /\ Enriched(a, e).source = a.source
<1> DEFINE b == Enriched(a, e)
<1>1. IsAgent(b)
  BY DEF Enriched, Fresh, Typed, IsAgent
<1>2. /\ SameKey(b, a) /\ b.source = a.source /\ b.endpoint = a.endpoint
      /\ b.dnssec = a.dnssec /\ b.covers = a.covers /\ b.verified = a.verified
      /\ b.dane = a.dane /\ b.status = a.status /\ b.pin = a.pin
      /\ b.pinned = a.pinned
  BY DEF Enriched, Fresh, Typed, IsAgent, AgentFields, SameKey
<1>3. a.caps # None => b.caps = a.caps /\ b.from = a.from
  BY DEF Enriched, Fresh, Typed, IsAgent, AgentFields
<1> HIDE DEF b
<1>4. Pins(b)
  BY <1>2, <1>3 DEF Fresh, Pins
<1>5. Typed(b) /\ Blank(b)
  BY <1>1, <1>2 DEF Fresh, Typed, Blank, SameKey
<1>6. QED
  BY <1>2, <1>4, <1>5 DEF Fresh, b


-----------------------------------------------------------------------------
(* Queries.                                                                *)

TaskFields == {"name", "probes", "entry", "at", "owner", "rec", "agent"}

IsTask(t) == t = [f \in TaskFields |-> t[f]]

(* What every query keeps: its name, and the entry it stands for.          *)
Asks(t) ==
    /\ IsTask(t) /\ t.name \in Name
    /\ t.entry # None => IsEntry(t.entry) /\ t.name = t.entry.name

(* A protocol is left to ask for.                                          *)
Probing(t) == t.probes \in Seq(Protocols) /\ t.probes # <<>>

(* The agent a is the query's own, and nothing vouches for it so far.      *)
Brings(t, a) == Fresh(a) /\ a.name = t.name

Describing(t) ==
    /\ Probing(t) /\ t.rec \in Records \ {None} /\ Brings(t, t.agent)
    /\ t.agent.pinned = FALSE /\ t.agent.pin = t.rec.pin

(* A query, by its stage.                                                  *)
TaskOK(t) ==
    /\ Asks(t)
    /\ \/ t.at \in {"resolve", "legacy"} /\ Probing(t) /\ t.rec = None
       \/ t.at = "alias" /\ Probing(t) /\ t.rec = None /\ t.agent \in Owner
       \/ t.at = "describe" /\ Describing(t) /\ t.rec.locator # None
       \/ t.at = "text" /\ Describing(t)
       \/ /\ t.at = "card" /\ t.rec = None /\ Brings(t, t.agent)
          /\ t.entry # None /\ t.entry.card # None /\ t.agent.pinned = FALSE
       \/ t.at = "done" /\ t.rec = None /\ (t.agent = Nobody \/ Brings(t, t.agent))

LEMMA TaskIs ==
    ASSUME NEW n \in Name, NEW probes, NEW e, e # None => IsEntry(e) /\ n = e.name
    PROVE  LET t == Task(n, probes, e)
           IN  /\ Asks(t) /\ t.name = n /\ t.probes = probes /\ t.entry = e
               /\ t.at = "resolve" /\ t.rec = None /\ t.agent = Nobody
BY DEF Task, Asks, IsTask, TaskFields

LEMMA AnsweredIs ==
    ASSUME NEW n \in Name, NEW e, e # None => IsEntry(e) /\ n = e.name, NEW a,
           a = Nobody \/ (Fresh(a) /\ a.name = n)
    PROVE  LET t == Answered(n, e, a)
           IN  TaskOK(t) /\ t.name = n /\ t.entry = e /\ t.at = "done" /\ t.agent = a
<1> DEFINE b == Task(n, <<>>, e)
           t == Answered(n, e, a)
<1>1. Asks(b) /\ b.name = n /\ b.entry = e /\ b.rec = None
  BY TaskIs
<1>2. t = [b EXCEPT !.at = "done", !.agent = a]
  BY DEF Answered
<1> HIDE DEF b
<1>3. IsTask(t)
  BY <1>1, <1>2 DEF Asks, IsTask
<1>4. t.name = n /\ t.entry = e /\ t.rec = None /\ t.at = "done" /\ t.agent = a
  BY <1>1, <1>2 DEF Asks, IsTask, TaskFields
<1> HIDE DEF t
<1>5. Asks(t)
  BY <1>3, <1>4 DEF Asks
<1>6. TaskOK(t)
  BY <1>4, <1>5 DEF TaskOK, Brings
<1>7. QED
  BY <1>4, <1>6 DEF t

(* The protocols of a catalog's entry.                                     *)
LEMMA ProbesAre ==
    ASSUME request \in Arguments, NEW e, IsEntry(e)
    PROVE  /\ Probes(e) \in Seq(Protocols) /\ Probes(e) # <<>>
           /\ Probes(e)[1] \in Protocols
           /\ e.protocol # None => Probes(e)[1] = e.protocol
<1>1. e.protocol \in Protocols \cup {None} /\ request.protocol \in Protocols \cup {None}
  BY DEF IsEntry, Arguments
<1>2. \A p \in Protocols : <<p>> \in Seq(Protocols) /\ <<p>> # <<>> /\ <<p>>[1] = p
  OBVIOUS
<1>3. /\ <<"mcp", "a2a">> \in Seq(Protocols) /\ <<"mcp", "a2a">> # <<>>
      /\ <<"mcp", "a2a">>[1] \in Protocols
  BY DEF Protocols
<1>4. CASE e.protocol # None
  BY <1>1, <1>2, <1>4 DEF Probes
<1>5. CASE e.protocol = None /\ request.protocol # None
  BY <1>1, <1>2, <1>5 DEF Probes
<1>6. CASE e.protocol = None /\ request.protocol = None
  BY <1>3, <1>6 DEF Probes
<1>7. QED
  BY <1>4, <1>5, <1>6

LEMMA TailIs ==
    ASSUME NEW S, NEW s \in Seq(S), Len(s) > 1
    PROVE  Tail(s) \in Seq(S) /\ Tail(s) # <<>>
<1>1. Tail(s) \in Seq(S) /\ Len(Tail(s)) = Len(s) - 1 /\ Len(s) \in Nat
  OBVIOUS
<1>2. Len(s) - 1 # 0
  BY <1>1
<1>3. QED
  BY <1>1, <1>2, EmptySeq

LEMMA SettledIs ==
    ASSUME request \in Arguments, NEW t, Asks(t), Probing(t), NEW a,
           a = Nobody \/ Brings(t, a)
    PROVE  LET u == Settled(t, a)
           IN  /\ TaskOK(u) /\ u.name = t.name /\ u.entry = t.entry
               /\ t.entry = None => u.at = "done" /\ u.agent = a
<1> DEFINE u == Settled(t, a)
<1>0. t.name \in Name /\ (t.entry # None => IsEntry(t.entry) /\ t.name = t.entry.name)
  BY DEF Asks
<1>1. CASE t.entry = None
  <2>1. u = Answered(t.name, None, a)
    BY <1>1 DEF Settled
  <2>2. QED
    BY <1>0, <1>1, <2>1, AnsweredIs DEF Brings
<1>2. CASE t.entry # None /\ a # Nobody
  <2>1. u = Answered(t.name, t.entry, Enriched(a, t.entry))
    BY <1>2 DEF Settled
  <2>2. Fresh(Enriched(a, t.entry)) /\ Enriched(a, t.entry).name = t.name
    BY <1>2, EnrichedIs DEF Brings, SameKey
  <2>3. QED
    BY <1>0, <1>2, <2>1, <2>2, AnsweredIs
<1>3. CASE t.entry # None /\ a = Nobody /\ Len(t.probes) > 1
  <2>1. u = Task(t.name, Tail(t.probes), t.entry)
    BY <1>3 DEF Settled
  <2>2. Tail(t.probes) \in Seq(Protocols) /\ Tail(t.probes) # <<>>
    BY <1>3, TailIs DEF Probing
  <2>3. /\ Asks(u) /\ u.name = t.name /\ u.probes = Tail(t.probes)
        /\ u.entry = t.entry /\ u.at = "resolve" /\ u.rec = None
    BY <1>0, <2>1, TaskIs
  <2>4. TaskOK(u)
    BY <2>2, <2>3 DEF TaskOK, Probing
  <2>5. QED
    BY <1>3, <2>3, <2>4
<1>4. CASE t.entry # None /\ a = Nobody /\ ~(Len(t.probes) > 1)
  <2> DEFINE b == FromEntry(t.entry, Probes(t.entry)[1])
  <2>1. u = Answered(t.name, t.entry, b)
    BY <1>4 DEF Settled
  <2>2. Probes(t.entry)[1] \in Protocols
    BY <1>0, <1>4, ProbesAre
  <2>3. Fresh(b) /\ b.name = t.name
    BY <1>0, <1>4, <2>2, FromEntryIs
  <2> HIDE DEF b
  <2>4. QED
    BY <1>0, <1>4, <2>1, <2>3, AnsweredIs
<1>5. QED
  BY <1>1, <1>2, <1>3, <1>4

LEMMA ReconcileIs ==
    ASSUME NEW r, IsRecord(r), NEW probe \in Protocols
    PROVE  Reconcile(probe, r) \in Protocols
BY DEF Reconcile, IsRecord

(* What follows a look-up.                                                 *)
LEMMA ReadIs ==
    ASSUME request \in Arguments, NEW t, Asks(t), Probing(t), t.rec = None,
           NEW r, r = None \/ (r \in Records \ {None} /\ IsRecord(r))
    PROVE  LET u == Read(t, r)
           IN  /\ TaskOK(u) /\ u.name = t.name /\ u.entry = t.entry
               /\ r = None => u = Settled(t, Nobody)
               /\ r # None /\ r.alias # None =>
                     u.at = "alias" /\ u.agent = r.alias /\ u.probes = t.probes
               /\ r # None /\ r.alias = None =>
                     /\ u.at \in {"describe", "text"}
                     /\ u.at = "text" <=> r.locator = None
                     /\ u.rec = r /\ u.agent.protocol = Reconcile(Head(t.probes), r)
                     /\ u.probes = t.probes
<1> DEFINE u == Read(t, r)
<1>1. CASE r = None
  <2>1. u = Settled(t, Nobody)
    BY <1>1 DEF Read
  <2>2. QED
    BY <1>1, <2>1, SettledIs
<1>2. CASE r # None /\ r.alias # None
  <2>1. u = [t EXCEPT !.at = "alias", !.agent = r.alias]
    BY <1>2 DEF Read
  <2>2. IsTask(u)
    BY <2>1 DEF Asks, IsTask
  <2>3. /\ u.at = "alias" /\ u.agent = r.alias /\ u.name = t.name
        /\ u.probes = t.probes /\ u.entry = t.entry /\ u.rec = None
    BY <2>1 DEF Asks, IsTask, TaskFields
  <2> HIDE DEF u
  <2>4. Asks(u) /\ Probing(u)
    BY <2>2, <2>3 DEF Asks, Probing
  <2>5. u.agent \in Owner
    BY <1>2, <2>3 DEF IsRecord
  <2>6. TaskOK(u)
    BY <2>3, <2>4, <2>5 DEF TaskOK
  <2>7. QED
    BY <1>2, <2>3, <2>6 DEF u
<1>3. CASE r # None /\ r.alias = None
  <2> DEFINE at == IF r.locator = None THEN "text" ELSE "describe"
             a == NewAgent(t.name, Reconcile(Head(t.probes), r), "dns", r)
  <2>1. u = [t EXCEPT !.at = at, !.rec = r, !.agent = a]
    BY <1>3 DEF Read
  <2>2. IsTask(u)
    BY <2>1 DEF Asks, IsTask
  <2>3. /\ u.at = at /\ u.agent = a /\ u.name = t.name
        /\ u.probes = t.probes /\ u.entry = t.entry /\ u.rec = r
    BY <2>1 DEF Asks, IsTask, TaskFields
  <2>4. Head(t.probes) \in Protocols
    BY DEF Probing
  <2>5. /\ t.name \in Name /\ Reconcile(Head(t.probes), r) \in Protocols
        /\ r.endpoint \in Endpoints
    BY <1>3, <2>4, ReconcileIs DEF Asks, IsRecord
  <2>6. Fresh(a)
    BY <2>5, NewAgentIs
  <2>f. /\ a.pinned = FALSE /\ a.pin = r.pin /\ a.name = t.name
        /\ a.protocol = Reconcile(Head(t.probes), r)
    BY DEF NewAgent
  <2> HIDE DEF u, a
  <2>7. Asks(u) /\ Probing(u)
    BY <2>2, <2>3 DEF Asks, Probing
  <2>8. Describing(u)
    BY <1>3, <2>3, <2>6, <2>f, <2>7 DEF Describing, Brings
  <2>9. TaskOK(u)
    BY <2>3, <2>7, <2>8 DEF TaskOK
  <2>10. QED
    BY <1>3, <2>3, <2>f, <2>9 DEF u
<1>4. QED
  BY <1>1, <1>2, <1>3

-----------------------------------------------------------------------------
(* Lists.                                                                  *)

IsList(s) == \E n \in Nat : DOMAIN s = 1..n /\ s = [i \in 1..n |-> s[i]]

LEMMA SeqIsList ==
    ASSUME NEW V, NEW s \in Seq(V)
    PROVE  IsList(s) /\ \A i \in DOMAIN s : s[i] \in V
<1>1. Len(s) \in Nat /\ DOMAIN s = 1..Len(s) /\ s \in [1..Len(s) -> V]
  OBVIOUS
<1>2. s = [i \in 1..Len(s) |-> s[i]] /\ \A i \in 1..Len(s) : s[i] \in V
  BY <1>1
<1>3. QED
  BY <1>1, <1>2 DEF IsList

LEMMA EmptyIsList == IsList(<<>>) /\ DOMAIN <<>> = {}
<1>1. DOMAIN <<>> = 1..0 /\ <<>> = [i \in 1..0 |-> <<>>[i]]
  OBVIOUS
<1>2. QED
  BY <1>1 DEF IsList

LEMMA ListIsSeq ==
    ASSUME NEW s, IsList(s)
    PROVE  s \in Seq({s[i] : i \in DOMAIN s}) /\ DOMAIN s = 1..Len(s) /\ Len(s) \in Nat
<1> DEFINE V == {s[i] : i \in DOMAIN s}
<1>1. PICK n \in Nat : DOMAIN s = 1..n /\ s = [i \in 1..n |-> s[i]]
  BY DEF IsList
<1>2. \A i \in 1..n : s[i] \in V
  BY <1>1
<1> HIDE DEF V
<1>3. s \in [1..n -> V]
  BY <1>1, <1>2
<1>4. s \in Seq(V) /\ Len(s) = n
  BY <1>1, <1>3
<1>5. QED
  BY <1>1, <1>4 DEF V

LEMMA AlteredIsList ==
    ASSUME NEW s, IsList(s), NEW i \in DOMAIN s, NEW x
    PROVE  LET t == [s EXCEPT ![i] = x]
           IN  /\ IsList(t) /\ DOMAIN t = DOMAIN s /\ t[i] = x
               /\ \A j \in DOMAIN s \ {i} : t[j] = s[j]
BY DEF IsList

(* Part of a list.                                                         *)
LEMMA PickedIsList ==
    ASSUME NEW s, IsList(s), NEW kept \in SUBSET (DOMAIN s)
    PROVE  LET t == Pick(s, kept)
           IN  /\ IsList(t) /\ Len(t) = Cardinality(kept)
               /\ DOMAIN t = 1..Cardinality(kept)
               /\ \A m \in DOMAIN t : \E i \in kept : t[m] = s[i]
               /\ \A i \in kept : \E m \in DOMAIN t : t[m] = s[i]
<1> DEFINE V == {s[i] : i \in DOMAIN s}
           t == Pick(s, kept)
<1>1. s \in Seq(V)
  BY ListIsSeq
<1> HIDE DEF V
<1>2. /\ t \in Seq(V) /\ Len(t) = Cardinality(kept)
      /\ DOMAIN t = 1..Cardinality(kept)
      /\ \A m \in 1..Cardinality(kept) : \E i \in kept : t[m] = s[i]
      /\ \A i \in kept : \E m \in 1..Cardinality(kept) : t[m] = s[i]
  BY <1>1, PickKeeps
<1>3. IsList(t)
  BY <1>2, SeqIsList
<1>4. QED
  BY <1>2, <1>3
-----------------------------------------------------------------------------
(* What the actions find, each by its kind.                                *)

(* What the call was given, and what is published while it runs.           *)
Grounds ==
    /\ request \in {Effective(r) : r \in Requests} /\ IsWorld(world)
    /\ zone \in [Owner -> Records \cup {None}]
    /\ index \in Seq(Name \X (Protocols \cup {Unknown}))

Counters ==
    /\ disturbed \subseteq Name
    /\ changes \in 0..MaxChanges /\ faults \in 0..MaxFaults

Queries ==
    /\ IsList(tasks) /\ \A i \in DOMAIN tasks : TaskOK(tasks[i])
    /\ phase # "asking" => tasks = <<>>

Found ==
    /\ IsList(agents)
    /\ \A i \in DOMAIN agents : Typed(agents[i]) /\ Pins(agents[i])
    /\ phase \in {"start", "listing", "asking"} => agents = <<>>

Stands ==
    /\ phase \in Phases
    /\ pending \subseteq DOMAIN agents
    /\ pending # {} => phase \in {"signatures", "dane"}
    /\ phase = "dane" => \A i \in pending : agents[i].dnssec
    /\ served \in Places \cup {None}
    /\ trust \in {None, "tls_domain", "dnssec", "jws"}

TypeInv == Grounds /\ Counters /\ Queries /\ Found /\ Stands

LEMMA RequestIs ==
    ASSUME Grounds
    PROVE  request \in Arguments
<1>1. PICK r \in Requests : request = Effective(r)
  BY DEF Grounds
<1>2. r \in Arguments
  BY DiscoveryAssumption
<1>3. QED
  BY <1>1, <1>2 DEF Effective, Arguments

LEMMA RecordIs ==
    ASSUME Grounds, NEW o \in Owner
    PROVE  zone[o] = None \/ (zone[o] \in Records \ {None} /\ IsRecord(zone[o]))
BY ScenesAssumption DEF Grounds

(* The invariant types the state.                                          *)
LEMMA TypesHold ==
    ASSUME TypeInv
    PROVE  TypeOK
<1>1. ASSUME NEW i \in DOMAIN tasks
      PROVE  /\ tasks[i].at \in Stages \cup {"done"}
             /\ tasks[i].at \in {"describe", "text"} <=> tasks[i].rec # None
             /\ tasks[i].at \in Stages => phase = "asking"
  <2>1. TaskOK(tasks[i])
    BY DEF TypeInv, Queries
  <2>2. phase = "asking"
    BY DEF TypeInv, Queries
  <2>3. QED
    BY <2>1, <2>2 DEF TaskOK, Describing, Stages
<1>2. \A i \in DOMAIN agents :
          /\ agents[i].name \in Name /\ agents[i].protocol \in Protocols
          /\ agents[i].source \in {"dns", "catalog"}
          /\ agents[i].dnssec \in BOOLEAN /\ agents[i].covers \in BOOLEAN
          /\ agents[i].verified \in Verdicts /\ agents[i].dane \in Verdicts
  BY DEF TypeInv, Found, Typed
<1>3. QED
  BY <1>1, <1>2 DEF TypeInv, TypeOK, Grounds, Counters, Stands


LEMMA InitType == Init => TypeInv
<1> SUFFICES ASSUME Init PROVE TypeInv
  OBVIOUS
<1>1. PICK scene \in Scenes :
         zone = scene.zone /\ index = scene.index /\ world = scene.world
  BY DEF Init
<1>2. IsScene(scene)
  BY ScenesAssumption
<1>3. Grounds
  BY <1>1, <1>2 DEF Init, Grounds, IsScene
<1>4. IsList(<<>>) /\ DOMAIN <<>> = {}
  BY EmptyIsList
<1>5. Queries /\ Found
  BY <1>4 DEF Init, Queries, Found
<1>6. Stands
  BY DEF Init, Stands, Phases
<1>7. Counters
  BY DiscoveryAssumption DEF Init, Counters
<1>8. QED
  BY <1>3, <1>5, <1>6, <1>7 DEF TypeInv

(* The lists of queries that a call begins with.                           *)
LEMMA AskingIs ==
    ASSUME NEW n \in Name, NEW p \in Protocols
    PROVE  /\ TaskOK(Asking(n, p)) /\ Asking(n, p).name = n
           /\ Asking(n, p).probes = <<p>> /\ Asking(n, p).at = "resolve"
           /\ Asking(n, p).entry = None
<1> DEFINE t == Asking(n, p)
<1>1. /\ Asks(t) /\ t.name = n /\ t.probes = <<p>> /\ t.entry = None
      /\ t.at = "resolve" /\ t.rec = None
  BY TaskIs DEF Asking
<1> HIDE DEF t
<1>2. Probing(t)
  BY <1>1 DEF Probing
<1>3. TaskOK(t)
  BY <1>1, <1>2 DEF TaskOK
<1>4. QED
  BY <1>1, <1>3 DEF t

(* A list of queries that are to be asked.                                 *)
Begun(ts) == IsList(ts) /\ \A i \in DOMAIN ts : TaskOK(ts[i])

AskedFor == {Asking(n, p) : n \in Name, p \in Protocols}

LEMMA AskedForIsBegun ==
    ASSUME NEW ts \in Seq(AskedFor)
    PROVE  Begun(ts)
<1>1. IsList(ts) /\ \A i \in DOMAIN ts : ts[i] \in AskedFor
  BY SeqIsList
<1>2. \A t \in AskedFor : TaskOK(t)
  BY AskingIs DEF AskedFor
<1>3. QED
  BY <1>1, <1>2 DEF Begun

LEMMA CommonTasksAre ==
    ASSUME Grounds
    PROVE  CommonTasks \in Seq(AskedFor)
<1> DEFINE under(p) == [i \in DOMAIN Common |-> Asking(Common[i], p)]
<1>1. Common \in Seq(Name) /\ DOMAIN Common = 1..Len(Common) /\ Len(Common) \in Nat
      /\ \A i \in DOMAIN Common : Common[i] \in Name
  BY DiscoveryAssumption
<1>2. ASSUME NEW p \in Protocols
      PROVE  under(p) \in Seq(AskedFor)
  <2>1. \A i \in 1..Len(Common) : Asking(Common[i], p) \in AskedFor
    BY <1>1 DEF AskedFor
  <2> HIDE DEF AskedFor
  <2>2. under(p) \in [1..Len(Common) -> AskedFor]
    BY <1>1, <2>1
  <2>3. QED
    BY <1>1, <2>2
<1> HIDE DEF AskedFor
<1>3. under("mcp") \in Seq(AskedFor) /\ under("a2a") \in Seq(AskedFor)
  BY <1>2 DEF Protocols
<1>4. request.protocol \in Protocols \cup {None}
  BY RequestIs DEF Arguments
<1>5. CommonTasks = IF request.protocol = None THEN under("mcp") \o under("a2a")
                    ELSE under(request.protocol)
  BY DEF CommonTasks
<1>6. under("mcp") \o under("a2a") \in Seq(AskedFor)
  <2> HIDE DEF under
  <2>1. QED
    BY <1>3
<1>7. CASE request.protocol = None
  BY <1>5, <1>6, <1>7
<1>8. CASE request.protocol # None
  <2>1. request.protocol \in Protocols
    BY <1>4, <1>8
  <2>2. under(request.protocol) \in Seq(AskedFor)
    BY <2>1, <1>2
  <2>3. QED
    BY <1>5, <1>8, <2>2
<1>9. QED
  BY <1>7, <1>8

LEMMA FirstStringIs ==
    ASSUME NEW V, NEW s \in Seq(V)
    PROVE  /\ FirstString(s) \in Seq(V) /\ Len(FirstString(s)) <= Len(s)
           /\ Len(s) <= Capacity => FirstString(s) = s
<1>1. Len(s) \in Nat /\ Capacity \in Nat
  BY DiscoveryAssumption
<1> DEFINE n == IF Len(s) < Capacity THEN Len(s) ELSE Capacity
<1>2. n \in Nat /\ n <= Len(s)
  BY <1>1
<1>3. FirstString(s) = SubSeq(s, 1, n)
  BY DEF FirstString
<1>4. SubSeq(s, 1, n) = [i \in 1..n |-> s[i]] /\ \A i \in 1..n : s[i] \in V
  BY <1>1, <1>2
<1>5. SubSeq(s, 1, n) \in Seq(V) /\ Len(SubSeq(s, 1, n)) = n
  BY <1>1, <1>2, <1>4
<1>6. Len(s) <= Capacity => n = Len(s)
  BY <1>1
<1>7. s = [i \in 1..Len(s) |-> s[i]]
  OBVIOUS
<1> HIDE DEF n
<1>8. QED
  BY <1>2, <1>3, <1>4, <1>5, <1>6, <1>7

(* The entries that _build_index_tasks asks for.                           *)
Wanted(e) == e[2] \in Protocols /\ request.protocol \in {None, e[2]}

LEMMA IndexTasksAre ==
    ASSUME NEW entries \in Seq(Name \X (Protocols \cup {Unknown}))
    PROVE  LET ts == IndexTasks(entries)
           IN  /\ ts \in Seq(AskedFor)
               /\ \A i \in DOMAIN ts : \E k \in DOMAIN entries :
                     /\ Wanted(entries[k])
                     /\ ts[i] = Asking(entries[k][1], entries[k][2])
               /\ \A k \in DOMAIN entries : Wanted(entries[k]) =>
                     \E i \in DOMAIN ts : ts[i] = Asking(entries[k][1], entries[k][2])
<1> DEFINE kept == {k \in DOMAIN entries : Wanted(entries[k])}
           asked == Pick(entries, kept)
           ts == IndexTasks(entries)
<1>1. ts = [i \in DOMAIN asked |-> Asking(asked[i][1], asked[i][2])]
  BY DEF IndexTasks, Wanted
<1>2. \A k \in DOMAIN entries : entries[k] \in Name \X (Protocols \cup {Unknown})
  OBVIOUS
<1>3. /\ IsList(asked)
      /\ \A m \in DOMAIN asked : \E i \in kept : asked[m] = entries[i]
      /\ \A i \in kept : \E m \in DOMAIN asked : asked[m] = entries[i]
  <2>1. IsList(entries)
    BY SeqIsList
  <2>2. kept \in SUBSET (DOMAIN entries)
    OBVIOUS
  <2> HIDE DEF kept
  <2>3. QED
    BY <2>1, <2>2, PickedIsList
<1>4. PICK n \in Nat : DOMAIN asked = 1..n
  BY <1>3 DEF IsList
<1> HIDE DEF asked, ts
<1>5. DOMAIN ts = 1..n /\ \A i \in 1..n : ts[i] = Asking(asked[i][1], asked[i][2])
  BY <1>1, <1>4
<1>6. ASSUME NEW i \in 1..n
      PROVE  /\ ts[i] \in AskedFor
             /\ \E k \in DOMAIN entries :
                   /\ Wanted(entries[k])
                   /\ ts[i] = Asking(entries[k][1], entries[k][2])
  <2>1. PICK k \in kept : asked[i] = entries[k]
    BY <1>3, <1>4
  <2>2. Wanted(entries[k]) /\ entries[k][1] \in Name /\ entries[k][2] \in Protocols
    BY <1>2, <2>1 DEF Wanted
  <2>3. ts[i] = Asking(entries[k][1], entries[k][2])
    BY <1>5, <2>1
  <2>4. QED
    BY <2>2, <2>3 DEF AskedFor
<1>7. ts \in Seq(AskedFor)
  <2>1. \A i \in 1..n : Asking(asked[i][1], asked[i][2]) \in AskedFor
    BY <1>5, <1>6
  <2> HIDE DEF AskedFor
  <2>2. ts \in [1..n -> AskedFor]
    BY <1>1, <1>4, <2>1
  <2>3. QED
    BY <2>2
<1>8. ASSUME NEW k \in DOMAIN entries, Wanted(entries[k])
      PROVE  \E i \in DOMAIN ts : ts[i] = Asking(entries[k][1], entries[k][2])
  BY <1>3, <1>4, <1>5, <1>8
<1>9. QED
  BY <1>5, <1>6, <1>7, <1>8 DEF ts


LEMMA EntryTaskIs ==
    ASSUME Grounds, NEW e, IsEntry(e)
    PROVE  TaskOK(EntryTask(e))
<1> DEFINE own == FromEntry(e, e.protocol)
           bars == \/ request.name \notin {None, e.name}
                   \/ e.protocol # None /\ request.protocol \notin {None, e.protocol}
<1>0. e # None /\ e.name \in Name
  BY DEF IsEntry
<1>1. CASE bars
  <2>1. EntryTask(e) = Answered(e.name, e, Nobody)
    BY <1>1 DEF EntryTask
  <2>2. QED
    BY <1>0, <2>1, AnsweredIs
<1>2. CASE ~bars /\ e.format = "legacy"
  <2> DEFINE t == Task(e.name, Probes(e), e)
  <2>1. EntryTask(e) = t
    BY <1>2 DEF EntryTask
  <2>2. /\ Asks(t) /\ t.probes = Probes(e) /\ t.at = "resolve" /\ t.rec = None
    BY <1>0, TaskIs
  <2>3. Probes(e) \in Seq(Protocols) /\ Probes(e) # <<>>
    BY RequestIs, ProbesAre
  <2> HIDE DEF t
  <2>4. QED
    BY <2>1, <2>2, <2>3 DEF TaskOK, Probing
<1>3. CASE ~bars /\ e.format # "legacy" /\ e.card = None
  <2>1. EntryTask(e) = Answered(e.name, e, own)
    BY <1>3 DEF EntryTask
  <2>2. e.protocol \in Protocols
    BY <1>3 DEF IsEntry
  <2>3. Fresh(own) /\ own.name = e.name
    BY <2>2, FromEntryIs
  <2> HIDE DEF own
  <2>4. QED
    BY <1>0, <2>1, <2>3, AnsweredIs
<1>4. CASE ~bars /\ e.format # "legacy" /\ e.card # None
  <2> DEFINE b == Task(e.name, <<>>, e)
             t == [b EXCEPT !.at = "card", !.agent = own]
  <2>1. EntryTask(e) = t
    BY <1>4 DEF EntryTask
  <2>2. e.protocol \in Protocols
    BY <1>4 DEF IsEntry
  <2>3. Fresh(own) /\ own.name = e.name /\ own.pinned = FALSE
    BY <2>2, FromEntryIs
  <2>4. Asks(b) /\ b.name = e.name /\ b.entry = e /\ b.rec = None
    BY <1>0, TaskIs
  <2> HIDE DEF own, b
  <2>5. IsTask(t)
    BY <2>4 DEF Asks, IsTask
  <2>6. t.name = e.name /\ t.entry = e /\ t.rec = None /\ t.at = "card" /\ t.agent = own
    BY <2>4 DEF Asks, IsTask, TaskFields
  <2> HIDE DEF t
  <2>7. Asks(t)
    BY <1>0, <2>5, <2>6 DEF Asks
  <2>8. TaskOK(t)
    BY <1>0, <1>4, <2>3, <2>6, <2>7 DEF TaskOK, Brings
  <2>9. QED
    BY <2>1, <2>8
<1>5. QED
  BY <1>1, <1>2, <1>3, <1>4

(* A step of a call that begins its queries.                               *)
LEMMA BeginsKeeps ==
    ASSUME TypeInv, NEW ts, Begun(ts), Begins(ts), phase \in {"start", "listing"},
           UNCHANGED <<zone, index, world, request>>,
           Counters', served' \in Places \cup {None},
           trust' \in {None, "tls_domain", "dnssec", "jws"}
    PROVE  TypeInv'
<1>1. phase' = "asking" /\ tasks' = ts /\ agents' = agents /\ pending' = pending
  BY DEF Begins
<1>2. Grounds'
  BY DEF TypeInv, Grounds
<1>3. Queries'
  BY <1>1 DEF Queries, Begun
<1>4. Found'
  BY <1>1 DEF TypeInv, Found
<1>5. Stands'
  BY <1>1 DEF TypeInv, Stands, Phases
<1>6. QED
  BY <1>2, <1>3, <1>4, <1>5 DEF TypeInv

LEMMA LostCounts ==
    ASSUME Counters, NEW k \in Nat, Lost(k), disturbed' \subseteq Name, changes' = changes
    PROVE  Counters'
BY DiscoveryAssumption DEF Counters, Lost

LEMMA UndisturbedCounts ==
    ASSUME Counters, Undisturbed, changes' = changes
    PROVE  Counters'
BY DEF Counters, Undisturbed

LEMMA AskForOneTyped ==
    ASSUME TypeInv, AskForOne
    PROVE  TypeInv'
<1> DEFINE ts == <<Asking(request.name, request.protocol)>>
<1>1. request.name \in Name /\ request.protocol \in Protocols
  BY RequestIs DEF AskForOne, Arguments, TypeInv
<1>2. Asking(request.name, request.protocol) \in AskedFor
  BY <1>1 DEF AskedFor
<1> HIDE DEF AskedFor
<1>3. ts \in Seq(AskedFor)
  BY <1>2
<1>4. Begun(ts)
  BY <1>3, AskedForIsBegun
<1>5. Counters'
  BY UndisturbedCounts DEF AskForOne, TypeInv
<1>6. QED
  BY <1>4, <1>5, BeginsKeeps DEF AskForOne, TypeInv, Stands

LEMMA ReadIndexTyped ==
    ASSUME TypeInv, ReadIndex
    PROVE  TypeInv'
<1>0. /\ phase = "start" /\ changes' = changes
      /\ UNCHANGED <<zone, index, world, request>>
      /\ served' = served /\ trust' = trust
  BY DEF ReadIndex
<1>1. Begun(CommonTasks)
  BY CommonTasksAre, AskedForIsBegun DEF TypeInv
<1>2. Begun(IndexTasks(FirstString(index)))
  <2>1. FirstString(index) \in Seq(Name \X (Protocols \cup {Unknown}))
    BY FirstStringIs DEF TypeInv, Grounds
  <2>2. IndexTasks(FirstString(index)) \in Seq(AskedFor)
    BY <2>1, IndexTasksAre
  <2>3. QED
    BY <2>2, AskedForIsBegun
<1>3. CASE /\ Begins(IF index = <<>> THEN CommonTasks
                     ELSE IndexTasks(FirstString(index)))
           /\ Undisturbed
  <2>1. Counters'
    BY <1>0, <1>3, UndisturbedCounts DEF TypeInv
  <2>2. QED
    BY <1>0, <1>1, <1>2, <1>3, <2>1, BeginsKeeps DEF TypeInv, Stands
<1>4. CASE Begins(CommonTasks) /\ Lost(1) /\ disturbed' = Name
  <2>1. Counters'
    BY <1>0, <1>4, LostCounts DEF TypeInv
  <2>2. QED
    BY <1>0, <1>1, <1>4, <2>1, BeginsKeeps DEF TypeInv, Stands
<1>5. QED
  BY <1>3, <1>4 DEF ReadIndex

LEMMA FetchCatalogTyped ==
    ASSUME TypeInv, FetchCatalog
    PROVE  TypeInv'
<1> DEFINE from(place) == [i \in DOMAIN world.catalog[place] |->
                              EntryTask(world.catalog[place][i])]
<1>0. /\ phase = "listing" /\ changes' = changes
      /\ UNCHANGED <<zone, index, world, request>>
  BY DEF FetchCatalog
<1>1. ASSUME NEW place \in Places
      PROVE  Begun(from(place))
  <2> DEFINE entries == world.catalog[place]
  <2>1. /\ entries \in Seq({entries[k] : k \in DOMAIN entries})
        /\ \A k \in DOMAIN entries : IsEntry(entries[k])
    BY DEF TypeInv, Grounds, IsWorld
  <2> HIDE DEF entries
  <2>2. \A k \in DOMAIN entries : TaskOK(EntryTask(entries[k]))
    BY <2>1, EntryTaskIs DEF TypeInv
  <2>3. IsList(entries)
    BY <2>1, SeqIsList
  <2>4. Begun([i \in DOMAIN entries |-> EntryTask(entries[i])])
    BY <2>2, <2>3 DEF Begun, IsList
  <2>5. QED
    BY <2>4 DEF entries
<1>2. Begun(<<>>)
  <2>1. <<>> \in Seq(AskedFor)
    OBVIOUS
  <2>2. QED
    BY <2>1, AskedForIsBegun
<1> HIDE DEF from
<1>3. CASE /\ served \in {"on", "off"} /\ Begins(from(served))
           /\ Undisturbed /\ UNCHANGED <<served, trust>>
  <2>1. Counters'
    BY <1>0, <1>3, UndisturbedCounts DEF TypeInv
  <2>2. Begun(from(served))
    BY <1>1, <1>3 DEF Places
  <2>3. QED
    BY <1>0, <1>3, <2>1, <2>2, BeginsKeeps DEF TypeInv, Stands
<1>4. CASE /\ Begins(from("wellknown"))
           /\ served' = "wellknown" /\ trust' = "tls_domain"
           /\ (Lost(1) /\ disturbed' = Name) \/ Undisturbed
  <2>1. Counters'
    BY <1>0, <1>4, UndisturbedCounts, LostCounts DEF TypeInv
  <2>2. Begun(from("wellknown"))
    BY <1>1 DEF Places
  <2>3. QED
    BY <1>0, <1>4, <2>1, <2>2, BeginsKeeps DEF Places
<1>5. CASE /\ Begins(<<>>) /\ served' = None /\ UNCHANGED trust
           /\ Lost(1) \/ Lost(2)
           /\ disturbed' = Name
  <2>1. Counters'
    BY <1>0, <1>5, LostCounts DEF TypeInv
  <2>2. QED
    BY <1>0, <1>2, <1>5, <2>1, BeginsKeeps DEF TypeInv, Stands
<1>6. QED
  BY <1>3, <1>4, <1>5 DEF FetchCatalog, from

LEMMA PairHasTwo == IsFiniteSet({1, 2}) /\ Cardinality({1, 2}) = 2
<1>1. IsFiniteSet({1}) /\ Cardinality({1}) = 1
  BY FS_Singleton
<1>2. IsFiniteSet({1} \cup {2}) /\ Cardinality({1} \cup {2}) = Cardinality({1}) + 1
  BY <1>1, FS_AddElement
<1>3. {1} \cup {2} = {1, 2}
  OBVIOUS
<1>4. QED
  BY <1>1, <1>2, <1>3

LEMMA FollowPointerTyped ==
    ASSUME TypeInv, FollowPointer
    PROVE  TypeInv'
<1>1. PICK labels \in SUBSET {1, 2} :
          LET leads == PointerThrough(labels)
              lost == 2 - Cardinality(labels)
              validates == request.trustPointers /\ world.catalog.signed
          IN  \/ /\ leads = None \/ (leads = "off" /\ ~validates /\ ~request.verify)
                 /\ Follows("wellknown", "tls_domain") /\ Lost(lost)
              \/ leads = "on" /\ Follows("on", "tls_domain") /\ Lost(lost)
              \/ /\ leads = "off" /\ validates
                 /\ Follows("off", "dnssec") /\ Lost(lost)
              \/ /\ leads = "off" /\ request.verify
                 /\ Follows("off", "jws")
                 /\ Lost(IF validates THEN lost + 1 ELSE lost)
              \/ /\ leads = "off" /\ validates /\ ~request.verify
                 /\ Follows("wellknown", "tls_domain") /\ Lost(lost + 1)
  BY DEF FollowPointer
<1>2. 2 - Cardinality(labels) \in Nat
  <2>1. IsFiniteSet({1, 2}) /\ Cardinality({1, 2}) = 2
    BY PairHasTwo
  <2>2. IsFiniteSet(labels) /\ Cardinality(labels) <= 2 /\ Cardinality(labels) \in Nat
    BY <2>1, FS_Subset, FS_CardinalityType
  <2>3. QED
    BY <2>2
<1> DEFINE lost == 2 - Cardinality(labels)
<1>3. /\ Lost(lost) \/ Lost(lost + 1)
      /\ served' \in Places
      /\ trust' \in {"tls_domain", "dnssec", "jws"}
  BY <1>1 DEF Follows, Places
<1> HIDE DEF lost
<1>4. /\ phase = "start" /\ phase' = "listing"
      /\ UNCHANGED <<zone, index, world, request, tasks, agents, pending>>
      /\ UNCHANGED <<disturbed, changes>>
  BY DEF FollowPointer
<1>5. Counters'
  <2>1. lost \in Nat /\ lost + 1 \in Nat
    BY <1>2 DEF lost
  <2>2. QED
    BY <1>3, <1>4, <2>1, LostCounts DEF TypeInv, Counters
<1>6. Grounds' /\ Queries' /\ Found'
  BY <1>4 DEF TypeInv, Grounds, Queries, Found
<1>7. Stands'
  BY <1>3, <1>4 DEF TypeInv, Stands, Phases
<1>8. QED
  BY <1>5, <1>6, <1>7 DEF TypeInv

-----------------------------------------------------------------------------
(* The steps of a query.                                                   *)

LEMMA StepKeeps ==
    ASSUME TypeInv, phase = "asking", NEW i \in DOMAIN tasks, NEW t, TaskOK(t),
           Step(i, t), Counters', UNCHANGED <<zone, index, world, request>>,
           UNCHANGED <<phase, agents, pending, served, trust>>
    PROVE  TypeInv'
<1>1. Grounds' /\ Found' /\ Stands'
  BY DEF TypeInv, Grounds, Found, Stands
<1>2. IsList(tasks) /\ \A j \in DOMAIN tasks : TaskOK(tasks[j])
  BY DEF TypeInv, Queries
<1>3. /\ IsList(tasks') /\ DOMAIN tasks' = DOMAIN tasks /\ tasks'[i] = t
      /\ \A j \in DOMAIN tasks \ {i} : tasks'[j] = tasks[j]
  BY <1>2, AlteredIsList DEF Step
<1>4. Queries'
  BY <1>2, <1>3 DEF Queries
<1>5. QED
  BY <1>1, <1>4 DEF TypeInv

(* The two outcomes of a request: an answer, or none.                      *)
LEMMA AskedFrame ==
    ASSUME TypeInv, NEW i \in DOMAIN tasks, NEW stage, Asked(i, stage)
    PROVE  /\ phase = "asking" /\ TaskOK(tasks[i]) /\ tasks[i].at = stage
           /\ tasks[i].name \in Name /\ request \in Arguments
           /\ UNCHANGED <<zone, index, world, request>>
           /\ UNCHANGED <<phase, agents, pending, served, trust>>
           /\ Undisturbed => Counters'
           /\ LostFor(tasks[i].name) => Counters'
           /\ Lost(1) /\ UNCHANGED disturbed => Counters'
<1>1. TaskOK(tasks[i]) /\ request \in Arguments
  BY RequestIs DEF TypeInv, Queries
<1>2. tasks[i].name \in Name
  BY <1>1 DEF TaskOK, Asks
<1>3. /\ phase = "asking" /\ tasks[i].at = stage /\ changes' = changes
      /\ UNCHANGED <<zone, index, world, request>>
      /\ UNCHANGED <<phase, agents, pending, served, trust>>
  BY DEF Asked
<1>4. Undisturbed => Counters'
  BY <1>3, UndisturbedCounts DEF TypeInv
<1>5. LostFor(tasks[i].name) => Counters'
  <2>1. LostFor(tasks[i].name) => Lost(1) /\ disturbed' \subseteq Name
    BY <1>2 DEF LostFor, TypeInv, Counters
  <2>2. QED
    BY <1>3, <2>1, LostCounts DEF TypeInv
<1>6. Lost(1) /\ UNCHANGED disturbed => Counters'
  <2>1. UNCHANGED disturbed => disturbed' \subseteq Name
    BY DEF TypeInv, Counters
  <2>2. QED
    BY <1>3, <2>1, LostCounts DEF TypeInv
<1>7. QED
  BY <1>1, <1>2, <1>3, <1>4, <1>5, <1>6

LEMMA StageIs ==
    ASSUME NEW t, TaskOK(t)
    PROVE  /\ Asks(t)
           /\ t.at \in {"resolve", "legacy", "alias", "describe", "text"} => Probing(t)
           /\ t.at \in {"resolve", "legacy", "alias"} => t.rec = None
           /\ t.at = "alias" => t.agent \in Owner
           /\ t.at = "describe" => t.rec.locator # None
           /\ t.at \in {"describe", "text"} => Describing(t)
           /\ t.at = "card" =>
                 /\ t.rec = None /\ Brings(t, t.agent) /\ t.agent.pinned = FALSE
                 /\ t.entry # None /\ t.entry.card # None
           /\ t.at = "done" => t.agent = Nobody \/ Brings(t, t.agent)
BY DEF TaskOK, Describing

LEMMA NobodyFound ==
    ASSUME request \in Arguments, NEW t, TaskOK(t),
           t.at \in {"resolve", "legacy", "alias", "describe", "text"}
    PROVE  LET u == Settled(t, Nobody)
           IN  /\ TaskOK(u) /\ u.name = t.name /\ u.entry = t.entry
               /\ t.entry = None => u.at = "done" /\ u.agent = Nobody
BY StageIs, SettledIs

LEMMA LegacyOwnerIs ==
    ASSUME NEW t, Probing(t), t.name \in Name
    PROVE  <<t.name, Head(t.probes)>> \in Owner /\ Head(t.probes) \in Protocols
<1>1. Head(t.probes) \in Protocols
  BY DEF Probing
<1>2. QED
  BY <1>1 DEF Owner, LegacyOwner

LEMMA ResolveTyped ==
    ASSUME TypeInv, NEW i \in DOMAIN tasks, Resolve(i)
    PROVE  TypeInv'
<1> DEFINE t == tasks[i]
           r == zone[t.name]
           u == [t EXCEPT !.at = "legacy"]
<1>1. Asked(i, "resolve")
  BY DEF Resolve
<1>2. TaskOK(t) /\ t.at = "resolve" /\ t.name \in Name /\ request \in Arguments
  BY <1>1, AskedFrame
<1>3. Asks(t) /\ Probing(t) /\ t.rec = None
  BY <1>2, StageIs
<1>4. t.name \in Owner
  BY <1>2 DEF Owner
<1>5. TaskOK(Read(t, r))
  BY <1>2, <1>3, <1>4, RecordIs, ReadIs DEF TypeInv
<1>6. TaskOK(u)
  <2>1. IsTask(u)
    BY <1>3 DEF Asks, IsTask
  <2>2. /\ u.at = "legacy" /\ u.name = t.name /\ u.probes = t.probes
        /\ u.entry = t.entry /\ u.rec = None
    BY <1>3 DEF Asks, IsTask, TaskFields
  <2> HIDE DEF u
  <2>3. Asks(u) /\ Probing(u)
    BY <1>3, <2>1, <2>2 DEF Asks, Probing
  <2>4. QED
    BY <2>2, <2>3 DEF TaskOK
<1>7. TaskOK(Settled(t, Nobody))
  BY <1>2, NobodyFound
<1>8. CASE /\ Step(i, IF r = None /\ request.legacy /\ t.entry = None
                     THEN u ELSE Read(t, r))
           /\ Undisturbed
  BY <1>1, <1>5, <1>6, <1>8, AskedFrame, StepKeeps
<1>9. CASE Step(i, Settled(t, Nobody)) /\ LostFor(t.name)
  BY <1>1, <1>7, <1>9, AskedFrame, StepKeeps
<1>10. QED
  BY <1>8, <1>9 DEF Resolve

(* A query that looks under another owner.                                 *)
LEMMA OwnedIs ==
    ASSUME NEW t, Asks(t), Probing(t), t.rec = None, NEW o
    PROVE  LET u == [t EXCEPT !.owner = o]
           IN  /\ Asks(u) /\ Probing(u) /\ u.rec = None /\ u.name = t.name
               /\ u.entry = t.entry /\ u.probes = t.probes
<1> DEFINE u == [t EXCEPT !.owner = o]
<1>1. IsTask(u)
  BY DEF Asks, IsTask
<1>2. u.name = t.name /\ u.probes = t.probes /\ u.entry = t.entry /\ u.rec = None
  BY DEF Asks, IsTask, TaskFields
<1> HIDE DEF u
<1>3. Asks(u) /\ Probing(u)
  BY <1>1, <1>2 DEF Asks, Probing
<1>4. QED
  BY <1>2, <1>3 DEF u

LEMMA ResolveLegacyTyped ==
    ASSUME TypeInv, NEW i \in DOMAIN tasks, ResolveLegacy(i)
    PROVE  TypeInv'
<1> DEFINE t == tasks[i]
           o == <<t.name, Head(t.probes)>>
           u == [t EXCEPT !.owner = o]
           r == zone[o]
<1>1. Asked(i, "legacy")
  BY DEF ResolveLegacy
<1>2. TaskOK(t) /\ t.at = "legacy" /\ t.name \in Name /\ request \in Arguments
  BY <1>1, AskedFrame
<1>3. Asks(t) /\ Probing(t) /\ t.rec = None
  BY <1>2, StageIs
<1>4. o \in Owner
  BY <1>2, <1>3, LegacyOwnerIs
<1>5. TaskOK(Read(u, r))
  <2>1. r = None \/ (r \in Records \ {None} /\ IsRecord(r))
    BY <1>4, RecordIs DEF TypeInv
  <2>2. Asks(u) /\ Probing(u) /\ u.rec = None
    BY <1>3, OwnedIs
  <2> HIDE DEF u, r
  <2>3. QED
    BY <1>2, <2>1, <2>2, ReadIs
<1>6. TaskOK(Settled(t, Nobody))
  BY <1>2, NobodyFound
<1>7. CASE Step(i, Read(u, r)) /\ Undisturbed
  BY <1>1, <1>5, <1>7, AskedFrame, StepKeeps
<1>8. CASE Step(i, Settled(t, Nobody)) /\ LostFor(t.name)
  BY <1>1, <1>6, <1>8, AskedFrame, StepKeeps
<1>9. QED
  BY <1>7, <1>8 DEF ResolveLegacy

(* A query that forgets where its alias leads.                             *)
LEMMA LooseIs ==
    ASSUME NEW t, Asks(t), Probing(t), t.rec = None
    PROVE  LET u == [t EXCEPT !.agent = Nobody]
           IN  /\ Asks(u) /\ Probing(u) /\ u.rec = None /\ u.name = t.name
               /\ u.entry = t.entry /\ u.probes = t.probes
<1> DEFINE u == [t EXCEPT !.agent = Nobody]
<1>1. IsTask(u)
  BY DEF Asks, IsTask
<1>2. u.name = t.name /\ u.probes = t.probes /\ u.entry = t.entry /\ u.rec = None
  BY DEF Asks, IsTask, TaskFields
<1> HIDE DEF u
<1>3. Asks(u) /\ Probing(u)
  BY <1>1, <1>2 DEF Asks, Probing
<1>4. QED
  BY <1>2, <1>3 DEF u

LEMMA BehindIs ==
    ASSUME Grounds, NEW o \in Owner
    PROVE  LET r == Behind(zone[o])
           IN  r = None \/ (r \in Records \ {None} /\ IsRecord(r) /\ r.alias = None)
BY RecordIs DEF Behind

LEMMA FollowAliasTyped ==
    ASSUME TypeInv, NEW i \in DOMAIN tasks, FollowAlias(i)
    PROVE  TypeInv'
<1> DEFINE t == tasks[i]
           u == [t EXCEPT !.agent = Nobody]
           r == Behind(zone[t.agent])
<1>1. Asked(i, "alias")
  BY DEF FollowAlias
<1>2. TaskOK(t) /\ t.at = "alias" /\ t.name \in Name /\ request \in Arguments
  BY <1>1, AskedFrame
<1>3. Asks(t) /\ Probing(t) /\ t.rec = None /\ t.agent \in Owner
  BY <1>2, StageIs
<1>4. Asks(u) /\ Probing(u) /\ u.rec = None
  BY <1>3, LooseIs
<1>5. TaskOK(Read(u, r))
  <2>1. r = None \/ (r \in Records \ {None} /\ IsRecord(r))
    BY <1>3, BehindIs DEF TypeInv
  <2> HIDE DEF u, r
  <2>2. QED
    BY <1>2, <1>4, <2>1, ReadIs
<1>6. TaskOK(Settled(t, Nobody))
  BY <1>2, NobodyFound
<1>7. CASE Step(i, Read(u, r)) /\ Undisturbed
  BY <1>1, <1>5, <1>7, AskedFrame, StepKeeps
<1>8. CASE Step(i, Settled(t, Nobody)) /\ LostFor(t.name)
  BY <1>1, <1>6, <1>8, AskedFrame, StepKeeps
<1>9. QED
  BY <1>7, <1>8 DEF FollowAlias

(* The agent of a descriptor, of a text record and of a card.              *)
LEMMA DescribedIs ==
    ASSUME NEW t, Asks(t), NEW a, Brings(t, a), NEW caps, NEW from, NEW pinned, NEW card,
           pinned => caps = a.pin /\ a.pin # None /\ from \in {"cap_uri", "well_known"}
    PROVE  LET b == [a EXCEPT !.caps = caps, !.from = from,
                              !.pinned = pinned, !.card = card]
           IN  Brings(t, b) /\ SameKey(a, b)
<1> DEFINE b == [a EXCEPT !.caps = caps, !.from = from,
                          !.pinned = pinned, !.card = card]
<1>1. IsAgent(b)
  BY DEF Brings, Fresh, Typed, IsAgent
<1>2. /\ SameKey(a, b) /\ b.source = a.source /\ b.endpoint = a.endpoint
      /\ b.dnssec = a.dnssec /\ b.covers = a.covers /\ b.verified = a.verified
      /\ b.dane = a.dane /\ b.status = a.status /\ b.pin = a.pin
      /\ b.caps = caps /\ b.from = from /\ b.pinned = pinned
  BY DEF Brings, Fresh, Typed, IsAgent, AgentFields, SameKey
<1> HIDE DEF b
<1>3. Typed(b) /\ Blank(b)
  BY <1>1, <1>2 DEF Brings, Fresh, Typed, Blank, SameKey
<1>4. Pins(b)
  BY <1>2 DEF Pins
<1>5. QED
  BY <1>2, <1>3, <1>4 DEF Brings, Fresh, SameKey, b

LEMMA TextedIs ==
    ASSUME NEW t, NEW a, Brings(t, a), a.pinned = FALSE
    PROVE  LET b == [a EXCEPT !.caps = "text", !.from = "txt_fallback"]
           IN  Brings(t, b) /\ SameKey(a, b)
<1> DEFINE b == [a EXCEPT !.caps = "text", !.from = "txt_fallback"]
<1>1. IsAgent(b)
  BY DEF Brings, Fresh, Typed, IsAgent
<1>2. /\ SameKey(a, b) /\ b.source = a.source /\ b.endpoint = a.endpoint
      /\ b.dnssec = a.dnssec /\ b.covers = a.covers /\ b.verified = a.verified
      /\ b.dane = a.dane /\ b.status = a.status /\ b.pinned = a.pinned
  BY DEF Brings, Fresh, Typed, IsAgent, AgentFields, SameKey
<1> HIDE DEF b
<1>3. Typed(b) /\ Blank(b) /\ Pins(b)
  BY <1>1, <1>2 DEF Brings, Fresh, Typed, Blank, SameKey, Pins
<1>4. QED
  BY <1>2, <1>3 DEF Brings, Fresh, SameKey, b

LEMMA CardedIs ==
    ASSUME NEW t, NEW a, Brings(t, a), a.pinned = FALSE, NEW e \in Endpoints
    PROVE  Brings(t, [a EXCEPT !.endpoint = e, !.override = TRUE,
                               !.caps = "skills", !.from = "agent_card"])
<1> DEFINE b == [a EXCEPT !.endpoint = e, !.override = TRUE,
                          !.caps = "skills", !.from = "agent_card"]
<1>1. IsAgent(b)
  BY DEF Brings, Fresh, Typed, IsAgent
<1>2. /\ SameKey(a, b) /\ b.source = a.source /\ b.endpoint = e
      /\ b.dnssec = a.dnssec /\ b.covers = a.covers /\ b.verified = a.verified
      /\ b.dane = a.dane /\ b.status = a.status /\ b.pinned = a.pinned
  BY DEF Brings, Fresh, Typed, IsAgent, AgentFields, SameKey
<1> HIDE DEF b
<1>3. Typed(b) /\ Blank(b) /\ Pins(b)
  BY <1>1, <1>2 DEF Brings, Fresh, Typed, Blank, SameKey, Pins
<1>4. QED
  BY <1>2, <1>3 DEF Brings, Fresh, SameKey, b


LEMMA ToTextIs ==
    ASSUME NEW t, TaskOK(t), t.at = "describe", NEW from
    PROVE  LET u == [t EXCEPT !.at = "text", !.agent.from = from]
           IN  /\ TaskOK(u) /\ u.at = "text" /\ u.name = t.name /\ u.entry = t.entry
               /\ u.rec = t.rec /\ u.probes = t.probes /\ SameKey(t.agent, u.agent)
<1> DEFINE b == [t.agent EXCEPT !.from = from]
           u == [t EXCEPT !.at = "text", !.agent.from = from]
<1>1. Asks(t) /\ Describing(t)
  BY StageIs
<1>2. u = [t EXCEPT !.at = "text", !.agent = b]
  BY <1>1 DEF Asks, IsTask, TaskFields
<1>3. IsTask(u)
  BY <1>1, <1>2 DEF Asks, IsTask
<1>4. /\ u.at = "text" /\ u.name = t.name /\ u.entry = t.entry
      /\ u.rec = t.rec /\ u.probes = t.probes /\ u.agent = b
  BY <1>1, <1>2 DEF Asks, IsTask, TaskFields
<1>5. IsAgent(t.agent) /\ Fresh(t.agent) /\ t.agent.pinned = FALSE
  BY <1>1 DEF Describing, Brings, Fresh, Typed
<1>6. IsAgent(b)
  BY <1>5 DEF IsAgent
<1>7. LET a == t.agent
      IN  /\ SameKey(a, b) /\ b.source = a.source /\ b.endpoint = a.endpoint
          /\ b.dnssec = a.dnssec /\ b.covers = a.covers /\ b.verified = a.verified
          /\ b.dane = a.dane /\ b.status = a.status /\ b.pinned = a.pinned
          /\ b.pin = a.pin
  BY <1>5 DEF IsAgent, AgentFields, SameKey
<1> HIDE DEF b, u
<1>8. Fresh(b) /\ b.pinned = FALSE /\ b.pin = t.agent.pin
  BY <1>5, <1>6, <1>7 DEF Fresh, Typed, Blank, Pins, SameKey
<1>9. Brings(u, b)
  BY <1>1, <1>4, <1>7, <1>8 DEF Brings, Describing, SameKey
<1>10. Asks(u) /\ Probing(u)
  BY <1>1, <1>3, <1>4 DEF Asks, Describing, Probing
<1>11. Describing(u)
  BY <1>1, <1>4, <1>8, <1>9, <1>10 DEF Describing
<1>12. TaskOK(u)
  BY <1>4, <1>10, <1>11 DEF TaskOK
<1>13. QED
  BY <1>4, <1>7, <1>12 DEF u

(* What a query that has read its descriptor does next.                    *)
AfterDescriptor(t, doc) ==
    LET Describes(caps, from, pinned) ==
            Settled(t, [t.agent EXCEPT !.caps = caps, !.from = from,
                                       !.pinned = pinned, !.card = doc.skills])
    IN  IF t.rec.pin \notin {None, doc.id} THEN Settled(t, Nobody)
        ELSE IF doc.lists THEN Describes(doc.id, t.rec.locator, t.rec.pin # None)
        ELSE IF doc.skills THEN Describes("skills", "agent_card", FALSE)
        ELSE [t EXCEPT !.at = "text", !.agent.from = "none"]

Unreachable(t) == [t EXCEPT !.at = "text", !.agent.from = "descriptor_unreachable"]

LEMMA AfterDescriptorIs ==
    ASSUME request \in Arguments, NEW t, TaskOK(t), t.at = "describe",
           t.rec.locator \in {"cap_uri", "well_known", None}, NEW doc
    PROVE  LET u == AfterDescriptor(t, doc)
           IN  /\ TaskOK(u) /\ u.name = t.name /\ u.entry = t.entry
               /\ t.entry = None =>
                     IF t.rec.pin \notin {None, doc.id}
                     THEN u.at = "done" /\ u.agent = Nobody
                     ELSE /\ SameKey(t.agent, u.agent) /\ Brings(t, u.agent)
                          /\ u.at = "done" \/
                             (u.at = "text" /\ u.rec = t.rec /\ u.probes = t.probes)
<1> DEFINE u == AfterDescriptor(t, doc)
           told(caps, from, pinned) ==
              [t.agent EXCEPT !.caps = caps, !.from = from,
                              !.pinned = pinned, !.card = doc.skills]
<1>1. /\ Asks(t) /\ Probing(t) /\ Describing(t) /\ Brings(t, t.agent)
      /\ t.rec.locator # None
  BY StageIs DEF Describing
<1>2. CASE t.rec.pin \notin {None, doc.id}
  <2>1. u = Settled(t, Nobody)
    BY <1>2 DEF AfterDescriptor
  <2>2. QED
    BY <1>2, <2>1, NobodyFound
<1>3. CASE t.rec.pin \in {None, doc.id} /\ doc.lists
  <2> DEFINE b == told(doc.id, t.rec.locator, t.rec.pin # None)
  <2>1. u = Settled(t, b)
    BY <1>3 DEF AfterDescriptor
  <2>2. t.rec.pin # None => doc.id = t.agent.pin /\ t.agent.pin # None
    BY <1>1, <1>3 DEF Describing
  <2>3. Brings(t, b) /\ SameKey(t.agent, b)
    BY <1>1, <2>2, DescribedIs
  <2> HIDE DEF b
  <2>4. /\ TaskOK(u) /\ u.name = t.name /\ u.entry = t.entry
        /\ t.entry = None => u.at = "done" /\ u.agent = b
    BY <1>1, <2>1, <2>3, SettledIs
  <2>5. QED
    BY <1>3, <2>3, <2>4
<1>4. CASE t.rec.pin \in {None, doc.id} /\ ~doc.lists /\ doc.skills
  <2> DEFINE b == told("skills", "agent_card", FALSE)
  <2>1. u = Settled(t, b)
    BY <1>4 DEF AfterDescriptor
  <2>3. Brings(t, b) /\ SameKey(t.agent, b)
    BY <1>1, DescribedIs
  <2> HIDE DEF b
  <2>4. /\ TaskOK(u) /\ u.name = t.name /\ u.entry = t.entry
        /\ t.entry = None => u.at = "done" /\ u.agent = b
    BY <1>1, <2>1, <2>3, SettledIs
  <2>5. QED
    BY <1>4, <2>3, <2>4
<1>5. CASE t.rec.pin \in {None, doc.id} /\ ~doc.lists /\ ~doc.skills
  <2>1. u = [t EXCEPT !.at = "text", !.agent.from = "none"]
    BY <1>5 DEF AfterDescriptor
  <2> DEFINE v == [t EXCEPT !.at = "text", !.agent.from = "none"]
  <2>a. /\ TaskOK(v) /\ v.at = "text" /\ v.name = t.name /\ v.entry = t.entry
        /\ v.rec = t.rec /\ v.probes = t.probes /\ SameKey(t.agent, v.agent)
    BY ToTextIs
  <2> HIDE DEF v
  <2>2. /\ TaskOK(u) /\ u.at = "text" /\ u.name = t.name /\ u.entry = t.entry
        /\ u.rec = t.rec /\ u.probes = t.probes /\ SameKey(t.agent, u.agent)
    BY <2>1, <2>a DEF v
  <2>3. Brings(t, u.agent)
    BY <2>2, StageIs DEF Describing, Brings
  <2>4. QED
    BY <1>5, <2>2, <2>3
<1>6. QED
  BY <1>2, <1>3, <1>4, <1>5

LEMMA DescribeDoes ==
    ASSUME NEW i, Describe(i)
    PROVE  LET t == tasks[i]
               doc == world.document[t.rec.endpoint]
           IN  /\ Asked(i, "describe")
               /\ \/ doc # None /\ Step(i, AfterDescriptor(t, doc)) /\ Undisturbed
                  \/ /\ Step(i, Unreachable(t))
                     /\ IF doc = None THEN Undisturbed ELSE LostFor(t.name)
BY DEF Describe, AfterDescriptor, Unreachable

LEMMA DescribeTyped ==
    ASSUME TypeInv, NEW i \in DOMAIN tasks, Describe(i)
    PROVE  TypeInv'
<1> DEFINE t == tasks[i]
           doc == world.document[t.rec.endpoint]
<1>1. Asked(i, "describe")
  BY DescribeDoes
<1>2. TaskOK(t) /\ t.at = "describe" /\ request \in Arguments
  BY <1>1, AskedFrame
<1>3. t.rec \in Records \ {None}
  BY <1>2, StageIs DEF Describing
<1>4. t.rec.locator \in {"cap_uri", "well_known", None}
  BY <1>3, ScenesAssumption DEF IsRecord
<1>5. TaskOK(AfterDescriptor(t, doc)) /\ TaskOK(Unreachable(t))
  BY <1>2, <1>4, AfterDescriptorIs, ToTextIs DEF Unreachable
<1>6. CASE Step(i, AfterDescriptor(t, doc)) /\ Undisturbed
  BY <1>1, <1>5, <1>6, AskedFrame, StepKeeps
<1>7. CASE Step(i, Unreachable(t)) /\ (Undisturbed \/ LostFor(t.name))
  BY <1>1, <1>5, <1>7, AskedFrame, StepKeeps
<1>8. QED
  BY <1>6, <1>7, DescribeDoes

LEMMA ReadTextTyped ==
    ASSUME TypeInv, NEW i \in DOMAIN tasks, ReadText(i)
    PROVE  TypeInv'
<1> DEFINE t == tasks[i]
           b == [t.agent EXCEPT !.caps = "text", !.from = "txt_fallback"]
<1>1. Asked(i, "text")
  BY DEF ReadText
<1>2. TaskOK(t) /\ t.at = "text" /\ request \in Arguments
  BY <1>1, AskedFrame
<1>3. Asks(t) /\ Probing(t) /\ Brings(t, t.agent) /\ t.agent.pinned = FALSE
  BY <1>2, StageIs DEF Describing
<1>4. Brings(t, b)
  BY <1>3, TextedIs
<1>5. TaskOK(Settled(t, b)) /\ TaskOK(Settled(t, t.agent))
  <2> HIDE DEF b
  <2>1. QED
    BY <1>2, <1>3, <1>4, SettledIs
<1>6. CASE Step(i, Settled(t, b)) /\ Undisturbed
  BY <1>1, <1>5, <1>6, AskedFrame, StepKeeps
<1>7. CASE Step(i, Settled(t, t.agent)) /\ ((Lost(1) /\ UNCHANGED disturbed) \/ Undisturbed)
  BY <1>1, <1>5, <1>7, AskedFrame, StepKeeps
<1>8. QED
  BY <1>6, <1>7 DEF ReadText

LEMMA ReadArdCardTyped ==
    ASSUME TypeInv, NEW i \in DOMAIN tasks, ReadArdCard(i)
    PROVE  TypeInv'
<1> DEFINE t == tasks[i]
           b == [t.agent EXCEPT !.endpoint = t.entry.card, !.override = TRUE,
                                !.caps = "skills", !.from = "agent_card"]
<1>1. Asked(i, "card")
  BY DEF ReadArdCard
<1>2. TaskOK(t) /\ t.at = "card" /\ t.name \in Name
  BY <1>1, AskedFrame
<1>3. /\ Asks(t) /\ Brings(t, t.agent) /\ t.agent.pinned = FALSE
      /\ t.entry # None /\ t.entry.card # None
  BY <1>2, StageIs
<1>4. t.entry.card \in Endpoints /\ IsEntry(t.entry) /\ t.name = t.entry.name
  BY <1>3 DEF Asks, IsEntry
<1>5. Brings(t, b)
  BY <1>3, <1>4, CardedIs
<1>6. TaskOK(Answered(t.name, t.entry, b)) /\ TaskOK(Answered(t.name, t.entry, t.agent))
  <2> HIDE DEF b
  <2>1. QED
    BY <1>2, <1>3, <1>4, <1>5, AnsweredIs DEF Brings
<1>7. CASE Step(i, Answered(t.name, t.entry, b)) /\ Undisturbed
  BY <1>1, <1>6, <1>7, AskedFrame, StepKeeps
<1>8. CASE Step(i, Answered(t.name, t.entry, t.agent)) /\ Lost(1) /\ UNCHANGED disturbed
  BY <1>1, <1>6, <1>8, AskedFrame, StepKeeps
<1>9. QED
  BY <1>7, <1>8 DEF ReadArdCard

LEMMA QueryTyped ==
    ASSUME TypeInv, NEW i \in DOMAIN tasks, Query(i)
    PROVE  TypeInv'
BY ResolveTyped, ResolveLegacyTyped, FollowAliasTyped, DescribeTyped, ReadTextTyped,
   ReadArdCardTyped DEF Query

-----------------------------------------------------------------------------
(* The gates. What each makes of an agent, and what it leaves.             *)

Alike(a, b) ==
    /\ IsAgent(b) /\ SameKey(a, b) /\ b.source = a.source
    /\ b.endpoint = a.endpoint /\ b.params = a.params /\ b.sig = a.sig
    /\ b.pin = a.pin /\ b.pinned = a.pinned

(* The verdict of an agent is one verdict.                                 *)
Sound(a) ==
    /\ a.verified = "yes" <=> a.status \in {"verified", "endpoint_only"}
    /\ a.verified = "no" <=> a.status \in {"invalid", "unbound"}
    /\ a.covers <=> a.status = "verified"
    /\ a.verified = "yes" =>
          /\ a.sig.by = "zone"
          /\ <<a.sig.name, a.sig.endpoint, a.sig.speaks>>
                = <<a.name, a.endpoint, a.protocol>>
          /\ a.sig.params \in {None, a.params}

SameVerdict(a, b) ==
    /\ b.verified = a.verified /\ b.status = a.status /\ b.covers = a.covers

LEMMA VouchedIs ==
    ASSUME NEW a, IsAgent(a), NEW x
    PROVE  LET b == [a EXCEPT !.trust = x]
           IN  /\ Alike(a, b) /\ SameVerdict(a, b) /\ b.trust = x
               /\ b.dnssec = a.dnssec /\ b.dane = a.dane
               /\ b.caps = a.caps /\ b.from = a.from
BY DEF IsAgent, AgentFields, Alike, SameKey, SameVerdict

LEMMA SecuredIs ==
    ASSUME NEW a, IsAgent(a), NEW x
    PROVE  LET b == [a EXCEPT !.dnssec = x]
           IN  /\ Alike(a, b) /\ SameVerdict(a, b) /\ b.trust = a.trust
               /\ b.dnssec = x /\ b.dane = a.dane
               /\ b.caps = a.caps /\ b.from = a.from
BY DEF IsAgent, AgentFields, Alike, SameKey, SameVerdict

LEMMA DanedIs ==
    ASSUME NEW a, IsAgent(a), NEW x
    PROVE  LET b == [a EXCEPT !.dane = x]
           IN  /\ Alike(a, b) /\ SameVerdict(a, b) /\ b.trust = a.trust
               /\ b.dnssec = a.dnssec /\ b.dane = x
               /\ b.caps = a.caps /\ b.from = a.from
BY DEF IsAgent, AgentFields, Alike, SameKey, SameVerdict

LEMMA StatusIs ==
    ASSUME NEW a, IsAgent(a), NEW x
    PROVE  LET b == [a EXCEPT !.status = x]
           IN  /\ Alike(a, b) /\ b.trust = a.trust
               /\ b.verified = a.verified /\ b.status = x /\ b.covers = a.covers
               /\ b.dnssec = a.dnssec /\ b.dane = a.dane
               /\ b.caps = a.caps /\ b.from = a.from
BY DEF IsAgent, AgentFields, Alike, SameKey

(* b is a with the verdict v, s, c.                                        *)
Judges(a, b, v, s, c) ==
    /\ Alike(a, b) /\ b.trust = a.trust
    /\ b.verified = v /\ b.status = s /\ b.covers = c
    /\ b.dnssec = a.dnssec /\ b.dane = a.dane
    /\ b.caps = a.caps /\ b.from = a.from

LEMMA VerdictIs ==
    ASSUME NEW a, IsAgent(a), NEW v, NEW s, NEW c
    PROVE  Judges(a, Verdict(a, v, s, c), v, s, c)
BY DEF Judges, Verdict, IsAgent, AgentFields, Alike, SameKey

LEMMA CardIs ==
    ASSUME NEW a, IsAgent(a)
    PROVE  LET b == ApplyCard(a)
           IN  /\ Alike(a, b) /\ SameVerdict(a, b) /\ b.trust = a.trust
               /\ b.dnssec = a.dnssec /\ b.dane = a.dane
               /\ Pins(a) => Pins(b)
<1> DEFINE b == ApplyCard(a)
           c == [a EXCEPT !.caps = "skills", !.from = "agent_card"]
<1>1. CASE a.from \in {"cap_uri", "well_known"}
  <2>1. b = a
    BY <1>1 DEF ApplyCard
  <2>2. QED
    BY <2>1 DEF Alike, SameKey, SameVerdict
<1>2. CASE a.from \notin {"cap_uri", "well_known"}
  <2>1. b = c
    BY <1>2 DEF ApplyCard
  <2>2. /\ Alike(a, c) /\ SameVerdict(a, c) /\ c.trust = a.trust
        /\ c.dnssec = a.dnssec /\ c.dane = a.dane
    BY DEF IsAgent, AgentFields, Alike, SameKey, SameVerdict
  <2> HIDE DEF c
  <2>3. Pins(a) => a.pinned # TRUE /\ (a.pinned => FALSE)
    BY <1>2 DEF Pins
  <2>4. Pins(a) => Pins(c)
    BY <2>2, <2>3 DEF Pins, Alike
  <2>5. QED
    BY <2>1, <2>2, <2>4
<1>3. QED
  BY <1>1, <1>2

(* What an agent that is alike keeps.                                      *)
LEMMA AlikeKeeps ==
    ASSUME NEW a, Typed(a), NEW b, Alike(a, b)
    PROVE  /\ b.dnssec = a.dnssec /\ b.dane = a.dane /\ SameVerdict(a, b) => Typed(b)
           /\ b.caps = a.caps /\ b.from = a.from /\ Pins(a) => Pins(b)
           /\ SameVerdict(a, b) /\ Sound(a) => Sound(b)
<1>1. b.dnssec = a.dnssec /\ b.dane = a.dane /\ SameVerdict(a, b) => Typed(b)
  BY DEF Typed, Alike, SameKey, SameVerdict
<1>2. b.caps = a.caps /\ b.from = a.from /\ Pins(a) => Pins(b)
  BY DEF Pins, Alike
<1>3. SameVerdict(a, b) /\ Sound(a) => Sound(b)
  BY DEF Sound, SameVerdict, Alike, SameKey
<1>4. QED
  BY <1>1, <1>2, <1>3

LEMMA JudgedIs ==
    ASSUME NEW a, IsAgent(a)
    PROVE  \E v \in {"yes", "no"}, c \in BOOLEAN,
              s \in {"invalid", "unbound", "endpoint_only", "verified"} :
                 Judges(a, Judged(a), v, s, c) /\ Sound(Judged(a))
<1> DEFINE s == a.sig
           b == Judged(a)
<1>1. CASE s.by # "zone"
  <2>1. Judges(a, b, "no", "invalid", FALSE)
    BY <1>1, VerdictIs DEF Judged
  <2> HIDE DEF b
  <2>2. Sound(b)
    BY <2>1 DEF Sound, Judges
  <2>3. QED
    BY <2>1, <2>2 DEF b
<1>2. CASE s.by = "zone" /\ ~Binds(s, a)
  <2>1. Judges(a, b, "no", "unbound", FALSE)
    BY <1>2, VerdictIs DEF Judged
  <2> HIDE DEF b
  <2>2. Sound(b)
    BY <2>1 DEF Sound, Judges
  <2>3. QED
    BY <2>1, <2>2 DEF b
<1>3. CASE s.by = "zone" /\ Binds(s, a) /\ s.params = None
  <2>1. Judges(a, b, "yes", "endpoint_only", FALSE)
    BY <1>3, VerdictIs DEF Judged
  <2> HIDE DEF b
  <2>2. Sound(b)
    BY <1>3, <2>1 DEF Sound, Judges, Alike, SameKey, Binds
  <2>3. QED
    BY <2>1, <2>2 DEF b
<1>4. CASE s.by = "zone" /\ Binds(s, a) /\ s.params # None /\ s.params = a.params
  <2>1. Judges(a, b, "yes", "verified", TRUE)
    BY <1>4, VerdictIs DEF Judged
  <2> HIDE DEF b
  <2>2. Sound(b)
    BY <1>4, <2>1 DEF Sound, Judges, Alike, SameKey, Binds
  <2>3. QED
    BY <2>1, <2>2 DEF b
<1>5. CASE s.by = "zone" /\ Binds(s, a) /\ s.params # None /\ s.params # a.params
  <2>1. Judges(a, b, "no", "unbound", FALSE)
    BY <1>5, VerdictIs DEF Judged
  <2> HIDE DEF b
  <2>2. Sound(b)
    BY <2>1 DEF Sound, Judges
  <2>3. QED
    BY <2>1, <2>2 DEF b
<1>6. QED
  BY <1>1, <1>2, <1>3, <1>4, <1>5

-----------------------------------------------------------------------------
(* The merge.                                                              *)

Brought == [i \in DOMAIN tasks |-> tasks[i].agent]

(* The first agents of their keys.                                         *)
Firsts ==
    {i \in DOMAIN Brought :
        /\ Brought[i] # Nobody
        /\ \A j \in 1..(i - 1) : ~SameKey(Brought[j], Brought[i])}

LEMMA BroughtAre ==
    ASSUME TypeInv, \A i \in DOMAIN tasks : tasks[i].at = "done"
    PROVE  /\ \E n \in Nat : DOMAIN tasks = 1..n /\ DOMAIN Brought = 1..n
           /\ \A i \in DOMAIN tasks : /\ Brought[i] = tasks[i].agent
                                      /\ Brought[i] = Nobody \/ Brings(tasks[i], Brought[i])
           /\ Firsts \subseteq DOMAIN tasks
<1>1. PICK n \in Nat : DOMAIN tasks = 1..n
  BY DEF TypeInv, Queries, IsList
<1>2. DOMAIN Brought = DOMAIN tasks
  BY DEF Brought
<1>3. \A i \in DOMAIN tasks : Brought[i] = tasks[i].agent
  BY DEF Brought
<1>4. \A i \in DOMAIN tasks : tasks[i].agent = Nobody \/ Brings(tasks[i], tasks[i].agent)
  BY StageIs DEF TypeInv, Queries
<1>5. QED
  BY <1>1, <1>2, <1>3, <1>4 DEF Firsts

LEMMA NobodyHasNoName ==
    ASSUME NEW a, a.name \in Name
    PROVE  a # Nobody
<1>1. Nobody.name = None
  BY DEF Nobody
<1>2. None \notin Name
  BY DiscoveryAssumption DEF Owner
<1>3. QED
  BY <1>1, <1>2

(* Of each key that was brought there is a first, and only one.            *)
LEMMA FirstsAre ==
    ASSUME TypeInv, \A i \in DOMAIN tasks : tasks[i].at = "done"
    PROVE  /\ \A i \in DOMAIN tasks : Brought[i] # Nobody =>
                 \E j \in Firsts : SameKey(Brought[j], Brought[i])
           /\ \A i, j \in Firsts : SameKey(Brought[i], Brought[j]) => i = j
<1>1. PICK n \in Nat : DOMAIN tasks = 1..n /\ DOMAIN Brought = 1..n
  BY BroughtAre
<1>2. \A i \in 1..n : Brought[i] # Nobody => Brought[i].name \in Name
  BY <1>1, BroughtAre DEF Brings, Fresh, Typed
<1>3. ASSUME NEW i \in 1..n, Brought[i] # Nobody
      PROVE  \E j \in Firsts : SameKey(Brought[j], Brought[i])
  <2> DEFINE T == {j \in 1..n : SameKey(Brought[j], Brought[i])}
  <2>1. i \in T /\ T \subseteq Nat
    BY DEF SameKey
  <2>2. PICK j \in T : \A l \in T : j <= l
    BY <2>1, LeastNat
  <2>3. j \in 1..n /\ SameKey(Brought[j], Brought[i])
    BY <2>2
  <2>4. Brought[j] # Nobody
    BY <1>2, <1>3, <2>3, NobodyHasNoName DEF SameKey
  <2>5. ASSUME NEW l \in 1..(j - 1), SameKey(Brought[l], Brought[j])
        PROVE  FALSE
    <3>1. l \in 1..n /\ l < j
      BY <2>3
    <3>2. SameKey(Brought[l], Brought[i])
      BY <2>3, <2>5 DEF SameKey
    <3>3. l \in T
      BY <3>1, <3>2
    <3>4. j <= l
      BY <2>2, <3>3
    <3>5. QED
      BY <2>3, <3>1, <3>4
  <2> HIDE DEF T
  <2>6. j \in Firsts
    BY <1>1, <2>3, <2>4, <2>5 DEF Firsts
  <2>7. QED
    BY <2>3, <2>6
<1>4. ASSUME NEW i \in Firsts, NEW j \in Firsts, SameKey(Brought[i], Brought[j])
      PROVE  i = j
  <2>1. i \in 1..n /\ j \in 1..n
    BY <1>1 DEF Firsts
  <2>2. ~(i < j)
    <3>1. i < j => i \in 1..(j - 1)
      BY <2>1
    <3>2. QED
      BY <1>4, <3>1 DEF Firsts
  <2>3. ~(j < i)
    <3>1. j < i => j \in 1..(i - 1)
      BY <2>1
    <3>2. SameKey(Brought[j], Brought[i])
      BY <1>4 DEF SameKey
    <3>3. QED
      BY <3>1, <3>2 DEF Firsts
  <2>4. QED
    BY <2>1, <2>2, <2>3
<1>5. QED
  BY <1>1, <1>3, <1>4

(* discover: a name without a protocol picks among what was found.         *)
Wants(a) ==
    request.name = None \/ request.http \/ request.protocol # None
    \/ a.name = request.name

(* b is the agent a that a query brought, as the merge hands it on.        *)
HandedOn(a, b) ==
    /\ Alike(a, b) /\ SameVerdict(a, b)
    /\ b.trust = IF request.http THEN trust ELSE None
    /\ b.dnssec = a.dnssec /\ b.dane = a.dane
    /\ b.caps = a.caps /\ b.from = a.from

(* Each member of t is one that is wanted of s, and each of those once.    *)
WantedOf(t, s) ==
    \E g \in [DOMAIN t -> DOMAIN s] :
        /\ \A m \in DOMAIN t : t[m] = s[g[m]] /\ Wants(s[g[m]])
        /\ \A m, l \in DOMAIN t : g[m] = g[l] => m = l
        /\ \A i \in DOMAIN s : Wants(s[i]) => \E m \in DOMAIN t : g[m] = i

(* What a filter by name leaves of a list.                                 *)
LEMMA NamedIs ==
    ASSUME NEW s, IsList(s)
    PROVE  IsList(Named(s)) /\ WantedOf(Named(s), s)
<1>1. CASE request.name = None \/ request.http \/ request.protocol # None
  <2>1. Named(s) = s
    BY <1>1 DEF Named
  <2> DEFINE g == [m \in DOMAIN s |-> m]
  <2>2. g \in [DOMAIN s -> DOMAIN s] /\ \A m \in DOMAIN s : g[m] = m /\ Wants(s[m])
    BY <1>1 DEF Wants
  <2> HIDE DEF g
  <2>3. WantedOf(s, s)
    BY <2>2 DEF WantedOf
  <2>4. QED
    BY <2>1, <2>3
<1>2. CASE request.name # None /\ ~request.http /\ request.protocol = None
  <2> DEFINE kept == {i \in DOMAIN s : s[i].name = request.name}
  <2>1. Named(s) = Pick(s, kept)
    BY <1>2 DEF Named
  <2>2. PICK n \in Nat : DOMAIN s = 1..n
    BY DEF IsList
  <2>3. kept \in SUBSET (1..n) /\ kept \in SUBSET (DOMAIN s)
    BY <2>2
  <2>4. \A i \in DOMAIN s : i \in kept <=> Wants(s[i])
    BY <1>2 DEF Wants
  <2> HIDE DEF kept
  <2>5. PICK g : Selects(g, s, kept)
    BY <2>3, PickIs
  <2>6. IsList(Named(s)) /\ DOMAIN Named(s) = 1..Cardinality(kept)
    BY <2>1, <2>3, PickedIsList
  <2>7. Cardinality(kept) \in Nat
    <3>1. Cardinality(kept) \in 0..n
      BY <2>3, RankIs
    <3>2. QED
      BY <3>1
  <2>8. g \in [DOMAIN Named(s) -> DOMAIN s]
    BY <2>3, <2>5, <2>6 DEF Selects
  <2>9. \A m \in DOMAIN Named(s) : Named(s)[m] = s[g[m]] /\ Wants(s[g[m]])
    <3>1. Named(s) = [m \in 1..Cardinality(kept) |-> s[g[m]]]
      BY <2>1, <2>5 DEF Selects
    <3>2. \A m \in 1..Cardinality(kept) : g[m] \in kept
      BY <2>5 DEF Selects
    <3>3. QED
      BY <2>3, <2>4, <2>6, <3>1, <3>2
  <2>10. \A m, l \in DOMAIN Named(s) : g[m] = g[l] => m = l
    <3>1. \A m, l \in 1..Cardinality(kept) : m < l => g[m] < g[l]
      BY <2>5 DEF Selects
    <3>2. \A m \in 1..Cardinality(kept) : g[m] \in Nat
      BY <2>2, <2>6, <2>8
    <3>3. QED
      BY <2>6, <2>7, <3>1, <3>2
  <2>11. \A i \in DOMAIN s : Wants(s[i]) => \E m \in DOMAIN Named(s) : g[m] = i
    BY <2>4, <2>5, <2>6 DEF Selects
  <2>12. QED
    BY <2>6, <2>8, <2>9, <2>10, <2>11 DEF WantedOf
<1>3. QED
  BY <1>1, <1>2


(* The merge hands on one agent of each key that was brought and is wanted.*)
LEMMA GatherFinds ==
    ASSUME TypeInv, Gather
    PROVE  /\ IsList(agents')
           /\ \A m \in DOMAIN agents' : \E i \in DOMAIN tasks :
                 /\ Brings(tasks[i], tasks[i].agent) /\ Wants(tasks[i].agent)
                 /\ HandedOn(tasks[i].agent, agents'[m])
           /\ \A i \in DOMAIN tasks :
                 (tasks[i].agent # Nobody /\ Wants(tasks[i].agent)) =>
                    \E m \in DOMAIN agents' : SameKey(agents'[m], tasks[i].agent)
           /\ \A m, l \in DOMAIN agents' : SameKey(agents'[m], agents'[l]) => m = l
<1> DEFINE why == IF request.http THEN trust ELSE None
           found == Pick(Brought, Firsts)
           vouched == [k \in DOMAIN found |-> [found[k] EXCEPT !.trust = why]]
<1>0. \A i \in DOMAIN tasks : tasks[i].at = "done"
  BY DEF Gather
<1>1. agents' = Named(vouched)
  <2>1. Collect(Brought) = found
    BY DEF Collect, Firsts, SameKey
  <2>2. QED
    BY <2>1 DEF Gather, Brought
<1>2. PICK n \in Nat : DOMAIN tasks = 1..n /\ DOMAIN Brought = 1..n
  BY <1>0, BroughtAre
<1>3. Firsts \in SUBSET (1..n)
  BY <1>2 DEF Firsts
<1>4. Cardinality(Firsts) \in Nat
  <2>1. Cardinality(Firsts) \in 0..n
    BY <1>2, <1>3, RankIs
  <2>2. QED
    BY <2>1
<1>5. PICK f : Selects(f, Brought, Firsts)
  BY <1>2, <1>3, PickIs
<1> DEFINE K == 1..Cardinality(Firsts)
<1>6. /\ f \in [K -> Firsts] /\ \A k \in K : found[k] = Brought[f[k]]
      /\ DOMAIN found = K /\ \A i \in Firsts : \E k \in K : f[k] = i
  BY <1>5 DEF Selects
<1>7. \A k, l \in K : f[k] = f[l] => k = l
  <2>1. \A k, l \in K : k < l => f[k] < f[l]
    BY <1>5 DEF Selects
  <2>x. \A i \in Firsts : i \in Nat
    BY <1>3
  <2>2. \A k \in K : f[k] \in Nat
    BY <1>6, <2>x
  <2>3. QED
    BY <1>4, <2>1, <2>2
<1>8. ASSUME NEW k \in K
      PROVE  /\ Brings(tasks[f[k]], tasks[f[k]].agent)
             /\ HandedOn(tasks[f[k]].agent, vouched[k])
  <2>1. f[k] \in Firsts /\ f[k] \in DOMAIN tasks
    BY <1>2, <1>3, <1>6
  <2>2. /\ Brought[f[k]] = tasks[f[k]].agent /\ Brought[f[k]] # Nobody
        /\ Brings(tasks[f[k]], Brought[f[k]])
    BY <1>0, <2>1, BroughtAre DEF Firsts
  <2>3. vouched[k] = [found[k] EXCEPT !.trust = why]
    BY <1>6
  <2>4. found[k] = tasks[f[k]].agent
    BY <1>6, <2>2
  <2>5. IsAgent(tasks[f[k]].agent)
    BY <2>2 DEF Brings, Fresh, Typed
  <2> HIDE DEF found, vouched
  <2>6. HandedOn(tasks[f[k]].agent, [tasks[f[k]].agent EXCEPT !.trust = why])
    BY <2>5, VouchedIs DEF HandedOn
  <2>7. QED
    BY <2>2, <2>3, <2>4, <2>6
<1>9. DOMAIN vouched = K /\ IsList(vouched)
  <2>1. DOMAIN vouched = K /\ vouched = [k \in K |-> vouched[k]]
    BY <1>6
  <2> HIDE DEF vouched
  <2>2. QED
    BY <1>4, <2>1 DEF IsList
<1> HIDE DEF found, vouched
<1>10. PICK g \in [DOMAIN agents' -> K] :
          /\ \A m \in DOMAIN agents' :
                agents'[m] = vouched[g[m]] /\ Wants(vouched[g[m]])
          /\ \A m, l \in DOMAIN agents' : g[m] = g[l] => m = l
          /\ \A k \in K : Wants(vouched[k]) => \E m \in DOMAIN agents' : g[m] = k
  <2>1. WantedOf(agents', vouched)
    BY <1>1, <1>9, NamedIs
  <2>2. QED
    BY <1>9, <2>1 DEF WantedOf
<1>11. \A k \in K : /\ SameKey(vouched[k], Brought[f[k]])
                    /\ Wants(vouched[k]) <=> Wants(tasks[f[k]].agent)
  <2>1. \A k \in K : SameKey(tasks[f[k]].agent, vouched[k])
    BY <1>8 DEF HandedOn, Alike
  <2>2. \A k \in K : Brought[f[k]] = tasks[f[k]].agent
    BY <1>0, <1>2, <1>3, <1>6, BroughtAre
  <2>3. QED
    BY <2>1, <2>2 DEF SameKey, Wants
<1>12. IsList(agents')
  BY <1>1, <1>9, NamedIs
<1>13. ASSUME NEW m \in DOMAIN agents'
       PROVE  \E i \in DOMAIN tasks :
                 /\ Brings(tasks[i], tasks[i].agent) /\ Wants(tasks[i].agent)
                 /\ HandedOn(tasks[i].agent, agents'[m])
  <2>1. g[m] \in K /\ f[g[m]] \in DOMAIN tasks
    BY <1>2, <1>3, <1>6, <1>10
  <2>2. agents'[m] = vouched[g[m]] /\ Wants(vouched[g[m]])
    BY <1>10
  <2>3. QED
    BY <1>8, <1>11, <2>1, <2>2
<1>14. ASSUME NEW i \in DOMAIN tasks, tasks[i].agent # Nobody, Wants(tasks[i].agent)
       PROVE  \E m \in DOMAIN agents' : SameKey(agents'[m], tasks[i].agent)
  <2>1. Brought[i] = tasks[i].agent
    BY <1>0, BroughtAre
  <2>2. PICK j \in Firsts : SameKey(Brought[j], Brought[i])
    BY <1>0, <1>14, <2>1, FirstsAre
  <2>3. PICK k \in K : f[k] = j
    BY <1>6
  <2>4. SameKey(vouched[k], tasks[i].agent)
    BY <1>11, <2>1, <2>2, <2>3 DEF SameKey
  <2>5. Wants(vouched[k])
    BY <1>14, <2>4 DEF Wants, SameKey
  <2>6. PICK m \in DOMAIN agents' : g[m] = k
    BY <1>10, <2>5
  <2>7. QED
    BY <1>10, <2>4, <2>6
<1>15. ASSUME NEW m \in DOMAIN agents', NEW l \in DOMAIN agents',
              SameKey(agents'[m], agents'[l])
       PROVE  m = l
  <2>1. /\ g[m] \in K /\ g[l] \in K
        /\ agents'[m] = vouched[g[m]] /\ agents'[l] = vouched[g[l]]
    BY <1>10
  <2>2. SameKey(Brought[f[g[m]]], Brought[f[g[l]]])
    BY <1>11, <1>15, <2>1 DEF SameKey
  <2>3. f[g[m]] \in Firsts /\ f[g[l]] \in Firsts
    BY <1>6, <2>1
  <2>4. f[g[m]] = f[g[l]]
    BY <1>0, <2>2, <2>3, FirstsAre
  <2>5. g[m] = g[l]
    BY <1>7, <2>1, <2>4
  <2>6. QED
    BY <1>10, <2>5
<1>16. QED
  BY <1>12, <1>13, <1>14, <1>15

-----------------------------------------------------------------------------
(* What the gates have made of the agents so far.                          *)

Unjudged(a) ==
    /\ a.verified = "unknown" /\ a.status = None /\ a.covers = FALSE
    /\ a.dane = "unknown"

(* DANE speaks for an agent only with DNSSEC.                              *)
Secure(a) == a.dane # "unknown" => a.dnssec

(* A signature that was to be verified has a verdict, or will have one; an *)
(* empty text has none.                                                    *)
Decided(a, waits) ==
    /\ a.status = "not_signed" => a.sig = None
    /\ a.status = None => a.sig # None /\ (Signs(a) => waits)

(* A catalog off the domain is followed for a reason.                      *)
Reasons ==
    served = "off" =>
        /\ request.http
        /\ trust = "jws" \/ (request.trustPointers /\ world.catalog.signed)

Gates ==
    /\ Reasons
    /\ \A i \in DOMAIN agents : Sound(agents[i]) /\ Secure(agents[i])
    /\ phase \in {"dnssec", "cards"} => \A i \in DOMAIN agents : Unjudged(agents[i])
    /\ (phase \in {"signatures", "dane", "done"} /\ request.verify) =>
          \A i \in DOMAIN agents :
             Decided(agents[i], phase = "signatures" /\ i \in pending)
    /\ request.http => \A i \in DOMAIN agents : agents[i].trust = trust
    /\ GatesHold

CallInv == TypeInv /\ Gates

LEMMA NoneIsNoWord == None # "off" /\ \A s \in Statuses : None # s
BY DiscoveryAssumption DEF Places

(* Until the merge there is nothing to judge.                              *)
LEMMA QuietGates ==
    ASSUME TypeInv', Reasons', phase' \in {"start", "listing", "asking"}
    PROVE  Gates'
<1>1. DOMAIN agents' = {}
  <2>1. agents' = <<>>
    BY DEF TypeInv, Found
  <2>2. QED
    BY <2>1
<1>2. GatesHold'
  BY DEF GatesHold
<1>3. QED
  BY <1>1, <1>2 DEF Gates

LEMMA InitCall == Init => CallInv
<1> SUFFICES ASSUME Init PROVE CallInv
  OBVIOUS
<1>1. TypeInv
  BY InitType
<1>2. agents = <<>> /\ phase = "start" /\ served = None
  BY DEF Init
<1>3. Reasons
  BY <1>2, NoneIsNoWord DEF Reasons
<1>4. Gates
  BY <1>2, <1>3 DEF Gates, GatesHold
<1>5. QED
  BY <1>1, <1>4 DEF CallInv

LEMMA FollowPointerJudges ==
    ASSUME CallInv, FollowPointer
    PROVE  CallInv'
<1>1. TypeInv'
  BY FollowPointerTyped DEF CallInv
<1>2. PICK labels \in SUBSET {1, 2} :
          LET leads == PointerThrough(labels)
              lost == 2 - Cardinality(labels)
              validates == request.trustPointers /\ world.catalog.signed
          IN  \/ /\ leads = None \/ (leads = "off" /\ ~validates /\ ~request.verify)
                 /\ Follows("wellknown", "tls_domain") /\ Lost(lost)
              \/ leads = "on" /\ Follows("on", "tls_domain") /\ Lost(lost)
              \/ /\ leads = "off" /\ validates
                 /\ Follows("off", "dnssec") /\ Lost(lost)
              \/ /\ leads = "off" /\ request.verify
                 /\ Follows("off", "jws")
                 /\ Lost(IF validates THEN lost + 1 ELSE lost)
              \/ /\ leads = "off" /\ validates /\ ~request.verify
                 /\ Follows("wellknown", "tls_domain") /\ Lost(lost + 1)
  BY DEF FollowPointer
<1>3. request' = request /\ world' = world /\ request.http /\ phase' = "listing"
  BY DEF FollowPointer
<1>4. served' = "off" => trust' = "jws" \/ (request.trustPointers /\ world.catalog.signed)
  BY <1>2 DEF Follows
<1>5. Reasons'
  BY <1>3, <1>4 DEF Reasons
<1>6. QED
  BY <1>1, <1>3, <1>5, QuietGates DEF CallInv

LEMMA FetchCatalogJudges ==
    ASSUME CallInv, FetchCatalog
    PROVE  CallInv'
<1>1. TypeInv'
  BY FetchCatalogTyped DEF CallInv
<1>2. /\ request' = request /\ world' = world /\ phase' = "asking"
      /\ \/ served' = served /\ trust' = trust
         \/ served' = "wellknown"
         \/ served' = None
  BY DEF FetchCatalog, Begins
<1>3. Reasons'
  BY <1>2, NoneIsNoWord DEF Reasons, CallInv, Gates
<1>4. QED
  BY <1>1, <1>2, <1>3, QuietGates DEF CallInv

(* The other steps before the merge.                                       *)
LEMMA EarlyJudges ==
    ASSUME CallInv, TypeInv', UNCHANGED <<request, world, served, trust>>,
           phase' \in {"start", "listing", "asking"}
    PROVE  CallInv'
<1>1. Reasons'
  BY DEF Reasons, CallInv, Gates
<1>2. QED
  BY <1>1, QuietGates DEF CallInv

(* A step of the gates: what it must show of the agents it leaves.         *)
LEMMA GateKeeps ==
    ASSUME CallInv, tasks' = <<>>, UNCHANGED <<zone, index, world, request>>,
           UNCHANGED <<served, trust, disturbed, changes>>, faults' \in 0..MaxFaults,
           phase' \in Phases \ {"start", "listing", "asking"}, IsList(agents'),
           \A i \in DOMAIN agents' :
              /\ Typed(agents'[i]) /\ Pins(agents'[i])
              /\ Sound(agents'[i]) /\ Secure(agents'[i])
              /\ request.http => agents'[i].trust = trust,
           pending' \subseteq DOMAIN agents',
           pending' # {} => phase' \in {"signatures", "dane"},
           phase' = "dane" => \A i \in pending' : agents'[i].dnssec,
           phase' \in {"dnssec", "cards"} => \A i \in DOMAIN agents' : Unjudged(agents'[i]),
           (phase' \in {"signatures", "dane", "done"} /\ request.verify) =>
              \A i \in DOMAIN agents' :
                 Decided(agents'[i], phase' = "signatures" /\ i \in pending'),
           GatesHold'
    PROVE  CallInv'
<1>1. IsList(<<>>) /\ DOMAIN <<>> = {}
  BY EmptyIsList
<1>2. Grounds' /\ Counters' /\ Queries' /\ Found' /\ Stands'
  BY <1>1 DEF CallInv, TypeInv, Grounds, Counters, Queries, Found, Stands
<1>3. Gates'
  <2>1. Reasons'
    BY DEF Reasons, CallInv, Gates
  <2>2. QED
    BY <2>1 DEF Gates
<1>4. QED
  BY <1>2, <1>3 DEF CallInv, TypeInv

(* What is known of the agents before a step of the gates.                 *)
LEMMA GateStarts ==
    ASSUME CallInv, phase \notin {"start", "listing", "asking"}
    PROVE  /\ tasks = <<>> /\ IsList(agents) /\ faults \in 0..MaxFaults
           /\ \A i \in DOMAIN agents :
                 /\ Typed(agents[i]) /\ IsAgent(agents[i]) /\ Pins(agents[i])
                 /\ Sound(agents[i]) /\ Secure(agents[i])
                 /\ request.http => agents[i].trust = trust
           /\ pending \subseteq DOMAIN agents
BY DEF CallInv, TypeInv, Queries, Found, Counters, Stands, Gates, Typed


LEMMA GatherJudges ==
    ASSUME CallInv, Gather
    PROVE  CallInv'
<1>1. /\ tasks' = <<>> /\ phase' = "dnssec" /\ phase = "asking"
      /\ UNCHANGED <<zone, index, world, request>>
      /\ UNCHANGED <<pending, served, trust, disturbed, changes>>
      /\ faults' = faults
  BY DEF Gather, Undisturbed
<1>2. pending' = {}
  BY <1>1 DEF CallInv, TypeInv, Stands
<1>3. ASSUME NEW m \in DOMAIN agents'
      PROVE  /\ Typed(agents'[m]) /\ Pins(agents'[m]) /\ Unjudged(agents'[m])
             /\ request.http => agents'[m].trust = trust
  <2>1. PICK i \in DOMAIN tasks :
           Brings(tasks[i], tasks[i].agent) /\ HandedOn(tasks[i].agent, agents'[m])
    BY GatherFinds DEF CallInv
  <2> DEFINE a == tasks[i].agent
             b == agents'[m]
  <2>2. Typed(a) /\ Pins(a) /\ Blank(a)
    BY <2>1 DEF Brings, Fresh
  <2> HIDE DEF a, b
  <2>3. HandedOn(a, b)
    BY <2>1 DEF a, b
  <2>4. Typed(b) /\ Pins(b)
    BY <2>2, <2>3, AlikeKeeps DEF HandedOn
  <2>5. Unjudged(b) /\ (request.http => b.trust = trust)
    BY <2>2, <2>3 DEF HandedOn, SameVerdict, Unjudged, Blank
  <2>6. QED
    BY <2>4, <2>5 DEF b
<1>4. \A a : Unjudged(a) => Sound(a) /\ Secure(a)
  BY NoneIsNoWord DEF Unjudged, Sound, Secure, Statuses
<1>5. IsList(agents')
  BY GatherFinds DEF CallInv
<1>6. faults' \in 0..MaxFaults
  BY <1>1 DEF CallInv, TypeInv, Counters
<1>7. GatesHold'
  BY <1>1 DEF GatesHold
<1>8. QED
  BY <1>1, <1>2, <1>3, <1>4, <1>5, <1>6, <1>7, GateKeeps DEF Phases

LEMMA CheckDnssecJudges ==
    ASSUME CallInv, CheckDnssec
    PROVE  CallInv'
<1>1. /\ phase = "dnssec" /\ phase' \in {"cards", "refused"}
      /\ UNCHANGED <<zone, index, world, request, tasks, pending>>
      /\ UNCHANGED <<served, trust, disturbed, changes>>
  BY DEF CheckDnssec
<1>2. /\ tasks = <<>> /\ IsList(agents) /\ faults \in 0..MaxFaults
      /\ \A i \in DOMAIN agents :
            /\ Typed(agents[i]) /\ IsAgent(agents[i]) /\ Pins(agents[i])
            /\ Sound(agents[i]) /\ Unjudged(agents[i])
            /\ request.http => agents[i].trust = trust
  BY <1>1, GateStarts DEF CallInv, Gates
<1>3. pending = {}
  BY <1>1 DEF CallInv, TypeInv, Stands
<1>4. \/ agents' = agents /\ faults' = faults
      \/ /\ \E S : agents' = [i \in DOMAIN agents |->
                                 [agents[i] EXCEPT !.dnssec = i \in S]]
         /\ faults' \in 0..MaxFaults
  <2>1. CASE ~(InScope # {} /\ DnssecCheckRuns)
    BY <2>1 DEF CheckDnssec
  <2>2. CASE InScope # {} /\ DnssecCheckRuns
    <3>1. PICK lost \in SUBSET InScope :
             /\ Lost(Cardinality(lost))
             /\ agents' = [i \in DOMAIN agents |->
                   [agents[i] EXCEPT !.dnssec =
                      i \in InScope \ {j \in InScope : ~Validates(j, lost)}]]
      BY <2>2 DEF CheckDnssec
    <3>2. Cardinality(lost) \in Nat
      <4>1. PICK n \in Nat : DOMAIN agents = 1..n
        BY <1>2 DEF IsList
      <4>2. lost \in SUBSET (1..n)
        BY <4>1 DEF InScope
      <4>3. Cardinality(lost) \in 0..n
        BY <4>1, <4>2, RankIs
      <4>4. QED
        BY <4>3
    <3>3. faults' \in 0..MaxFaults
      BY <1>2, <3>1, <3>2, DiscoveryAssumption DEF Lost
    <3>4. QED
      BY <3>1, <3>3
  <2>3. QED
    BY <2>1, <2>2
<1>5. /\ IsList(agents') /\ faults' \in 0..MaxFaults
      /\ \A i \in DOMAIN agents' :
            /\ Typed(agents'[i]) /\ Pins(agents'[i])
            /\ Sound(agents'[i]) /\ Unjudged(agents'[i])
            /\ request.http => agents'[i].trust = trust
  <2>1. CASE agents' = agents /\ faults' = faults
    BY <1>2, <2>1
  <2>2. ASSUME NEW S, faults' \in 0..MaxFaults,
               agents' = [i \in DOMAIN agents |-> [agents[i] EXCEPT !.dnssec = i \in S]]
        PROVE  <1>5
    <3>1. IsList(agents') /\ DOMAIN agents' = DOMAIN agents
      BY <1>2, <2>2 DEF IsList
    <3>2. ASSUME NEW i \in DOMAIN agents
          PROVE  /\ Typed(agents'[i]) /\ Pins(agents'[i])
                 /\ Sound(agents'[i]) /\ Unjudged(agents'[i])
                 /\ request.http => agents'[i].trust = trust
      <4> DEFINE a == agents[i]
                 x == i \in S
                 b == [a EXCEPT !.dnssec = x]
      <4>1. agents'[i] = b
        BY <2>2
      <4>2. Typed(a) /\ IsAgent(a) /\ Pins(a) /\ Sound(a) /\ Unjudged(a)
        BY <1>2
      <4>3. x \in BOOLEAN
        OBVIOUS
      <4> HIDE DEF a, x
      <4>4. /\ Alike(a, b) /\ SameVerdict(a, b) /\ b.trust = a.trust
            /\ b.dnssec = x /\ b.dane = a.dane
            /\ b.caps = a.caps /\ b.from = a.from
        BY <4>2, SecuredIs
      <4> HIDE DEF b
      <4>5. Typed(b)
        BY <4>2, <4>3, <4>4 DEF Typed, Alike, SameKey, SameVerdict
      <4>6. Pins(b) /\ Sound(b)
        BY <4>2, <4>4, AlikeKeeps
      <4>7. Unjudged(b)
        BY <4>2, <4>4 DEF Unjudged, SameVerdict
      <4>8. QED
        BY <1>2, <4>1, <4>4, <4>5, <4>6, <4>7 DEF a
    <3>3. QED
      BY <2>2, <3>1, <3>2
  <2>3. QED
    BY <1>4, <2>1, <2>2
<1>6. \A a : Unjudged(a) => Secure(a)
  BY DEF Unjudged, Secure
<1>7. GatesHold'
  BY <1>1 DEF GatesHold
<1>8. QED
  BY <1>1, <1>2, <1>3, <1>5, <1>6, <1>7, GateKeeps DEF Phases


(* What the cards and the start of the signature tasks make of an agent.   *)
LEMMA EnrichedCardIs ==
    ASSUME NEW a, Typed(a), Pins(a), Unjudged(a), NEW b, b \in {a, ApplyCard(a)},
           NEW c, c = IF request.verify THEN Unsigned(b) ELSE b
    PROVE  /\ Typed(c) /\ Pins(c) /\ Sound(c) /\ Secure(c) /\ c.trust = a.trust
           /\ SameKey(a, c) /\ c.sig = a.sig
           /\ request.verify => Decided(c, Signs(a))
<1>1. IsAgent(a)
  BY DEF Typed
<1>2. /\ Alike(a, b) /\ SameVerdict(a, b) /\ b.trust = a.trust
      /\ b.dnssec = a.dnssec /\ b.dane = a.dane /\ Pins(b)
  <2>1. CASE b = a
    BY <1>1, <2>1 DEF Alike, SameKey, SameVerdict
  <2>2. CASE b = ApplyCard(a)
    BY <1>1, <2>2, CardIs
  <2>3. QED
    BY <2>1, <2>2
<1>3. Typed(b) /\ Unjudged(b) /\ IsAgent(b)
  BY <1>2, AlikeKeeps DEF Unjudged, SameVerdict, Alike
<1>4. Unjudged(b) => Sound(b) /\ Secure(b)
  BY NoneIsNoWord DEF Unjudged, Sound, Secure, Statuses
<1>5. CASE ~request.verify \/ a.sig # None
  <2>1. c = b
    BY <1>2, <1>5 DEF Unsigned, Alike
  <2>2. Decided(b, Signs(a)) \/ ~request.verify
    BY <1>2, <1>3, <1>5, NoneIsNoWord DEF Decided, Unjudged, Statuses, Alike, Signs
  <2>3. QED
    BY <1>2, <1>3, <1>4, <2>1, <2>2 DEF Alike
<1>6. CASE request.verify /\ a.sig = None
  <2> DEFINE d == [b EXCEPT !.status = "not_signed"]
  <2>1. c = d
    BY <1>2, <1>6 DEF Unsigned, Alike
  <2>2. /\ Alike(b, d) /\ d.trust = b.trust
        /\ d.verified = b.verified /\ d.status = "not_signed" /\ d.covers = b.covers
        /\ d.dnssec = b.dnssec /\ d.dane = b.dane
        /\ d.caps = b.caps /\ d.from = b.from
    BY <1>3 DEF IsAgent, AgentFields, Alike, SameKey
  <2> HIDE DEF d
  <2>3. Typed(d) /\ Pins(d)
    BY <1>2, <1>3, <2>2 DEF Typed, Pins, Alike, SameKey
  <2>4. Sound(d) /\ Secure(d)
    BY <1>3, <2>2 DEF Sound, Secure, Unjudged
  <2>5. Decided(d, Signs(a))
    BY <1>2, <1>6, <2>2, NoneIsNoWord DEF Decided, Alike, Statuses, Signs
  <2>6. QED
    BY <1>2, <2>1, <2>2, <2>3, <2>4, <2>5 DEF Alike, SameKey
<1>7. QED
  BY <1>5, <1>6

LEMMA EnrichCardsJudges ==
    ASSUME CallInv, EnrichCards
    PROVE  CallInv'
<1>1. /\ phase = "cards" /\ phase' = "signatures"
      /\ UNCHANGED <<zone, index, world, request, tasks>>
      /\ UNCHANGED <<served, trust, disturbed, changes>>
      /\ pending' = IF request.verify
                    THEN {i \in DOMAIN agents : Signs(agents[i])} ELSE {}
  BY DEF EnrichCards
<1>2. /\ tasks = <<>> /\ IsList(agents) /\ faults \in 0..MaxFaults
      /\ \A i \in DOMAIN agents :
            /\ Typed(agents[i]) /\ IsAgent(agents[i]) /\ Pins(agents[i])
            /\ Sound(agents[i]) /\ Unjudged(agents[i])
            /\ request.http => agents[i].trust = trust
  BY <1>1, GateStarts DEF CallInv, Gates
<1>3. PICK lost \in SUBSET world.skills :
         /\ Lost(Cardinality(lost))
         /\ agents' = [i \in DOMAIN agents |->
               LET a == IF ~agents[i].override /\
                           (agents[i].card \/ agents[i].endpoint \in world.skills \ lost)
                        THEN ApplyCard(agents[i]) ELSE agents[i]
               IN  IF request.verify THEN Unsigned(a) ELSE a]
  BY DEF EnrichCards
<1>4. faults' \in 0..MaxFaults
  <2>1. IsFiniteSet(lost)
    BY FS_Subset DEF CallInv, TypeInv, Grounds, IsWorld
  <2>2. Cardinality(lost) \in Nat
    BY <2>1, FS_CardinalityType
  <2>3. QED
    BY <1>2, <1>3, <2>2, DiscoveryAssumption DEF Lost
<1>5. IsList(agents') /\ DOMAIN agents' = DOMAIN agents
  BY <1>2, <1>3 DEF IsList
<1>6. ASSUME NEW i \in DOMAIN agents
      PROVE  /\ Typed(agents'[i]) /\ Pins(agents'[i])
             /\ Sound(agents'[i]) /\ Secure(agents'[i])
             /\ request.http => agents'[i].trust = trust
             /\ request.verify => Decided(agents'[i], Signs(agents[i]))
  <2> DEFINE b == IF ~agents[i].override /\
                     (agents[i].card \/ agents[i].endpoint \in world.skills \ lost)
                  THEN ApplyCard(agents[i]) ELSE agents[i]
  <2>1. agents'[i] = IF request.verify THEN Unsigned(b) ELSE b
    BY <1>3
  <2>2. b \in {agents[i], ApplyCard(agents[i])}
    OBVIOUS
  <2> HIDE DEF b
  <2>3. Typed(agents[i]) /\ Pins(agents[i]) /\ Unjudged(agents[i])
    BY <1>2
  <2>4. /\ Typed(agents'[i]) /\ Pins(agents'[i])
        /\ Sound(agents'[i]) /\ Secure(agents'[i])
        /\ agents'[i].trust = agents[i].trust
        /\ request.verify => Decided(agents'[i], Signs(agents[i]))
    BY <2>1, <2>2, <2>3, EnrichedCardIs
  <2>5. QED
    BY <1>2, <2>4
<1>7. request.verify => \A i \in DOMAIN agents' :
          Decided(agents'[i], phase' = "signatures" /\ i \in pending')
  BY <1>1, <1>5, <1>6 DEF Decided
<1>8. GatesHold'
  BY <1>1 DEF GatesHold
<1>9. pending' \subseteq DOMAIN agents'
  BY <1>1, <1>5
<1>10. QED
  BY <1>1, <1>2, <1>4, <1>5, <1>6, <1>7, <1>8, <1>9, GateKeeps DEF Phases


(* One check of one agent answers.                                         *)
LEMMA CheckedKeeps ==
    ASSUME CallInv, phase \in {"signatures", "dane"}, NEW i \in pending, NEW b,
           Checked(i, b), faults' \in 0..MaxFaults,
           Typed(b), Pins(b), Sound(b), Secure(b), b.trust = agents[i].trust,
           b.dnssec = agents[i].dnssec, request.verify => Decided(b, FALSE)
    PROVE  CallInv'
<1>1. /\ UNCHANGED <<zone, index, world, request, phase, tasks>>
      /\ UNCHANGED <<served, trust, disturbed, changes>>
      /\ agents' = [agents EXCEPT ![i] = b] /\ pending' = pending \ {i}
  BY DEF Checked
<1>2. /\ tasks = <<>> /\ IsList(agents) /\ pending \subseteq DOMAIN agents
      /\ \A j \in DOMAIN agents :
            /\ Typed(agents[j]) /\ IsAgent(agents[j]) /\ Pins(agents[j])
            /\ Sound(agents[j]) /\ Secure(agents[j])
            /\ request.http => agents[j].trust = trust
  BY GateStarts
<1>3. i \in DOMAIN agents
  BY <1>2
<1>4. /\ IsList(agents') /\ DOMAIN agents' = DOMAIN agents /\ agents'[i] = b
      /\ \A j \in DOMAIN agents \ {i} : agents'[j] = agents[j]
  BY <1>1, <1>2, <1>3, AlteredIsList
<1>5. \A j \in DOMAIN agents' :
          /\ Typed(agents'[j]) /\ Pins(agents'[j])
          /\ Sound(agents'[j]) /\ Secure(agents'[j])
          /\ request.http => agents'[j].trust = trust
  BY <1>2, <1>3, <1>4
<1>6. \A j \in DOMAIN agents' : agents'[j].dnssec = agents[j].dnssec
  BY <1>4
<1>7. phase' = "dane" => \A j \in pending' : agents'[j].dnssec
  BY <1>1, <1>2, <1>4, <1>6 DEF CallInv, TypeInv, Stands
<1>8. request.verify => \A j \in DOMAIN agents' :
          Decided(agents'[j], phase' = "signatures" /\ j \in pending')
  <2>1. request.verify => \A j \in DOMAIN agents :
          Decided(agents[j], phase = "signatures" /\ j \in pending)
    BY DEF CallInv, Gates
  <2>2. request.verify => Decided(agents'[i], phase' = "signatures" /\ i \in pending')
    BY <1>1, <1>4 DEF Decided
  <2>3. request.verify => \A j \in DOMAIN agents \ {i} :
          Decided(agents'[j], phase' = "signatures" /\ j \in pending')
    BY <1>1, <1>4, <2>1 DEF Decided
  <2>4. QED
    BY <1>4, <2>2, <2>3
<1>9. GatesHold'
  BY <1>1 DEF GatesHold
<1>10. pending' \subseteq DOMAIN agents'
  BY <1>1, <1>2, <1>4
<1>11. QED
  BY <1>1, <1>2, <1>4, <1>5, <1>7, <1>8, <1>9, <1>10, GateKeeps DEF Phases

LEMMA OneLost ==
    ASSUME Counters, Lost(1)
    PROVE  faults' \in 0..MaxFaults
BY DiscoveryAssumption DEF Counters, Lost

LEMMA VerifyOneJudges ==
    ASSUME CallInv, NEW i \in DOMAIN agents, VerifyOne(i)
    PROVE  CallInv'
<1> DEFINE a == agents[i]
<1>1. phase = "signatures" /\ i \in pending
  BY DEF VerifyOne
<1>2. Typed(a) /\ IsAgent(a) /\ Pins(a) /\ Secure(a) /\ faults \in 0..MaxFaults
  BY <1>1, GateStarts
<1>3. CASE Checked(i, Judged(a)) /\ UNCHANGED faults
  <2> DEFINE b == Judged(a)
  <2>1. PICK v \in {"yes", "no"}, c \in BOOLEAN,
             s \in {"invalid", "unbound", "endpoint_only", "verified"} :
                Judges(a, b, v, s, c) /\ Sound(b)
    BY <1>2, JudgedIs
  <2>2. v \in Verdicts /\ s \in Statuses
    BY DEF Verdicts, Statuses
  <2> HIDE DEF a, b
  <2>3. Typed(b) /\ Pins(b) /\ Secure(b)
    BY <1>2, <2>1, <2>2 DEF Typed, Pins, Secure, Judges, Alike, SameKey
  <2>4. Decided(b, FALSE)
    BY <2>1, <2>2, NoneIsNoWord DEF Decided, Judges
  <2>5. b.trust = agents[i].trust /\ b.dnssec = agents[i].dnssec
    BY <2>1 DEF Judges, a
  <2>6. Checked(i, b) /\ faults' \in 0..MaxFaults
    BY <1>2, <1>3 DEF b
  <2>7. QED
    BY <1>1, <2>1, <2>3, <2>4, <2>5, <2>6, CheckedKeeps
<1>4. CASE Checked(i, Verdict(a, "unknown", "no_key", FALSE)) /\ Lost(1)
  <2> DEFINE b == Verdict(a, "unknown", "no_key", FALSE)
  <2>1. Judges(a, b, "unknown", "no_key", FALSE)
    BY <1>2, VerdictIs
  <2> HIDE DEF a, b
  <2>3. Typed(b) /\ Pins(b) /\ Secure(b) /\ Sound(b)
    BY <1>2, <2>1 DEF Typed, Pins, Secure, Sound, Judges, Alike, SameKey, Verdicts
  <2>4. Decided(b, FALSE)
    BY <2>1, NoneIsNoWord DEF Decided, Judges, Statuses
  <2>5. b.trust = agents[i].trust /\ b.dnssec = agents[i].dnssec
    BY <2>1 DEF Judges, a
  <2>6. Checked(i, b) /\ faults' \in 0..MaxFaults
    BY <1>4, OneLost DEF b, CallInv, TypeInv
  <2>7. QED
    BY <1>1, <2>3, <2>4, <2>5, <2>6, CheckedKeeps
<1>5. QED
  BY <1>3, <1>4 DEF VerifyOne

LEMMA CheckDaneJudges ==
    ASSUME CallInv, NEW i \in DOMAIN agents, CheckDane(i)
    PROVE  CallInv'
<1> DEFINE a == agents[i]
<1>1. phase = "dane" /\ i \in pending
  BY DEF CheckDane
<1>2. /\ Typed(a) /\ IsAgent(a) /\ Pins(a) /\ Sound(a) /\ Secure(a)
      /\ faults \in 0..MaxFaults
  BY <1>1, GateStarts
<1>3. a.dnssec
  BY <1>1 DEF CallInv, TypeInv, Stands
<1>4. request.verify => Decided(a, FALSE)
  BY <1>1 DEF CallInv, Gates, Decided
<1>5. CASE Checked(i, [a EXCEPT !.dane = world.tlsa[a.endpoint]]) /\ UNCHANGED faults
  <2> DEFINE x == world.tlsa[a.endpoint]
             b == [a EXCEPT !.dane = x]
  <2>1. x \in Verdicts
    BY <1>2 DEF CallInv, TypeInv, Grounds, IsWorld, Typed
  <2> HIDE DEF a, x
  <2>2. /\ Alike(a, b) /\ SameVerdict(a, b) /\ b.trust = a.trust
        /\ b.dnssec = a.dnssec /\ b.dane = x
        /\ b.caps = a.caps /\ b.from = a.from
    BY <1>2, DanedIs
  <2> HIDE DEF b
  <2>3. Typed(b) /\ Pins(b) /\ Sound(b) /\ Secure(b)
    <3>1. Typed(b) /\ Secure(b)
      BY <1>2, <1>3, <2>1, <2>2 DEF Typed, Secure, Alike, SameKey, SameVerdict
    <3>2. Pins(b) /\ Sound(b)
      BY <1>2, <2>2, AlikeKeeps
    <3>3. QED
      BY <3>1, <3>2
  <2>4. request.verify => Decided(b, FALSE)
    BY <1>4, <2>2 DEF Decided, SameVerdict, Alike, Signs
  <2>5. b.trust = agents[i].trust /\ b.dnssec = agents[i].dnssec
    BY <2>2 DEF a
  <2>6. Checked(i, b) /\ faults' \in 0..MaxFaults
    BY <1>2, <1>5 DEF a, b, x
  <2>7. QED
    BY <1>1, <2>3, <2>4, <2>5, <2>6, CheckedKeeps
<1>6. CASE Checked(i, a) /\ Lost(1)
  <2>1. faults' \in 0..MaxFaults
    BY <1>6, OneLost DEF CallInv, TypeInv
  <2>2. QED
    BY <1>1, <1>2, <1>4, <1>6, <2>1, CheckedKeeps
<1>7. QED
  BY <1>5, <1>6 DEF CheckDane


LEMMA SignatureBudgetEndsJudges ==
    ASSUME CallInv, SignatureBudgetEnds
    PROVE  CallInv'
<1>1. /\ phase = "signatures" /\ phase' = phase /\ pending' = {}
      /\ UNCHANGED <<zone, index, world, request, tasks, served, trust>>
      /\ UNCHANGED <<disturbed, changes, faults>>
      /\ agents' = [i \in DOMAIN agents |-> NotChecked(agents[i])]
  BY DEF SignatureBudgetEnds
<1>2. /\ tasks = <<>> /\ IsList(agents) /\ faults \in 0..MaxFaults
      /\ \A j \in DOMAIN agents :
            /\ Typed(agents[j]) /\ IsAgent(agents[j]) /\ Pins(agents[j])
            /\ Sound(agents[j]) /\ Secure(agents[j])
            /\ request.http => agents[j].trust = trust
  BY <1>1, GateStarts
<1>3. IsList(agents') /\ DOMAIN agents' = DOMAIN agents
  BY <1>1, <1>2 DEF IsList
<1>4. ASSUME NEW i \in DOMAIN agents
      PROVE  /\ Typed(agents'[i]) /\ Pins(agents'[i])
             /\ Sound(agents'[i]) /\ Secure(agents'[i])
             /\ agents'[i].trust = agents[i].trust
             /\ request.verify => Decided(agents'[i], FALSE)
  <2> DEFINE a == agents[i]
             b == [a EXCEPT !.status = "not_checked"]
  <2>1. agents'[i] = IF a.status = None /\ Signs(a) THEN b ELSE a
    BY <1>1 DEF NotChecked
  <2>2. Typed(a) /\ IsAgent(a) /\ Pins(a) /\ Sound(a) /\ Secure(a)
    BY <1>2
  <2>3. request.verify => \E waits \in BOOLEAN : Decided(a, waits)
    BY <1>1 DEF CallInv, Gates
  <2>4. CASE ~(a.status = None /\ Signs(a))
    BY <2>1, <2>2, <2>3, <2>4 DEF Decided
  <2>5. CASE a.status = None /\ Signs(a)
    <3>1. /\ Alike(a, b) /\ b.trust = a.trust
          /\ b.verified = a.verified /\ b.status = "not_checked" /\ b.covers = a.covers
          /\ b.dnssec = a.dnssec /\ b.dane = a.dane
          /\ b.caps = a.caps /\ b.from = a.from
      <4> HIDE DEF a
      <4>1. QED
        BY <2>2 DEF IsAgent, AgentFields, Alike, SameKey
    <3> HIDE DEF a, b
    <3>2. Typed(b) /\ Pins(b) /\ Secure(b)
      BY <2>2, <3>1 DEF Typed, Pins, Secure, Alike, SameKey
    <3>3. a.verified \notin {"yes", "no"} /\ a.covers = FALSE
      BY <2>2, <2>5, NoneIsNoWord DEF Sound, Typed, Statuses
    <3>4. Sound(b)
      BY <3>1, <3>3 DEF Sound
    <3>5. Decided(b, FALSE)
      BY <3>1, NoneIsNoWord DEF Decided, Statuses
    <3>6. QED
      BY <2>1, <2>5, <3>1, <3>2, <3>4, <3>5 DEF a
  <2>6. QED
    BY <2>4, <2>5
<1>5. request.verify => \A j \in DOMAIN agents' :
          Decided(agents'[j], phase' = "signatures" /\ j \in pending')
  BY <1>3, <1>4 DEF Decided
<1>6. GatesHold'
  BY <1>1 DEF GatesHold
<1>7. QED
  BY <1>1, <1>2, <1>3, <1>4, <1>5, <1>6, GateKeeps DEF Phases

(* A step of the gates that leaves the agents as they are.                 *)
LEMMA GateMoves ==
    ASSUME CallInv, phase \in {"signatures", "dane"}, phase' = "dane", agents' = agents,
           pending' \subseteq DaneTargets, phase = "signatures" => pending = {},
           UNCHANGED <<zone, index, world, request, tasks, served, trust>>,
           UNCHANGED <<disturbed, changes, faults>>
    PROVE  CallInv'
<1>1. /\ tasks = <<>> /\ IsList(agents) /\ faults \in 0..MaxFaults
      /\ \A j \in DOMAIN agents :
            /\ Typed(agents[j]) /\ IsAgent(agents[j]) /\ Pins(agents[j])
            /\ Sound(agents[j]) /\ Secure(agents[j])
            /\ request.http => agents[j].trust = trust
  BY GateStarts
<1>2. pending' \subseteq DOMAIN agents' /\ \A i \in pending' : agents'[i].dnssec
  BY DEF DaneTargets
<1>3. request.verify => \A j \in DOMAIN agents' :
          Decided(agents'[j], phase' = "signatures" /\ j \in pending')
  BY DEF CallInv, Gates, Decided
<1>4. GatesHold'
  BY DEF GatesHold
<1>5. QED
  BY <1>1, <1>2, <1>3, <1>4, GateKeeps DEF Phases

LEMMA FilterJudges ==
    ASSUME CallInv, Filter
    PROVE  CallInv'
<1> DEFINE kept == {i \in DOMAIN agents :
                       ~DropsUnverified(agents[i]) /\ Passes(agents[i])}
<1>1. /\ phase = "dane" /\ phase' = "done" /\ pending = {} /\ pending' = pending
      /\ UNCHANGED <<zone, index, world, request, tasks, served, trust>>
      /\ UNCHANGED <<disturbed, changes, faults>>
      /\ agents' = Pick(agents, kept)
  BY DEF Filter
<1>2. /\ tasks = <<>> /\ IsList(agents) /\ faults \in 0..MaxFaults
      /\ \A j \in DOMAIN agents :
            /\ Typed(agents[j]) /\ IsAgent(agents[j]) /\ Pins(agents[j])
            /\ Sound(agents[j]) /\ Secure(agents[j])
            /\ request.http => agents[j].trust = trust
  BY <1>1, GateStarts
<1>3. kept \in SUBSET (DOMAIN agents)
  OBVIOUS
<1>k. \A i \in kept : ~DropsUnverified(agents[i]) /\ Passes(agents[i])
  OBVIOUS
<1> HIDE DEF kept
<1>4. /\ IsList(agents')
      /\ \A m \in DOMAIN agents' : \E i \in kept : agents'[m] = agents[i]
  BY <1>1, <1>2, <1>3, PickedIsList
<1>5. request.verify => \A i \in DOMAIN agents : Decided(agents[i], FALSE)
  BY <1>1 DEF CallInv, Gates, Decided
<1>6. ASSUME NEW m \in DOMAIN agents'
      PROVE  /\ Typed(agents'[m]) /\ Pins(agents'[m])
             /\ Sound(agents'[m]) /\ Secure(agents'[m])
             /\ request.http => agents'[m].trust = trust
             /\ request.verify => Decided(agents'[m], FALSE)
             /\ ~DropsUnverified(agents'[m]) /\ Passes(agents'[m])
  <2>1. PICK i \in kept : agents'[m] = agents[i]
    BY <1>4
  <2>2. i \in DOMAIN agents
    BY <1>3
  <2>3. QED
    BY <1>2, <1>5, <1>k, <2>1, <2>2
<1>7. GatesHold'
  <2>1. Reasons
    BY DEF CallInv, Gates
  <2>2. ASSUME NEW m \in DOMAIN agents'
        PROVE  LET a == agents'[m]
               IN  /\ (a.source = "catalog" /\ served = "off") =>
                         \/ a.verified = "yes"
                         \/ request.trustPointers /\ world.catalog.signed
                   /\ request.requireSigned => a.verified = "yes"
                   /\ (request.minDnssec /\ a.source = "dns") => a.dnssec
                   /\ a.dane # "unknown" => a.dnssec
    BY <1>6, <2>1 DEF Reasons, DropsUnverified, Passes, Secure
  <2>3. QED
    BY <1>1, <2>2 DEF GatesHold, ToSet
<1>8. QED
  BY <1>1, <1>2, <1>4, <1>6, <1>7, GateKeeps DEF Phases, Decided
-----------------------------------------------------------------------------
(* The theorems.                                                           *)

LEMMA ChangesTyped ==
    ASSUME CallInv, Changes, disturbed' \subseteq Name,
           zone' \in [Owner -> Records \cup {None}],
           index' \in Seq(Name \X (Protocols \cup {Unknown}))
    PROVE  CallInv'
<1>1. /\ UNCHANGED <<world, request, phase, tasks, agents, pending>>
      /\ UNCHANGED <<served, trust, faults>>
      /\ phase \in {"start", "listing", "asking"} /\ changes' \in 0..MaxChanges
  BY DiscoveryAssumption DEF Changes, locals, CallInv, TypeInv, Counters
<1>2. TypeInv'
  BY <1>1 DEF CallInv, TypeInv, Grounds, Counters, Queries, Found, Stands
<1>3. QED
  BY <1>1, <1>2, EarlyJudges

LEMMA RepublishJudges ==
    ASSUME CallInv, NEW n \in Name, Republish(n)
    PROVE  CallInv'
<1>1. PICK r \in Republished \cup {None} : zone' = [zone EXCEPT ![n] = r]
  BY DEF Republish
<1>2. r \in Records \cup {None}
  BY DEF Records
<1>3. zone' \in [Owner -> Records \cup {None}]
  BY <1>1, <1>2 DEF CallInv, TypeInv, Grounds
<1>4. index' \in Seq(Name \X (Protocols \cup {Unknown})) /\ disturbed' \subseteq Name
  BY DEF Republish, LeadTo, CallInv, TypeInv, Grounds, Counters
<1>5. QED
  BY <1>3, <1>4, ChangesTyped DEF Republish

LEMMA EditIndexJudges ==
    ASSUME CallInv, NEW n \in Name, EditIndex(n)
    PROVE  CallInv'
<1> DEFINE V == Name \X (Protocols \cup {Unknown})
           kept == {i \in DOMAIN index : index[i][1] # n}
<1>1. index \in Seq(V) /\ <<n, "mcp">> \in V
  BY DEF CallInv, TypeInv, Grounds, Protocols
<1>2. kept \in SUBSET (DOMAIN index)
  OBVIOUS
<1>3. index' = Append(index, <<n, "mcp">>) \/ index' = Pick(index, kept)
  BY DEF EditIndex
<1> HIDE DEF V, kept
<1>4. index' \in Seq(V)
  <2>1. Append(index, <<n, "mcp">>) \in Seq(V)
    BY <1>1
  <2>2. Pick(index, kept) \in Seq(V)
    BY <1>1, <1>2, PickKeeps
  <2>3. QED
    BY <1>3, <2>1, <2>2
<1>5. disturbed' \subseteq Name /\ zone' = zone
  BY DEF EditIndex, CallInv, TypeInv, Counters
<1>6. QED
  BY <1>4, <1>5, ChangesTyped DEF EditIndex, CallInv, TypeInv, Grounds, V

LEMMA NextCall == CallInv /\ [Next]_vars => CallInv'
<1> SUFFICES ASSUME CallInv, [Next]_vars PROVE CallInv'
  OBVIOUS
<1>0. TypeInv
  BY DEF CallInv
<1>1. CASE AskForOne
  <2>1. TypeInv'
    BY <1>0, <1>1, AskForOneTyped
  <2>2. QED
    BY <1>1, <2>1, EarlyJudges DEF AskForOne, Begins
<1>2. CASE ReadIndex
  <2>1. TypeInv'
    BY <1>0, <1>2, ReadIndexTyped
  <2>2. QED
    BY <1>2, <2>1, EarlyJudges DEF ReadIndex, Begins
<1>3. CASE FollowPointer
  BY <1>3, FollowPointerJudges
<1>4. CASE FetchCatalog
  BY <1>4, FetchCatalogJudges
<1>5. ASSUME NEW i \in DOMAIN tasks, Query(i)
      PROVE  CallInv'
  <2>1. TypeInv'
    BY <1>0, <1>5, QueryTyped
  <2>2. PICK stage : Asked(i, stage)
    BY <1>5 DEF Query, Resolve, ResolveLegacy, FollowAlias, Describe, ReadText, ReadArdCard
  <2>3. QED
    BY <2>1, <2>2, EarlyJudges DEF Asked
<1>6. CASE Gather
  BY <1>6, GatherJudges
<1>7. CASE CheckDnssec
  BY <1>7, CheckDnssecJudges
<1>8. CASE EnrichCards
  BY <1>8, EnrichCardsJudges
<1>9. ASSUME NEW i \in DOMAIN agents, VerifyOne(i) \/ CheckDane(i)
      PROVE  CallInv'
  BY <1>9, VerifyOneJudges, CheckDaneJudges
<1>10. CASE SignatureBudgetEnds
  BY <1>10, SignatureBudgetEndsJudges
<1>11. CASE StartDane
  BY <1>11, GateMoves DEF StartDane
<1>12. CASE DaneBudgetEnds
  BY <1>12, GateMoves DEF DaneBudgetEnds
<1>13. CASE Filter
  BY <1>13, FilterJudges
<1>14. ASSUME NEW n \in Name, Republish(n) \/ EditIndex(n)
       PROVE  CallInv'
  BY <1>14, RepublishJudges, EditIndexJudges
<1>15. CASE UNCHANGED vars
  <2>1. /\ UNCHANGED <<zone, index, world, request, phase, tasks, agents, pending>>
        /\ UNCHANGED <<served, trust, disturbed, changes, faults>>
    BY <1>15 DEF vars, locals
  <2>2. TypeInv'
    BY <1>0, <2>1 DEF TypeInv, Grounds, Counters, Queries, Found, Stands
  <2>3. Gates'
    BY <2>1 DEF CallInv, Gates, Reasons, GatesHold
  <2>4. QED
    BY <2>2, <2>3 DEF CallInv
<1>16. QED
  BY <1>1, <1>2, <1>3, <1>4, <1>5, <1>6, <1>7, <1>8, <1>9, <1>10, <1>11, <1>12,
     <1>13, <1>14, <1>15 DEF Next, Progress

(* What a call is at any await: typed as the code's annotations say, and   *)
(* its queries and agents in the shape their stage gives them.             *)
LEMMA CallHolds == Spec => []CallInv
BY InitCall, NextCall, PTL DEF Spec

(* Every variable of a call keeps its type, for any names, zones, catalogs *)
(* and arguments: a query holds a record exactly while it describes one,   *)
(* only agents with DNSSEC wait for DANE, and every agent has a protocol   *)
(* the code knows.                                                         *)
THEOREM DiscoveryTypes == Spec => []TypeOK
<1>1. CallInv => TypeOK
  BY TypesHold DEF CallInv
<1>2. QED
  BY <1>1, CallHolds, PTL

(* The verdict on a signature is never half-written (_verify_agent_        *)
(* signatures): however the tasks and the end of the budget interleave, an *)
(* agent that is returned after verification carries one whole verdict,    *)
(* and "yes" only for what the zone signed for this name, endpoint and     *)
(* protocol; the one without a verdict is the one whose signature is empty.*)
THEOREM EveryVerdictIsWhole == Spec => []VerdictsAreWhole
<1>1. ASSUME CallInv PROVE VerdictsAreWhole
  <2>1. SUFFICES ASSUME phase = "done", request.verify, NEW i \in DOMAIN agents
                 PROVE  LET a == agents[i]
                        IN  /\ a.verified = "yes" <=> a.status \in {"verified", "endpoint_only"}
                            /\ a.verified = "no" <=> a.status \in {"invalid", "unbound"}
                            /\ a.covers <=> a.status = "verified"
                            /\ a.status = "not_signed" => a.sig = None
                            /\ a.status = None => a.sig # None /\ ~Signs(a)
                            /\ a.verified = "yes" =>
                                  /\ a.sig.by = "zone"
                                  /\ <<a.sig.name, a.sig.endpoint, a.sig.speaks>>
                                        = <<a.name, a.endpoint, a.protocol>>
                                  /\ a.sig.params \in {None, a.params}
    BY DEF VerdictsAreWhole, ToSet
  <2>2. Sound(agents[i]) /\ Decided(agents[i], FALSE)
    BY <2>1, <1>1 DEF CallInv, Gates, Decided
  <2>3. QED
    BY <2>2 DEF Sound, Decided
<1>2. QED
  BY <1>1, CallHolds, PTL

(* What is vouched for was checked, at the gates, for DANE and for a pinned*)
(* descriptor: agents of a catalog off the domain are verified, or the     *)
(* domain's pointer was validated and the caller trusts that; filters on   *)
(* DNSSEC and signatures leave only what passed; DANE is never reported    *)
(* without DNSSEC; and no later source replaces what a pin vouches for.    *)
THEOREM NothingIsVouchedUnchecked == Spec => []TrustIsEarned
<1>1. CallInv => TrustIsEarned
  BY DEF CallInv, TypeInv, Found, Gates, Pins, TrustIsEarned, PinIsHonoured, ToSet
<1>2. QED
  BY <1>1, CallHolds, PTL

-----------------------------------------------------------------------------
(* Exactness. The same look-up as an operator on the zone, the request and *)
(* the world, so that a step which changes none of them keeps it.          *)

FirstFound(z, q, n, probe) ==
    IF z[n] = None /\ q.legacy THEN z[<<n, probe>>] ELSE z[n]

Leads(r) == r # None /\ r.alias # None

PublishedIn(z, q, n, probe) ==
    LET r == FirstFound(z, q, n, probe)
    IN  IF Leads(r) THEN Behind(z[r.alias]) ELSE r

RefusedIn(w, r) ==
    /\ r.locator # None /\ r.pin # None
    /\ w.document[r.endpoint] # None /\ w.document[r.endpoint].id # r.pin

Shows(z, q, w, n, probe) ==
    /\ PublishedIn(z, q, n, probe) # None
    /\ ~RefusedIn(w, PublishedIn(z, q, n, probe))

Spoken(z, q, n, probe) == Reconcile(probe, PublishedIn(z, q, n, probe))

(* What the index, or the lack of one, makes the call ask for.             *)
Called(ix, q) ==
    IF None \notin {q.name, q.protocol} THEN {<<q.name, q.protocol>>}
    ELSE {e \in IF ix = <<>> THEN ToSet(Common) \X Protocols ELSE ToSet(ix) :
             e[2] \in Protocols /\ q.protocol \in {None, e[2]}}

LEMMA PublishedIs ==
    \A n, probe :
       Published(n, probe) = PublishedIn(zone, request, n, probe)
BY DEF Published, PublishedIn, FirstFound, Leads, Behind

LEMMA RefusesIs == \A r : Refuses(r) <=> RefusedIn(world, r)
BY DEF Refuses, RefusedIn

LEMMA AnnouncedIs ==
    Announced = {e \in Called(index, request) : request.name \in {None, e[1]}}
<1>1. CASE None \notin {request.name, request.protocol}
  BY <1>1 DEF Announced, Called
<1>2. CASE None \in {request.name, request.protocol}
  BY <1>2 DEF Announced, Called
<1>3. QED
  BY <1>1, <1>2

(* A query has come as far as what is published of its name lets it.       *)
Traces(z, q, w, t, probe) ==
    /\ t.entry = None /\ t.at # "card"
    /\ t.at # "done" => Head(t.probes) = probe
    /\ t.at = "legacy" => z[t.name] = None /\ q.legacy
    /\ t.at = "alias" =>
          LET r == FirstFound(z, q, t.name, probe) IN Leads(r) /\ t.agent = r.alias
    /\ t.at \in {"describe", "text"} =>
          /\ t.rec = PublishedIn(z, q, t.name, probe)
          /\ t.agent.protocol = Spoken(z, q, t.name, probe)
    /\ t.at = "text" => ~RefusedIn(w, t.rec)
    /\ t.at = "done" =>
          IF Shows(z, q, w, t.name, probe)
          THEN t.agent # Nobody /\ t.agent.protocol = Spoken(z, q, t.name, probe)
          ELSE t.agent = Nobody

(* Every query of an undisturbed name traces something that was called for,*)
(* and everything that was called for is traced.                           *)
Covers(z, ix, q, w, ts, d) ==
    /\ \A i \in DOMAIN ts : ts[i].name \notin d =>
          \E probe \in Protocols :
             <<ts[i].name, probe>> \in Called(ix, q) /\ Traces(z, q, w, ts[i], probe)
    /\ \A n \in Name, probe \in Protocols :
          (n \notin d /\ <<n, probe>> \in Called(ix, q)) =>
             \E i \in DOMAIN ts : ts[i].name = n /\ Traces(z, q, w, ts[i], probe)

(* What the merge has left are the agents on show, each once.              *)
Exact(z, ix, q, w, as, d) ==
    /\ \A m \in DOMAIN as : as[m].name \notin d =>
          \E probe \in Protocols :
             /\ <<as[m].name, probe>> \in Called(ix, q)
             /\ q.name \in {None, as[m].name}
             /\ Shows(z, q, w, as[m].name, probe)
             /\ as[m].protocol = Spoken(z, q, as[m].name, probe)
    /\ \A n \in Name, probe \in Protocols :
          /\ n \notin d /\ <<n, probe>> \in Called(ix, q)
          /\ q.name \in {None, n} /\ Shows(z, q, w, n, probe)
          => \E m \in DOMAIN as :
                as[m].name = n /\ as[m].protocol = Spoken(z, q, n, probe)
    /\ \A m, l \in DOMAIN as : SameKey(as[m], as[l]) => m = l

ExactInv ==
    ~request.http =>
        /\ phase # "listing"
        /\ phase \in {"start", "asking"} => Len(index) <= Capacity
        /\ phase = "asking" =>
              Covers(zone, index, request, world, tasks, disturbed)
        /\ Merged => Exact(zone, index, request, world, agents, disturbed)

(* Where the index fits in one string of its record.                       *)
IndexesFit == \A scene \in Scenes : Len(scene.index) <= Capacity

-----------------------------------------------------------------------------
(* A look-up that answers: r is what is read of a query's name, and behind *)
(* the alias if there is one what is read behind it.                       *)
LEMMA ReadTraces ==
    ASSUME request \in Arguments, NEW t, Asks(t), Probing(t), t.rec = None,
           t.entry = None, NEW r, r = None \/ (r \in Records \ {None} /\ IsRecord(r)),
           NEW probe, probe = Head(t.probes),
           Leads(r) => r = FirstFound(zone, request, t.name, probe),
           ~Leads(r) => r = PublishedIn(zone, request, t.name, probe)
    PROVE  Traces(zone, request, world, Read(t, r), probe)
<1> DEFINE u == Read(t, r)
<1>1. /\ u.name = t.name /\ u.entry = None
      /\ r = None => u = Settled(t, Nobody)
      /\ r # None /\ r.alias # None =>
            u.at = "alias" /\ u.agent = r.alias /\ u.probes = t.probes
      /\ r # None /\ r.alias = None =>
            /\ u.at \in {"describe", "text"}
            /\ u.at = "text" <=> r.locator = None
            /\ u.rec = r /\ u.agent.protocol = Reconcile(Head(t.probes), r)
            /\ u.probes = t.probes
  BY ReadIs
<1>2. r = None => u.at = "done" /\ u.agent = Nobody
  <2>1. LET s == Settled(t, Nobody) IN s.at = "done" /\ s.agent = Nobody
    BY SettledIs
  <2>2. QED
    BY <1>1, <2>1
<1> HIDE DEF u
<1>3. CASE r = None
  <2>1. ~Shows(zone, request, world, t.name, probe)
    BY <1>3 DEF Shows, Leads
  <2>2. QED
    BY <1>1, <1>2, <1>3, <2>1 DEF Traces, u
<1>4. CASE Leads(r)
  <2>1. u.at = "alias" /\ u.agent = r.alias /\ Head(u.probes) = probe
    BY <1>1, <1>4 DEF Leads
  <2>2. r = FirstFound(zone, request, t.name, probe)
    BY <1>4
  <2>3. QED
    BY <1>1, <1>4, <2>1, <2>2 DEF Traces, u
<1>5. CASE r # None /\ ~Leads(r)
  <2>1. /\ u.at \in {"describe", "text"} /\ (u.at = "text" => r.locator = None)
        /\ u.rec = r /\ u.agent.protocol = Reconcile(probe, r)
        /\ Head(u.probes) = probe
    BY <1>1, <1>5 DEF Leads
  <2>2. r = PublishedIn(zone, request, t.name, probe)
    BY <1>5
  <2>3. u.agent.protocol = Spoken(zone, request, t.name, probe)
    BY <2>1, <2>2 DEF Spoken
  <2>4. u.at = "text" => ~RefusedIn(world, u.rec)
    BY <2>1 DEF RefusedIn
  <2>5. QED
    BY <1>1, <2>1, <2>2, <2>3, <2>4 DEF Traces, u
<1>6. QED
  BY <1>3, <1>4, <1>5

(* Each step of a query traces on, or its name is disturbed.               *)
Goes(t, u, probe, d) ==
    /\ u.name = t.name
    /\ t.name \in d \/ (Traces(zone, request, world, t, probe) =>
                            Traces(zone, request, world, u, probe))

LEMMA ResolveTraces ==
    ASSUME TypeInv, NEW i \in DOMAIN tasks, Resolve(i), NEW probe
    PROVE  \E u : Step(i, u) /\ Goes(tasks[i], u, probe, disturbed')
<1> DEFINE t == tasks[i]
           r == zone[t.name]
           w == [t EXCEPT !.at = "legacy"]
<1>1. Asked(i, "resolve")
  BY DEF Resolve
<1>2. TaskOK(t) /\ t.at = "resolve" /\ t.name \in Name /\ request \in Arguments
  BY <1>1, AskedFrame
<1>3. Asks(t) /\ Probing(t) /\ t.rec = None
  BY <1>2, StageIs
<1>4. t.name \in Owner
  BY <1>2 DEF Owner
<1>5. r = None \/ (r \in Records \ {None} /\ IsRecord(r))
  BY <1>4, RecordIs DEF TypeInv
<1>6. CASE /\ Step(i, IF r = None /\ request.legacy /\ t.entry = None
                     THEN w ELSE Read(t, r))
           /\ Undisturbed
  <2>1. CASE r = None /\ request.legacy /\ t.entry = None
    <3>1. w.at = "legacy" /\ w.name = t.name /\ w.entry = t.entry /\ w.probes = t.probes
      BY <1>3 DEF Asks, IsTask, TaskFields
    <3> HIDE DEF w
    <3>2. Goes(t, w, probe, disturbed')
      BY <1>2, <2>1, <3>1 DEF Goes, Traces
    <3>3. QED
      BY <1>6, <2>1, <3>2
  <2>2. CASE ~(r = None /\ request.legacy /\ t.entry = None)
    <3>1. Read(t, r).name = t.name
      BY <1>2, <1>3, <1>5, ReadIs
    <3>2. Goes(t, Read(t, r), probe, disturbed')
      <4> SUFFICES ASSUME Traces(zone, request, world, t, probe)
                   PROVE  Traces(zone, request, world, Read(t, r), probe)
        BY <3>1 DEF Goes
      <4>1. t.entry = None /\ probe = Head(t.probes)
        BY <1>2 DEF Traces
      <4>2. r = FirstFound(zone, request, t.name, probe)
        BY <2>2, <4>1 DEF FirstFound
      <4>3. ~Leads(r) => r = PublishedIn(zone, request, t.name, probe)
        BY <4>2 DEF PublishedIn
      <4>4. QED
        BY <1>2, <1>3, <1>5, <4>1, <4>2, <4>3, ReadTraces
    <3>3. QED
      BY <1>6, <2>2, <3>2
  <2>3. QED
    BY <2>1, <2>2
<1>7. CASE Step(i, Settled(t, Nobody)) /\ LostFor(t.name)
  <2>1. Settled(t, Nobody).name = t.name
    BY <1>2, NobodyFound
  <2>2. Goes(t, Settled(t, Nobody), probe, disturbed')
    BY <1>7, <2>1 DEF Goes, LostFor
  <2>3. QED
    BY <1>7, <2>2
<1>8. QED
  BY <1>6, <1>7 DEF Resolve

LEMMA ResolveLegacyTraces ==
    ASSUME TypeInv, NEW i \in DOMAIN tasks, ResolveLegacy(i), NEW probe
    PROVE  \E u : Step(i, u) /\ Goes(tasks[i], u, probe, disturbed')
<1> DEFINE t == tasks[i]
           o == <<t.name, Head(t.probes)>>
           b == [t EXCEPT !.owner = o]
           r == zone[o]
<1>1. Asked(i, "legacy")
  BY DEF ResolveLegacy
<1>2. TaskOK(t) /\ t.at = "legacy" /\ t.name \in Name /\ request \in Arguments
  BY <1>1, AskedFrame
<1>3. Asks(t) /\ Probing(t) /\ t.rec = None
  BY <1>2, StageIs
<1>4. o \in Owner
  BY <1>2, <1>3, LegacyOwnerIs
<1>5. r = None \/ (r \in Records \ {None} /\ IsRecord(r))
  BY <1>4, RecordIs DEF TypeInv
<1>6. /\ Asks(b) /\ Probing(b) /\ b.rec = None /\ b.name = t.name
      /\ b.entry = t.entry /\ b.probes = t.probes
  BY <1>3, OwnedIs
<1> HIDE DEF b
<1>7. CASE Step(i, Read(b, r)) /\ Undisturbed
  <2>1. Read(b, r).name = t.name
    BY <1>2, <1>5, <1>6, ReadIs
  <2>2. Goes(t, Read(b, r), probe, disturbed')
    <3> SUFFICES ASSUME Traces(zone, request, world, t, probe)
                 PROVE  Traces(zone, request, world, Read(b, r), probe)
      BY <2>1 DEF Goes
    <3>1. /\ t.entry = None /\ probe = Head(t.probes)
          /\ zone[t.name] = None /\ request.legacy
      BY <1>2 DEF Traces
    <3>2. r = FirstFound(zone, request, t.name, probe)
      BY <3>1 DEF FirstFound
    <3>3. ~Leads(r) => r = PublishedIn(zone, request, t.name, probe)
      BY <3>2 DEF PublishedIn
    <3>4. QED
      BY <1>2, <1>5, <1>6, <3>1, <3>2, <3>3, ReadTraces
  <2>3. QED
    BY <1>7, <2>2
<1>8. CASE Step(i, Settled(t, Nobody)) /\ LostFor(t.name)
  <2>1. Settled(t, Nobody).name = t.name
    BY <1>2, NobodyFound
  <2>2. Goes(t, Settled(t, Nobody), probe, disturbed')
    BY <1>8, <2>1 DEF Goes, LostFor
  <2>3. QED
    BY <1>8, <2>2
<1>9. QED
  BY <1>7, <1>8 DEF ResolveLegacy, b

LEMMA FollowAliasTraces ==
    ASSUME TypeInv, NEW i \in DOMAIN tasks, FollowAlias(i), NEW probe
    PROVE  \E u : Step(i, u) /\ Goes(tasks[i], u, probe, disturbed')
<1> DEFINE t == tasks[i]
           b == [t EXCEPT !.agent = Nobody]
           r == Behind(zone[t.agent])
<1>1. Asked(i, "alias")
  BY DEF FollowAlias
<1>2. TaskOK(t) /\ t.at = "alias" /\ t.name \in Name /\ request \in Arguments
  BY <1>1, AskedFrame
<1>3. Asks(t) /\ Probing(t) /\ t.rec = None /\ t.agent \in Owner
  BY <1>2, StageIs
<1>4. /\ Asks(b) /\ Probing(b) /\ b.rec = None /\ b.name = t.name
      /\ b.entry = t.entry /\ b.probes = t.probes
  BY <1>3, LooseIs
<1>5. r = None \/ (r \in Records \ {None} /\ IsRecord(r) /\ r.alias = None)
  BY <1>3, BehindIs DEF TypeInv
<1>6. CASE Step(i, Read(b, r)) /\ Undisturbed
  <2> HIDE DEF b, r
  <2>1. Read(b, r).name = t.name
    BY <1>2, <1>4, <1>5, ReadIs
  <2>2. Goes(t, Read(b, r), probe, disturbed')
    <3> SUFFICES ASSUME Traces(zone, request, world, t, probe)
                 PROVE  Traces(zone, request, world, Read(b, r), probe)
      BY <2>1 DEF Goes
    <3>1. /\ t.entry = None /\ probe = Head(t.probes)
          /\ Leads(FirstFound(zone, request, t.name, probe))
          /\ t.agent = FirstFound(zone, request, t.name, probe).alias
      BY <1>2 DEF Traces
    <3>2. r = PublishedIn(zone, request, b.name, probe)
      BY <1>4, <3>1 DEF PublishedIn, r
    <3>3. ~Leads(r)
      BY <1>5 DEF Leads
    <3>4. QED
      BY <1>2, <1>4, <1>5, <3>1, <3>2, <3>3, ReadTraces
  <2>3. QED
    BY <1>6, <2>2
<1>7. CASE Step(i, Settled(t, Nobody)) /\ LostFor(t.name)
  <2>1. Settled(t, Nobody).name = t.name
    BY <1>2, NobodyFound
  <2>2. Goes(t, Settled(t, Nobody), probe, disturbed')
    BY <1>7, <2>1 DEF Goes, LostFor
  <2>3. QED
    BY <1>7, <2>2
<1>8. QED
  BY <1>6, <1>7 DEF FollowAlias


LEMMA BroughtIsSomebody ==
    ASSUME NEW t, Asks(t), NEW a, Brings(t, a)
    PROVE  a # Nobody
BY NobodyHasNoName DEF Brings, Asks

LEMMA UnreachableIs ==
    ASSUME NEW t, TaskOK(t), t.at = "describe"
    PROVE  LET v == Unreachable(t)
           IN  /\ TaskOK(v) /\ v.at = "text" /\ v.name = t.name /\ v.entry = t.entry
               /\ v.rec = t.rec /\ v.probes = t.probes /\ SameKey(t.agent, v.agent)
<1> DEFINE v == [t EXCEPT !.at = "text", !.agent.from = "descriptor_unreachable"]
<1>1. /\ TaskOK(v) /\ v.at = "text" /\ v.name = t.name /\ v.entry = t.entry
      /\ v.rec = t.rec /\ v.probes = t.probes /\ SameKey(t.agent, v.agent)
  BY ToTextIs
<1>2. Unreachable(t) = v
  BY DEF Unreachable
<1> HIDE DEF v
<1>3. QED
  BY <1>1, <1>2

LEMMA DescribeTraces ==
    ASSUME TypeInv, NEW i \in DOMAIN tasks, Describe(i), NEW probe
    PROVE  \E u : Step(i, u) /\ Goes(tasks[i], u, probe, disturbed')
<1> DEFINE t == tasks[i]
           doc == world.document[t.rec.endpoint]
           u == AfterDescriptor(t, doc)
           v == Unreachable(t)
<1>1. Asked(i, "describe")
  BY DescribeDoes
<1>2. TaskOK(t) /\ t.at = "describe" /\ request \in Arguments
  BY <1>1, AskedFrame
<1>3. /\ Asks(t) /\ t.rec \in Records \ {None} /\ t.rec.locator # None
  BY <1>2, StageIs DEF Describing
<1>4. t.rec.locator \in {"cap_uri", "well_known", None}
  BY <1>3, ScenesAssumption DEF IsRecord
<1>5. CASE doc # None /\ Step(i, u) /\ Undisturbed
  <2>1. /\ u.name = t.name /\ u.entry = t.entry
        /\ t.entry = None =>
              IF t.rec.pin \notin {None, doc.id}
              THEN u.at = "done" /\ u.agent = Nobody
              ELSE /\ SameKey(t.agent, u.agent) /\ Brings(t, u.agent)
                   /\ u.at = "done" \/
                      (u.at = "text" /\ u.rec = t.rec /\ u.probes = t.probes)
    BY <1>2, <1>4, AfterDescriptorIs
  <2>2. Brings(t, u.agent) => u.agent # Nobody
    BY <1>3, BroughtIsSomebody
  <2> HIDE DEF u
  <2>3. Goes(t, u, probe, disturbed')
    <3> SUFFICES ASSUME Traces(zone, request, world, t, probe)
                 PROVE  Traces(zone, request, world, u, probe)
      BY <2>1 DEF Goes
    <3>1. /\ t.entry = None /\ probe = Head(t.probes)
          /\ t.rec = PublishedIn(zone, request, t.name, probe)
          /\ t.agent.protocol = Spoken(zone, request, t.name, probe)
      BY <1>2 DEF Traces
    <3>2. CASE t.rec.pin \notin {None, doc.id}
      <4>1. u.at = "done" /\ u.agent = Nobody
        BY <2>1, <3>1, <3>2
      <4>2. RefusedIn(world, t.rec)
        BY <1>3, <1>5, <3>2 DEF RefusedIn
      <4>3. ~Shows(zone, request, world, t.name, probe)
        BY <3>1, <4>2 DEF Shows
      <4>4. QED
        BY <2>1, <3>1, <4>1, <4>3 DEF Traces
    <3>3. CASE t.rec.pin \in {None, doc.id}
      <4>1. /\ u.agent.protocol = t.agent.protocol /\ u.agent # Nobody
            /\ u.at = "done" \/ (u.at = "text" /\ u.rec = t.rec /\ u.probes = t.probes)
        BY <2>1, <2>2, <3>1, <3>3 DEF SameKey
      <4>2. ~RefusedIn(world, t.rec)
        BY <3>3 DEF RefusedIn
      <4>3. Shows(zone, request, world, t.name, probe)
        BY <1>3, <3>1, <4>2 DEF Shows
      <4>4. QED
        BY <2>1, <3>1, <4>1, <4>2, <4>3 DEF Traces
    <3>4. QED
      BY <3>2, <3>3
  <2>4. QED
    BY <1>5, <2>3
<1>6. CASE doc = None /\ Step(i, v)
  <2>1. /\ v.at = "text" /\ v.name = t.name /\ v.entry = t.entry
        /\ v.rec = t.rec /\ v.probes = t.probes /\ SameKey(t.agent, v.agent)
    BY <1>2, UnreachableIs
  <2> HIDE DEF v
  <2>2. ~RefusedIn(world, t.rec)
    BY <1>6 DEF RefusedIn
  <2>3. Goes(t, v, probe, disturbed')
    BY <1>2, <2>1, <2>2 DEF Goes, Traces, SameKey
  <2>4. QED
    BY <1>6, <2>3
<1>7. CASE Step(i, v) /\ LostFor(t.name)
  <2>1. v.name = t.name
    BY <1>2, UnreachableIs
  <2>2. Goes(t, v, probe, disturbed')
    BY <1>7, <2>1 DEF Goes, LostFor
  <2>3. QED
    BY <1>7, <2>2
<1>8. QED
  BY <1>5, <1>6, <1>7, DescribeDoes

LEMMA ReadTextTraces ==
    ASSUME TypeInv, NEW i \in DOMAIN tasks, ReadText(i), NEW probe
    PROVE  \E u : Step(i, u) /\ Goes(tasks[i], u, probe, disturbed')
<1> DEFINE t == tasks[i]
           b == [t.agent EXCEPT !.caps = "text", !.from = "txt_fallback"]
<1>1. Asked(i, "text")
  BY DEF ReadText
<1>2. TaskOK(t) /\ t.at = "text" /\ request \in Arguments
  BY <1>1, AskedFrame
<1>3. /\ Asks(t) /\ Probing(t) /\ Brings(t, t.agent) /\ t.agent.pinned = FALSE
      /\ t.rec # None
  BY <1>2, StageIs DEF Describing
<1>4. Brings(t, b) /\ SameKey(t.agent, b)
  BY <1>3, TextedIs
<1> HIDE DEF b
<1>5. ASSUME NEW a, Brings(t, a), SameKey(t.agent, a)
      PROVE  Goes(t, Settled(t, a), probe, disturbed')
  <2> DEFINE u == Settled(t, a)
  <2>1. /\ u.name = t.name /\ u.entry = t.entry
        /\ t.entry = None => u.at = "done" /\ u.agent = a
    BY <1>2, <1>3, <1>5, SettledIs
  <2>2. a # Nobody
    BY <1>3, <1>5, BroughtIsSomebody
  <2> HIDE DEF u
  <2>3. Traces(zone, request, world, t, probe) =>
           Shows(zone, request, world, t.name, probe)
    BY <1>2, <1>3 DEF Traces, Shows
  <2>4. QED
    BY <1>2, <1>5, <2>1, <2>2, <2>3 DEF Goes, Traces, SameKey, u
<1>6. CASE Step(i, Settled(t, b))
  BY <1>4, <1>5, <1>6
<1>7. CASE Step(i, Settled(t, t.agent))
  BY <1>3, <1>5, <1>7 DEF SameKey
<1>8. QED
  BY <1>6, <1>7 DEF ReadText, b

LEMMA ReadArdCardTraces ==
    ASSUME TypeInv, NEW i \in DOMAIN tasks, ReadArdCard(i), NEW probe
    PROVE  \E u : Step(i, u) /\ Goes(tasks[i], u, probe, disturbed')
<1> DEFINE t == tasks[i]
<1>1. Asked(i, "card")
  BY DEF ReadArdCard
<1>2. TaskOK(t) /\ t.at = "card" /\ t.name \in Name
  BY <1>1, AskedFrame
<1>3. Asks(t) /\ Brings(t, t.agent) /\ t.agent.pinned = FALSE /\ t.entry # None
  BY <1>2, StageIs
<1>4. ~Traces(zone, request, world, t, probe)
  BY <1>3 DEF Traces
<1>5. PICK a : Step(i, Answered(t.name, t.entry, a))
  BY DEF ReadArdCard
<1>6. Answered(t.name, t.entry, a).name = t.name
  BY DEF Answered, Task
<1>7. Goes(t, Answered(t.name, t.entry, a), probe, disturbed')
  BY <1>4, <1>6 DEF Goes
<1>8. QED
  BY <1>5, <1>7

LEMMA QueryTraces ==
    ASSUME TypeInv, NEW i \in DOMAIN tasks, Query(i), NEW probe
    PROVE  /\ DOMAIN tasks' = DOMAIN tasks
           /\ \A j \in DOMAIN tasks :
                 /\ tasks'[j].name = tasks[j].name
                 /\ tasks[j].name \in disturbed'
                    \/ (Traces(zone, request, world, tasks[j], probe) =>
                           Traces(zone, request, world, tasks'[j], probe))
<1>1. PICK u : Step(i, u) /\ Goes(tasks[i], u, probe, disturbed')
  BY ResolveTraces, ResolveLegacyTraces, FollowAliasTraces, DescribeTraces,
     ReadTextTraces, ReadArdCardTraces DEF Query
<1>2. /\ DOMAIN tasks' = DOMAIN tasks /\ tasks'[i] = u
      /\ \A j \in DOMAIN tasks \ {i} : tasks'[j] = tasks[j]
  BY <1>1, AlteredIsList DEF Step, TypeInv, Queries
<1>3. QED
  BY <1>1, <1>2 DEF Goes


(* The queries a call begins with cover what it calls for.                 *)
LEMMA BeginsCovers ==
    ASSUME NEW ts, NEW d,
           \A i \in DOMAIN ts : \E n \in Name, probe \in Protocols :
              <<n, probe>> \in Called(index, request) /\ ts[i] = Asking(n, probe),
           \A n \in Name, probe \in Protocols :
              <<n, probe>> \in Called(index, request) =>
                 \E i \in DOMAIN ts : ts[i] = Asking(n, probe)
    PROVE  Covers(zone, index, request, world, ts, d)
<1>1. \A n \in Name, probe \in Protocols :
         /\ Asking(n, probe).name = n
         /\ Traces(zone, request, world, Asking(n, probe), probe)
  <2> TAKE n \in Name, probe \in Protocols
  <2>1. /\ Asking(n, probe).name = n /\ Asking(n, probe).probes = <<probe>>
        /\ Asking(n, probe).at = "resolve" /\ Asking(n, probe).entry = None
    BY AskingIs
  <2>2. Head(<<probe>>) = probe
    OBVIOUS
  <2>3. QED
    BY <2>1, <2>2 DEF Traces
<1>2. ASSUME NEW i \in DOMAIN ts
      PROVE  \E probe \in Protocols :
                /\ <<ts[i].name, probe>> \in Called(index, request)
                /\ Traces(zone, request, world, ts[i], probe)
  <2>1. PICK n \in Name, probe \in Protocols :
           <<n, probe>> \in Called(index, request) /\ ts[i] = Asking(n, probe)
    OBVIOUS
  <2>2. ts[i].name = n /\ Traces(zone, request, world, ts[i], probe)
    BY <1>1, <2>1
  <2>3. QED
    BY <2>1, <2>2
<1>3. ASSUME NEW n \in Name, NEW probe \in Protocols,
             <<n, probe>> \in Called(index, request)
      PROVE  \E i \in DOMAIN ts :
                ts[i].name = n /\ Traces(zone, request, world, ts[i], probe)
  <2>1. PICK i \in DOMAIN ts : ts[i] = Asking(n, probe)
    BY <1>3
  <2>2. QED
    BY <1>1, <2>1
<1>4. QED
  BY <1>2, <1>3 DEF Covers

LEMMA NothingIsCovered ==
    ASSUME Queries
    PROVE  Covers(zone, index, request, world, tasks, Name)
<1>1. \A i \in DOMAIN tasks : tasks[i].name \in Name
  BY DEF Queries, TaskOK, Asks
<1>2. QED
  BY <1>1 DEF Covers

LEMMA AskForOneCovers ==
    ASSUME TypeInv, AskForOne, NEW d
    PROVE  Covers(zone, index, request, world, tasks', d)
<1> DEFINE ts == <<Asking(request.name, request.protocol)>>
<1>1. request.name \in Name /\ request.protocol \in Protocols
  BY RequestIs DEF AskForOne, Arguments, TypeInv
<1>2. Called(index, request) = {<<request.name, request.protocol>>}
  BY DEF Called, AskForOne
<1>3. tasks' = ts
  BY DEF AskForOne, Begins
<1>4. DOMAIN ts = {1} /\ ts[1] = Asking(request.name, request.protocol)
  OBVIOUS
<1> HIDE DEF ts
<1>5. QED
  BY <1>1, <1>2, <1>3, <1>4, BeginsCovers

LEMMA CommonCovers ==
    ASSUME TypeInv, index = <<>>, None \in {request.name, request.protocol}, NEW d
    PROVE  Covers(zone, index, request, world, CommonTasks, d)
<1> DEFINE under(p) == [i \in DOMAIN Common |-> Asking(Common[i], p)]
           L == Len(Common)
           ts == CommonTasks
<1>1. /\ DOMAIN Common = 1..L /\ L \in Nat
      /\ \A i \in DOMAIN Common : Common[i] \in Name
      /\ ToSet(Common) = {Common[i] : i \in 1..L}
  BY DiscoveryAssumption DEF ToSet
<1>2. request.protocol \in Protocols \cup {None}
  BY RequestIs DEF Arguments, TypeInv
<1>3. \A n, p : <<n, p>> \in Called(index, request) <=>
         n \in ToSet(Common) /\ p \in Protocols /\ request.protocol \in {None, p}
  BY DEF Called
<1>4. CASE request.protocol = None
  <2> DEFINE first == under("mcp")
             second == under("a2a")
  <2>1. ts = first \o second
    BY <1>4 DEF CommonTasks
  <2>2. /\ DOMAIN first = 1..L /\ \A i \in 1..L : first[i] = Asking(Common[i], "mcp")
        /\ DOMAIN second = 1..L /\ \A i \in 1..L : second[i] = Asking(Common[i], "a2a")
        /\ \E V : first \in Seq(V) /\ second \in Seq(V)
        /\ Len(first) = L /\ Len(second) = L
    <3>1. /\ DOMAIN first = 1..L /\ first = [i \in 1..L |-> first[i]]
          /\ DOMAIN second = 1..L /\ second = [i \in 1..L |-> second[i]]
          /\ \A i \in 1..L : first[i] = Asking(Common[i], "mcp")
          /\ \A i \in 1..L : second[i] = Asking(Common[i], "a2a")
      BY <1>1
    <3> DEFINE V == {first[i] : i \in 1..L} \cup {second[i] : i \in 1..L}
    <3> HIDE DEF first, second
    <3>2. \A i \in 1..L : first[i] \in V /\ second[i] \in V
      OBVIOUS
    <3> HIDE DEF V
    <3>3. first \in [1..L -> V] /\ second \in [1..L -> V]
      BY <3>1, <3>2
    <3>4. first \in Seq(V) /\ second \in Seq(V) /\ Len(first) = L /\ Len(second) = L
      BY <1>1, <3>3
    <3>5. QED
      BY <3>1, <3>4
  <2> HIDE DEF first, second, ts
  <2>3. /\ DOMAIN ts = 1..(L + L)
        /\ \A i \in 1..(L + L) : ts[i] = IF i <= L THEN first[i] ELSE second[i - L]
    <3>1. PICK V : first \in Seq(V) /\ second \in Seq(V)
      BY <2>2
    <3>2. /\ ts \in Seq(V) /\ Len(ts) = L + L
          /\ \A i \in 1..(L + L) : ts[i] = IF i <= L THEN first[i] ELSE second[i - L]
      <4>1. /\ first \o second \in Seq(V)
            /\ Len(first \o second) = Len(first) + Len(second)
            /\ \A i \in 1..(Len(first) + Len(second)) : (first \o second)[i] =
                  IF i <= Len(first) THEN first[i] ELSE second[i - Len(first)]
        BY <3>1, ConcatProperties
      <4>2. QED
        BY <2>1, <2>2, <4>1
    <3>3. QED
      BY <3>2
  <2>4. ASSUME NEW i \in DOMAIN ts
        PROVE  \E n \in Name, p \in Protocols :
                  <<n, p>> \in Called(index, request) /\ ts[i] = Asking(n, p)
    <3>1. CASE i <= L
      <4>1. i \in 1..L /\ ts[i] = Asking(Common[i], "mcp")
        BY <1>1, <2>2, <2>3, <3>1
      <4>2. <<Common[i], "mcp">> \in Called(index, request)
        BY <1>1, <1>3, <1>4, <4>1 DEF Protocols
      <4>3. QED
        BY <1>1, <4>1, <4>2 DEF Protocols
    <3>2. CASE ~(i <= L)
      <4>1. i - L \in 1..L /\ ts[i] = Asking(Common[i - L], "a2a")
        BY <1>1, <2>2, <2>3, <3>2
      <4>2. <<Common[i - L], "a2a">> \in Called(index, request)
        BY <1>1, <1>3, <1>4, <4>1 DEF Protocols
      <4>3. QED
        BY <1>1, <4>1, <4>2 DEF Protocols
    <3>3. QED
      BY <3>1, <3>2
  <2>5. ASSUME NEW n \in Name, NEW p \in Protocols, <<n, p>> \in Called(index, request)
        PROVE  \E i \in DOMAIN ts : ts[i] = Asking(n, p)
    <3>1. PICK k \in 1..L : n = Common[k]
      BY <1>1, <1>3, <2>5
    <3>2. k \in DOMAIN ts /\ ts[k] = Asking(n, "mcp")
      BY <1>1, <2>2, <2>3, <3>1
    <3>3. k + L \in DOMAIN ts /\ ts[k + L] = Asking(n, "a2a")
      <4>1. k + L \in 1..(L + L) /\ ~(k + L <= L) /\ (k + L) - L = k
        BY <1>1
      <4>2. QED
        BY <2>2, <2>3, <3>1, <4>1
    <3>4. QED
      BY <3>2, <3>3 DEF Protocols
  <2>6. QED
    BY <2>4, <2>5, BeginsCovers DEF ts
<1>5. CASE request.protocol # None
  <2>1. ts = under(request.protocol)
    BY <1>5 DEF CommonTasks
  <2>2. DOMAIN ts = 1..L /\ \A i \in 1..L : ts[i] = Asking(Common[i], request.protocol)
    BY <1>1, <2>1
  <2> HIDE DEF ts
  <2>3. ASSUME NEW i \in DOMAIN ts
        PROVE  \E n \in Name, p \in Protocols :
                  <<n, p>> \in Called(index, request) /\ ts[i] = Asking(n, p)
    <3>1. /\ Common[i] \in Name /\ Common[i] \in ToSet(Common)
          /\ request.protocol \in Protocols
      BY <1>1, <1>2, <1>5, <2>2
    <3>2. <<Common[i], request.protocol>> \in Called(index, request)
      BY <1>3, <3>1
    <3>3. QED
      BY <2>2, <3>1, <3>2
  <2>4. ASSUME NEW n \in Name, NEW p \in Protocols, <<n, p>> \in Called(index, request)
        PROVE  \E i \in DOMAIN ts : ts[i] = Asking(n, p)
    <3>1. PICK k \in 1..L : n = Common[k]
      BY <1>1, <1>3, <2>4
    <3>2. p = request.protocol
      BY <1>3, <1>5, <2>4
    <3>3. QED
      BY <2>2, <3>1, <3>2
  <2>5. QED
    BY <2>3, <2>4, BeginsCovers DEF ts
<1>6. QED
  BY <1>4, <1>5


LEMMA IndexCovers ==
    ASSUME TypeInv, index # <<>>, Len(index) <= Capacity,
           None \in {request.name, request.protocol}, NEW d
    PROVE  Covers(zone, index, request, world, IndexTasks(FirstString(index)), d)
<1> DEFINE ts == IndexTasks(index)
<1>1. /\ index \in Seq(Name \X (Protocols \cup {Unknown}))
      /\ \A k \in DOMAIN index : index[k] \in Name \X (Protocols \cup {Unknown})
  BY DEF TypeInv, Grounds
<1>2. FirstString(index) = index
  BY <1>1, FirstStringIs
<1>3. /\ \A i \in DOMAIN ts : \E k \in DOMAIN index :
            Wanted(index[k]) /\ ts[i] = Asking(index[k][1], index[k][2])
      /\ \A k \in DOMAIN index : Wanted(index[k]) =>
            \E i \in DOMAIN ts : ts[i] = Asking(index[k][1], index[k][2])
  BY <1>1, IndexTasksAre
<1>4. \A e : e \in Called(index, request) <=> e \in ToSet(index) /\ Wanted(e)
  BY DEF Called, Wanted
<1>5. \A e : e \in ToSet(index) <=> \E k \in DOMAIN index : e = index[k]
  BY DEF ToSet
<1> HIDE DEF ts
<1>6. ASSUME NEW i \in DOMAIN ts
      PROVE  \E n \in Name, p \in Protocols :
                <<n, p>> \in Called(index, request) /\ ts[i] = Asking(n, p)
  <2>1. PICK k \in DOMAIN index :
           Wanted(index[k]) /\ ts[i] = Asking(index[k][1], index[k][2])
    BY <1>3
  <2>2. /\ index[k][1] \in Name /\ index[k][2] \in Protocols
        /\ index[k] = <<index[k][1], index[k][2]>>
    BY <1>1, <2>1 DEF Wanted
  <2>3. index[k] \in Called(index, request)
    BY <1>4, <1>5, <2>1
  <2>4. QED
    BY <2>1, <2>2, <2>3
<1>7. ASSUME NEW n \in Name, NEW p \in Protocols, <<n, p>> \in Called(index, request)
      PROVE  \E i \in DOMAIN ts : ts[i] = Asking(n, p)
  <2>1. PICK k \in DOMAIN index : <<n, p>> = index[k]
    BY <1>4, <1>5, <1>7
  <2>2. Wanted(index[k]) /\ index[k][1] = n /\ index[k][2] = p
    BY <1>4, <1>7, <2>1
  <2>3. QED
    BY <1>3, <2>2
<1>8. Covers(zone, index, request, world, ts, d)
  BY <1>6, <1>7, BeginsCovers
<1>9. QED
  BY <1>2, <1>8 DEF ts

(* A change of n's record is seen only where n is looked up.               *)
LEMMA ElsewhereUnseen ==
    ASSUME TypeInv, NEW n \in Name, Republish(n), NEW m \in Name, m \notin LeadTo(n),
           NEW probe \in Protocols
    PROVE  /\ zone'[m] = zone[m]
           /\ FirstFound(zone', request, m, probe) = FirstFound(zone, request, m, probe)
           /\ PublishedIn(zone', request, m, probe) = PublishedIn(zone, request, m, probe)
<1> DEFINE o == <<m, probe>>
           r == FirstFound(zone, request, m, probe)
<1>1. PICK x : zone' = [zone EXCEPT ![n] = x]
  BY DEF Republish
<1>2. zone \in [Owner -> Records \cup {None}] /\ \A y \in Name : y \in Owner
  BY DEF TypeInv, Grounds, Owner
<1>3. \A y : y # n => zone'[y] = zone[y]
  BY <1>1, <1>2
<1>4. m # n /\ o # n
  <2>1. m # n
    BY DEF LeadTo
  <2>2. o \in LegacyOwner
    BY DEF LegacyOwner
  <2> HIDE DEF o
  <2>3. o # n
    BY <2>2, DiscoveryAssumption
  <2>4. QED
    BY <2>1, <2>3
<1>5. /\ zone[m] # None => zone[m].alias # n
      /\ zone[o] # None => zone[o].alias # n
  <2>1. m \in {m} \cup ({m} \X Protocols) /\ o \in {m} \cup ({m} \X Protocols)
    OBVIOUS
  <2>2. \A y \in {m} \cup ({m} \X Protocols) : zone[y] # None => zone[y].alias # n
    BY DEF LeadTo
  <2> HIDE DEF o
  <2>3. QED
    BY <2>1, <2>2
<1>6. zone'[m] = zone[m] /\ zone'[o] = zone[o]
  BY <1>3, <1>4
<1>7. FirstFound(zone', request, m, probe) = r
  BY <1>6 DEF FirstFound
<1>8. Leads(r) => r.alias # n
  BY <1>5 DEF Leads, FirstFound
<1> HIDE DEF r
<1>9. Leads(r) => zone'[r.alias] = zone[r.alias]
  BY <1>3, <1>8
<1>10. PublishedIn(zone', request, m, probe) = PublishedIn(zone, request, m, probe)
  BY <1>7, <1>9 DEF PublishedIn, r
<1>11. QED
  BY <1>6, <1>7, <1>10 DEF r

LEMMA RepublishCovers ==
    ASSUME TypeInv, NEW n \in Name, Republish(n),
           Covers(zone, index, request, world, tasks, disturbed)
    PROVE  Covers(zone', index, request, world, tasks, disturbed')
<1>1. disturbed' = disturbed \cup LeadTo(n)
  BY DEF Republish
<1>2. \A i \in DOMAIN tasks : tasks[i].name \in Name
  BY DEF TypeInv, Queries, TaskOK, Asks
<1>3. ASSUME NEW t, t.name \in Name, t.name \notin disturbed', NEW probe \in Protocols,
             Traces(zone, request, world, t, probe)
      PROVE  Traces(zone', request, world, t, probe)
  <2>1. /\ zone'[t.name] = zone[t.name]
        /\ FirstFound(zone', request, t.name, probe)
              = FirstFound(zone, request, t.name, probe)
        /\ PublishedIn(zone', request, t.name, probe)
              = PublishedIn(zone, request, t.name, probe)
    BY <1>1, <1>3, ElsewhereUnseen
  <2>2. QED
    BY <1>3, <2>1 DEF Traces, Shows, Spoken
<1>4. ASSUME NEW i \in DOMAIN tasks, tasks[i].name \notin disturbed'
      PROVE  \E probe \in Protocols :
                /\ <<tasks[i].name, probe>> \in Called(index, request)
                /\ Traces(zone', request, world, tasks[i], probe)
  <2>1. PICK probe \in Protocols :
           /\ <<tasks[i].name, probe>> \in Called(index, request)
           /\ Traces(zone, request, world, tasks[i], probe)
    BY <1>1, <1>4 DEF Covers
  <2>2. QED
    BY <1>2, <1>3, <1>4, <2>1
<1>5. ASSUME NEW m \in Name, NEW probe \in Protocols, m \notin disturbed',
             <<m, probe>> \in Called(index, request)
      PROVE  \E i \in DOMAIN tasks :
                tasks[i].name = m /\ Traces(zone', request, world, tasks[i], probe)
  <2>1. PICK i \in DOMAIN tasks :
           tasks[i].name = m /\ Traces(zone, request, world, tasks[i], probe)
    BY <1>1, <1>5 DEF Covers
  <2>2. QED
    BY <1>3, <1>5, <2>1
<1>6. QED
  BY <1>4, <1>5 DEF Covers

(* An edit of the index changes what is called for under one name only,    *)
(* unless the index comes or goes.                                         *)
LEMMA EditedCalls ==
    ASSUME TypeInv, NEW n \in Name, EditIndex(n)
    PROVE  /\ Len(index) <= Capacity => Len(index') <= Capacity
           /\ \A m, probe : m \notin disturbed' /\ m \in Name =>
                 (<<m, probe>> \in Called(index', request)
                     <=> <<m, probe>> \in Called(index, request))
<1> DEFINE V == Name \X (Protocols \cup {Unknown})
           kept == {i \in DOMAIN index : index[i][1] # n}
           new == <<n, "mcp">>
<1>1. index \in Seq(V) /\ new \in V /\ Len(index) \in Nat /\ Capacity \in Nat
  BY DiscoveryAssumption DEF TypeInv, Grounds, Protocols
<1>2. \A e, ix : e \in ToSet(ix) <=> \E k \in DOMAIN ix : e = ix[k]
  BY DEF ToSet
<1>a. kept \in SUBSET (DOMAIN index) /\ \A k \in DOMAIN index : k \in kept <=> index[k][1] # n
  OBVIOUS
<1>n. new[1] = n
  OBVIOUS
<1>3. /\ Len(index) <= Capacity => Len(index') <= Capacity
      /\ \A e : e[1] # n => (e \in ToSet(index') <=> e \in ToSet(index))
  <2>1. CASE Len(index) < Capacity /\ index' = Append(index, new)
    <3> HIDE DEF V, kept, new
    <3>1. /\ Len(index') = Len(index) + 1 /\ DOMAIN index' = 1..(Len(index) + 1)
          /\ DOMAIN index = 1..Len(index)
          /\ \A k \in 1..Len(index) : index'[k] = index[k]
          /\ index'[Len(index) + 1] = new
      BY <1>1, <2>1
    <3>2. \A k \in DOMAIN index' : k = Len(index) + 1 \/ (k \in DOMAIN index /\ index'[k] = index[k])
      BY <1>1, <3>1
    <3>3. \A k \in DOMAIN index : k \in DOMAIN index' /\ index'[k] = index[k]
      BY <1>1, <3>1
    <3>4. \A e : e[1] # n => (e \in ToSet(index') <=> e \in ToSet(index))
      BY <1>2, <1>n, <3>1, <3>2, <3>3
    <3>5. Len(index') <= Capacity
      BY <1>1, <2>1, <3>1
    <3>6. QED
      BY <3>4, <3>5
  <2>2. CASE index' = Pick(index, kept)
    <3> HIDE DEF V, kept, new
    <3>1. /\ Len(index') = Cardinality(kept) /\ Cardinality(kept) \in 0..Len(index)
          /\ DOMAIN index' = 1..Cardinality(kept)
          /\ \A m \in 1..Cardinality(kept) : \E i \in kept : index'[m] = index[i]
          /\ \A i \in kept : \E m \in 1..Cardinality(kept) : index'[m] = index[i]
      <4> DEFINE picked == Pick(index, kept)
      <4>1. /\ Len(picked) = Cardinality(kept) /\ Cardinality(kept) \in 0..Len(index)
            /\ DOMAIN picked = 1..Cardinality(kept)
            /\ \A m \in 1..Cardinality(kept) : \E i \in kept : picked[m] = index[i]
            /\ \A i \in kept : \E m \in 1..Cardinality(kept) : picked[m] = index[i]
        BY <1>1, <1>a, PickKeeps
      <4>2. index' = picked
        BY <2>2
      <4> HIDE DEF picked
      <4>3. QED
        BY <4>1, <4>2
    <3>2. Len(index') <= Len(index)
      BY <1>1, <3>1
    <3>3. \A e : e \in ToSet(index') => e \in ToSet(index)
      BY <1>2, <1>a, <3>1
    <3>4. ASSUME NEW e, e[1] # n, e \in ToSet(index)
          PROVE  e \in ToSet(index')
      <4>1. PICK k \in DOMAIN index : e = index[k]
        BY <1>2, <3>4
      <4>2. k \in kept
        BY <1>a, <3>4, <4>1
      <4>3. PICK m \in DOMAIN index' : index'[m] = index[k]
        BY <3>1, <4>2
      <4>4. QED
        BY <1>2, <4>1, <4>3
    <3>5. Len(index) <= Capacity => Len(index') <= Capacity
      <4>1. Len(index') \in Nat
        BY <3>1
      <4>2. QED
        BY <1>1, <3>2, <4>1
    <3>6. QED
      BY <3>3, <3>4, <3>5
  <2>3. QED
    BY <2>1, <2>2 DEF EditIndex
<1> HIDE DEF V, kept, new
<1>4. ASSUME NEW m \in Name, NEW probe, m \notin disturbed'
      PROVE  <<m, probe>> \in Called(index', request)
                <=> <<m, probe>> \in Called(index, request)
  <2>1. <<>> \notin {index, index'} /\ m # n
    BY <1>4 DEF EditIndex
  <2>2. <<m, probe>> \in ToSet(index') <=> <<m, probe>> \in ToSet(index)
    BY <1>3, <2>1
  <2>3. CASE None \notin {request.name, request.protocol}
    BY <2>3 DEF Called
  <2>4. CASE None \in {request.name, request.protocol}
    BY <2>1, <2>2, <2>4 DEF Called
  <2>5. QED
    BY <2>3, <2>4
<1>5. QED
  BY <1>3, <1>4

-----------------------------------------------------------------------------
(* The merge hands on what is on show, and the gates keep who it is.       *)

LEMMA GatherIsExact ==
    ASSUME TypeInv, Gather, ~request.http,
           Covers(zone, index, request, world, tasks, disturbed)
    PROVE  Exact(zone, index, request, world, agents', disturbed)
<1>1. ASSUME NEW i \in DOMAIN tasks
      PROVE  /\ tasks[i].at = "done"
             /\ tasks[i].agent # Nobody => tasks[i].agent.name = tasks[i].name
             /\ Brings(tasks[i], tasks[i].agent) =>
                   tasks[i].agent # Nobody /\ tasks[i].name \in Name
  <2>1. TaskOK(tasks[i]) /\ tasks[i].at = "done"
    BY DEF TypeInv, Queries, Gather
  <2>2. Asks(tasks[i]) /\ (tasks[i].agent = Nobody \/ Brings(tasks[i], tasks[i].agent))
    BY <2>1, StageIs
  <2>3. QED
    BY <2>1, <2>2, BroughtIsSomebody DEF Brings, Asks
<1>2. ASSUME NEW m \in DOMAIN agents', agents'[m].name \notin disturbed
      PROVE  \E probe \in Protocols :
                /\ <<agents'[m].name, probe>> \in Called(index, request)
                /\ request.name \in {None, agents'[m].name}
                /\ Shows(zone, request, world, agents'[m].name, probe)
                /\ agents'[m].protocol
                      = Spoken(zone, request, agents'[m].name, probe)
  <2>1. PICK i \in DOMAIN tasks :
           /\ Brings(tasks[i], tasks[i].agent) /\ Wants(tasks[i].agent)
           /\ HandedOn(tasks[i].agent, agents'[m])
    BY GatherFinds
  <2>2. /\ SameKey(tasks[i].agent, agents'[m]) /\ tasks[i].agent.name = tasks[i].name
        /\ tasks[i].agent # Nobody
    BY <1>1, <2>1 DEF HandedOn, Alike, Brings
  <2>3. tasks[i].name = agents'[m].name
    BY <2>2 DEF SameKey
  <2>4. PICK probe \in Protocols :
           /\ <<tasks[i].name, probe>> \in Called(index, request)
           /\ Traces(zone, request, world, tasks[i], probe)
    BY <1>2, <2>3 DEF Covers
  <2>5. /\ Shows(zone, request, world, tasks[i].name, probe)
        /\ tasks[i].agent.protocol = Spoken(zone, request, tasks[i].name, probe)
    BY <1>1, <2>2, <2>4 DEF Traces
  <2>6. request.name \in {None, tasks[i].name}
    <3>1. CASE None \notin {request.name, request.protocol}
      BY <2>4, <3>1 DEF Called
    <3>2. CASE None \in {request.name, request.protocol}
      BY <2>1, <2>2, <3>2 DEF Wants
    <3>3. QED
      BY <3>1, <3>2
  <2>7. QED
    BY <2>2, <2>3, <2>4, <2>5, <2>6 DEF SameKey
<1>3. ASSUME NEW n \in Name, NEW probe \in Protocols, n \notin disturbed,
             <<n, probe>> \in Called(index, request), request.name \in {None, n},
             Shows(zone, request, world, n, probe)
      PROVE  \E m \in DOMAIN agents' :
                /\ agents'[m].name = n
                /\ agents'[m].protocol = Spoken(zone, request, n, probe)
  <2>1. PICK i \in DOMAIN tasks :
           tasks[i].name = n /\ Traces(zone, request, world, tasks[i], probe)
    BY <1>3 DEF Covers
  <2>2. /\ tasks[i].agent # Nobody
        /\ tasks[i].agent.protocol = Spoken(zone, request, n, probe)
    BY <1>1, <1>3, <2>1 DEF Traces
  <2>3. tasks[i].agent.name = n /\ Wants(tasks[i].agent)
    BY <1>1, <1>3, <2>1, <2>2 DEF Wants
  <2>4. PICK m \in DOMAIN agents' : SameKey(agents'[m], tasks[i].agent)
    BY <2>2, <2>3, GatherFinds
  <2>5. QED
    BY <2>2, <2>3, <2>4 DEF SameKey
<1>4. \A m, l \in DOMAIN agents' : SameKey(agents'[m], agents'[l]) => m = l
  BY GatherFinds
<1>5. QED
  BY <1>2, <1>3, <1>4 DEF Exact

(* The agents after a gate are those before it.                            *)
SameAgents ==
    /\ UNCHANGED <<zone, index, world, request, disturbed>>
    /\ DOMAIN agents' = DOMAIN agents
    /\ \A i \in DOMAIN agents : SameKey(agents[i], agents'[i])

LEMMA SameAgentsAreExact ==
    ASSUME SameAgents, Exact(zone, index, request, world, agents, disturbed)
    PROVE  Exact(zone, index, request, world, agents', disturbed)
<1>1. /\ DOMAIN agents' = DOMAIN agents
      /\ \A i \in DOMAIN agents :
            agents'[i].name = agents[i].name /\ agents'[i].protocol = agents[i].protocol
  BY DEF SameAgents, SameKey
<1>2. ASSUME NEW m \in DOMAIN agents', agents'[m].name \notin disturbed
      PROVE  \E probe \in Protocols :
                /\ <<agents'[m].name, probe>> \in Called(index, request)
                /\ request.name \in {None, agents'[m].name}
                /\ Shows(zone, request, world, agents'[m].name, probe)
                /\ agents'[m].protocol
                      = Spoken(zone, request, agents'[m].name, probe)
  <2>1. /\ m \in DOMAIN agents /\ agents'[m].name = agents[m].name
        /\ agents'[m].protocol = agents[m].protocol
    BY <1>1, <1>2
  <2>2. PICK probe \in Protocols :
           /\ <<agents[m].name, probe>> \in Called(index, request)
           /\ request.name \in {None, agents[m].name}
           /\ Shows(zone, request, world, agents[m].name, probe)
           /\ agents[m].protocol = Spoken(zone, request, agents[m].name, probe)
    BY <1>2, <2>1 DEF Exact
  <2>3. QED
    BY <2>1, <2>2
<1>3. ASSUME NEW n \in Name, NEW probe \in Protocols, n \notin disturbed,
             <<n, probe>> \in Called(index, request), request.name \in {None, n},
             Shows(zone, request, world, n, probe)
      PROVE  \E m \in DOMAIN agents' :
                /\ agents'[m].name = n
                /\ agents'[m].protocol = Spoken(zone, request, n, probe)
  <2>1. PICK m \in DOMAIN agents :
           /\ agents[m].name = n
           /\ agents[m].protocol = Spoken(zone, request, n, probe)
    BY <1>3 DEF Exact
  <2>2. QED
    BY <1>1, <2>1
<1>4. \A m, l \in DOMAIN agents' : SameKey(agents'[m], agents'[l]) => m = l
  <2>1. \A m, l \in DOMAIN agents : SameKey(agents[m], agents[l]) => m = l
    BY DEF Exact
  <2>2. QED
    BY <1>1, <2>1 DEF SameKey
<1>5. QED
  BY <1>2, <1>3, <1>4 DEF Exact

LEMMA CheckDnssecKeeps ==
    ASSUME CallInv, CheckDnssec
    PROVE  SameAgents
<1>1. \A i \in DOMAIN agents : IsAgent(agents[i])
  BY DEF CallInv, TypeInv, Found, Typed
<1>2. CASE agents' = agents
  BY <1>2 DEF CheckDnssec, SameAgents, SameKey
<1>3. CASE \E S : agents' = [i \in DOMAIN agents |->
                                [agents[i] EXCEPT !.dnssec = i \in S]]
  <2>1. PICK S : agents' = [i \in DOMAIN agents |->
                               [agents[i] EXCEPT !.dnssec = i \in S]]
    BY <1>3
  <2>2. ASSUME NEW i \in DOMAIN agents
        PROVE  SameKey(agents[i], agents'[i])
    <3> DEFINE a == agents[i]
               b == [a EXCEPT !.dnssec = i \in S]
    <3>1. agents'[i] = b
      BY <2>1
    <3>2. b.name = a.name /\ b.protocol = a.protocol
      BY <1>1 DEF IsAgent, AgentFields
    <3>3. QED
      BY <3>1, <3>2 DEF SameKey
  <2>3. DOMAIN agents' = DOMAIN agents
    BY <2>1
  <2>4. QED
    BY <2>2, <2>3 DEF CheckDnssec, SameAgents
<1>4. QED
  BY <1>2, <1>3 DEF CheckDnssec

LEMMA EnrichCardsKeeps ==
    ASSUME CallInv, EnrichCards
    PROVE  SameAgents
<1>1. phase = "cards" /\ UNCHANGED <<zone, index, world, request, disturbed>>
  BY DEF EnrichCards
<1>2. \A i \in DOMAIN agents :
         Typed(agents[i]) /\ Pins(agents[i]) /\ Unjudged(agents[i])
  BY <1>1, GateStarts DEF CallInv, Gates
<1>3. PICK lost \in SUBSET world.skills :
         agents' = [i \in DOMAIN agents |->
               LET a == IF ~agents[i].override /\
                           (agents[i].card \/ agents[i].endpoint \in world.skills \ lost)
                        THEN ApplyCard(agents[i]) ELSE agents[i]
               IN  IF request.verify THEN Unsigned(a) ELSE a]
  BY DEF EnrichCards
<1>4. ASSUME NEW i \in DOMAIN agents
      PROVE  SameKey(agents[i], agents'[i])
  <2> DEFINE b == IF ~agents[i].override /\
                     (agents[i].card \/ agents[i].endpoint \in world.skills \ lost)
                  THEN ApplyCard(agents[i]) ELSE agents[i]
  <2>1. agents'[i] = IF request.verify THEN Unsigned(b) ELSE b
    BY <1>3
  <2>2. b \in {agents[i], ApplyCard(agents[i])}
    OBVIOUS
  <2> HIDE DEF b
  <2>3. QED
    BY <1>2, <2>1, <2>2, EnrichedCardIs
<1>5. DOMAIN agents' = DOMAIN agents
  BY <1>3
<1>6. QED
  BY <1>1, <1>4, <1>5 DEF SameAgents

LEMMA CheckKeeps ==
    ASSUME CallInv, NEW i \in DOMAIN agents, VerifyOne(i) \/ CheckDane(i)
    PROVE  SameAgents
<1> DEFINE a == agents[i]
<1>1. IsList(agents) /\ IsAgent(a)
  BY DEF CallInv, TypeInv, Found, Typed
<1>2. \E b : Checked(i, b) /\ SameKey(a, b)
  <2>1. SameKey(a, Judged(a))
    BY <1>1, JudgedIs DEF Judges, Alike
  <2>2. SameKey(a, Verdict(a, "unknown", "no_key", FALSE))
    BY <1>1, VerdictIs DEF Judges, Alike
  <2>3. SameKey(a, [a EXCEPT !.dane = world.tlsa[a.endpoint]]) /\ SameKey(a, a)
    <3>1. LET b == [a EXCEPT !.dane = world.tlsa[a.endpoint]]
          IN  b.name = a.name /\ b.protocol = a.protocol
      BY <1>1 DEF IsAgent, AgentFields
    <3>2. QED
      BY <3>1 DEF SameKey
  <2>4. QED
    BY <2>1, <2>2, <2>3 DEF VerifyOne, CheckDane
<1>3. PICK b : Checked(i, b) /\ SameKey(a, b)
  BY <1>2
<1>4. /\ DOMAIN agents' = DOMAIN agents /\ agents'[i] = b
      /\ \A j \in DOMAIN agents \ {i} : agents'[j] = agents[j]
  BY <1>1, <1>3, AlteredIsList DEF Checked
<1>5. \A j \in DOMAIN agents : SameKey(agents[j], agents'[j])
  BY <1>3, <1>4 DEF SameKey
<1>6. UNCHANGED <<zone, index, world, request, disturbed>>
  BY <1>3 DEF Checked
<1>7. QED
  BY <1>4, <1>5, <1>6 DEF SameAgents

LEMMA BudgetKeeps ==
    ASSUME CallInv, SignatureBudgetEnds \/ StartDane \/ DaneBudgetEnds
    PROVE  SameAgents
<1>1. CASE SignatureBudgetEnds
  <2>1. agents' = [i \in DOMAIN agents |-> NotChecked(agents[i])]
    BY <1>1 DEF SignatureBudgetEnds
  <2>2. ASSUME NEW i \in DOMAIN agents
        PROVE  SameKey(agents[i], agents'[i])
    <3> DEFINE a == agents[i]
               b == [a EXCEPT !.status = "not_checked"]
    <3>1. IsAgent(a)
      BY DEF CallInv, TypeInv, Found, Typed
    <3>2. b.name = a.name /\ b.protocol = a.protocol
      BY <3>1 DEF IsAgent, AgentFields
    <3>3. agents'[i] \in {a, b}
      BY <2>1 DEF NotChecked
    <3>4. QED
      BY <3>2, <3>3 DEF SameKey
  <2>3. DOMAIN agents' = DOMAIN agents
    BY <2>1
  <2>4. QED
    BY <1>1, <2>2, <2>3 DEF SignatureBudgetEnds, SameAgents
<1>2. CASE StartDane \/ DaneBudgetEnds
  BY <1>2 DEF StartDane, DaneBudgetEnds, SameAgents, SameKey
<1>3. QED
  BY <1>1, <1>2

-----------------------------------------------------------------------------
LEMMA NextExact ==
    ASSUME CallInv, ExactInv, [Next]_vars
    PROVE  ExactInv'
<1> SUFFICES ASSUME ~request'.http PROVE ExactInv'
  BY DEF ExactInv
<1>0. /\ TypeInv /\ phase \in Phases
      /\ Queries /\ disturbed \subseteq Name
  BY DEF CallInv, TypeInv, Stands, Counters
<1>q. request' = request
  BY DEF Next, Progress, AskForOne, ReadIndex, FollowPointer, FetchCatalog, Query,
     Resolve, ResolveLegacy, FollowAlias, Describe, ReadText, ReadArdCard, Asked,
     Gather, CheckDnssec, EnrichCards, VerifyOne, CheckDane, Checked,
     SignatureBudgetEnds, StartDane, DaneBudgetEnds, Filter, Republish, EditIndex,
     Changes, vars
<1>x. /\ ~request.http /\ phase # "listing"
      /\ phase \in {"start", "asking"} => Len(index) <= Capacity
      /\ phase = "asking" => Covers(zone, index, request, world, tasks, disturbed)
      /\ Merged => Exact(zone, index, request, world, agents, disturbed)
  BY <1>q DEF ExactInv
<1>s. ASSUME SameAgents, Merged,
             phase' \in {"cards", "signatures", "dane", "done", "refused"}
      PROVE  ExactInv'
  <2>1. Exact(zone, index, request, world, agents', disturbed)
    BY <1>x, <1>s, SameAgentsAreExact
  <2>2. UNCHANGED <<zone, index, world, request, disturbed>>
    BY <1>s DEF SameAgents
  <2>3. QED
    BY <1>s, <2>1, <2>2 DEF ExactInv
<1>1. CASE AskForOne
  <2>1. Covers(zone, index, request, world, tasks', disturbed)
    BY <1>0, <1>1, AskForOneCovers
  <2>2. /\ UNCHANGED <<zone, index, world, request, disturbed>>
        /\ phase = "start" /\ phase' = "asking"
    BY <1>1 DEF AskForOne, Begins, Undisturbed
  <2>3. QED
    BY <1>x, <2>1, <2>2 DEF ExactInv, Merged
<1>2. CASE ReadIndex
  <2>1. /\ UNCHANGED <<zone, index, world, request>>
        /\ phase = "start" /\ phase' = "asking"
        /\ None \in {request.name, request.protocol}
    BY <1>2 DEF ReadIndex, Begins
  <2>2. Covers(zone, index, request, world, tasks', disturbed')
    <3>1. CASE /\ Begins(IF index = <<>> THEN CommonTasks
                         ELSE IndexTasks(FirstString(index)))
               /\ Undisturbed
      <4>1. tasks' = IF index = <<>> THEN CommonTasks
                     ELSE IndexTasks(FirstString(index))
        BY <3>1 DEF Begins
      <4>2. CASE index = <<>>
        BY <1>0, <2>1, <4>1, <4>2, CommonCovers
      <4>3. CASE index # <<>>
        BY <1>0, <1>x, <2>1, <4>1, <4>3, IndexCovers
      <4>4. QED
        BY <4>2, <4>3
    <3>2. CASE disturbed' = Name
      <4>1. Queries'
        BY <1>0, <1>2, ReadIndexTyped DEF TypeInv
      <4>2. \A i \in DOMAIN tasks' : tasks'[i].name \in Name
        BY <4>1 DEF Queries, TaskOK, Asks
      <4>3. QED
        BY <3>2, <4>2 DEF Covers
    <3>3. QED
      BY <1>2, <3>1, <3>2 DEF ReadIndex
  <2>3. QED
    BY <1>x, <2>1, <2>2 DEF ExactInv, Merged
<1>3. CASE FollowPointer \/ FetchCatalog
  BY <1>3, <1>x DEF FollowPointer, FetchCatalog
<1>4. ASSUME NEW i \in DOMAIN tasks, Query(i)
      PROVE  ExactInv'
  <2>1. PICK stage : Asked(i, stage)
    BY <1>4 DEF Query, Resolve, ResolveLegacy, FollowAlias, Describe, ReadText, ReadArdCard
  <2>2. /\ UNCHANGED <<zone, index, world, request>>
        /\ phase = "asking" /\ phase' = "asking"
    BY <2>1 DEF Asked
  <2>3. disturbed \subseteq disturbed'
    BY <1>4 DEF Query, Resolve, ResolveLegacy, FollowAlias, Describe, ReadText,
       ReadArdCard, Undisturbed, LostFor
  <2>4. \A probe : /\ DOMAIN tasks' = DOMAIN tasks
                   /\ \A j \in DOMAIN tasks :
                         /\ tasks'[j].name = tasks[j].name
                         /\ tasks[j].name \in disturbed'
                            \/ (Traces(zone, request, world, tasks[j], probe) =>
                                   Traces(zone, request, world, tasks'[j], probe))
    BY <1>0, <1>4, QueryTraces
  <2>5. Covers(zone, index, request, world, tasks', disturbed')
    <3>1. Covers(zone, index, request, world, tasks, disturbed)
      BY <1>x, <2>2
    <3>2. DOMAIN tasks' = DOMAIN tasks
      BY <2>4
    <3>3. ASSUME NEW j \in DOMAIN tasks', tasks'[j].name \notin disturbed'
          PROVE  \E probe \in Protocols :
                    /\ <<tasks'[j].name, probe>> \in Called(index, request)
                    /\ Traces(zone, request, world, tasks'[j], probe)
      <4>1. tasks[j].name = tasks'[j].name /\ tasks[j].name \notin disturbed
        BY <2>3, <2>4, <3>2, <3>3
      <4>2. PICK probe \in Protocols :
               /\ <<tasks[j].name, probe>> \in Called(index, request)
               /\ Traces(zone, request, world, tasks[j], probe)
        BY <3>1, <3>2, <3>3, <4>1 DEF Covers
      <4>3. QED
        BY <2>4, <3>2, <3>3, <4>1, <4>2
    <3>4. ASSUME NEW n \in Name, NEW probe \in Protocols, n \notin disturbed',
                 <<n, probe>> \in Called(index, request)
          PROVE  \E j \in DOMAIN tasks' :
                    tasks'[j].name = n /\ Traces(zone, request, world, tasks'[j], probe)
      <4>1. PICK j \in DOMAIN tasks :
               tasks[j].name = n /\ Traces(zone, request, world, tasks[j], probe)
        BY <2>3, <3>1, <3>4 DEF Covers
      <4>2. QED
        BY <2>4, <3>2, <3>4, <4>1
    <3>5. QED
      BY <3>3, <3>4 DEF Covers
  <2>6. QED
    BY <1>x, <2>2, <2>5 DEF ExactInv, Merged
<1>5. CASE Gather
  <2>1. phase = "asking" /\ phase' = "dnssec"
    BY <1>5 DEF Gather
  <2>2. Exact(zone, index, request, world, agents', disturbed)
    BY <1>0, <1>5, <1>x, <2>1, GatherIsExact
  <2>3. UNCHANGED <<zone, index, world, request, disturbed>>
    BY <1>5 DEF Gather, Undisturbed
  <2>4. QED
    BY <2>1, <2>2, <2>3 DEF ExactInv
<1>6. CASE CheckDnssec
  <2>1. SameAgents
    BY <1>6, CheckDnssecKeeps
  <2>2. Merged /\ phase' \in {"cards", "refused"}
    BY <1>6 DEF CheckDnssec, Merged
  <2>3. QED
    BY <1>s, <2>1, <2>2
<1>7. CASE EnrichCards
  <2>1. SameAgents
    BY <1>7, EnrichCardsKeeps
  <2>2. Merged /\ phase' = "signatures"
    BY <1>7 DEF EnrichCards, Merged
  <2>3. QED
    BY <1>s, <2>1, <2>2
<1>8. ASSUME NEW i \in DOMAIN agents, VerifyOne(i) \/ CheckDane(i)
      PROVE  ExactInv'
  <2>1. SameAgents
    BY <1>8, CheckKeeps
  <2>2. Merged /\ phase' \in {"signatures", "dane"}
    BY <1>8 DEF VerifyOne, CheckDane, Checked, Merged
  <2>3. QED
    BY <1>s, <2>1, <2>2
<1>9. CASE SignatureBudgetEnds \/ StartDane \/ DaneBudgetEnds
  <2>1. SameAgents
    BY <1>9, BudgetKeeps
  <2>2. Merged /\ phase' \in {"signatures", "dane"}
    BY <1>9 DEF SignatureBudgetEnds, StartDane, DaneBudgetEnds, Merged
  <2>3. QED
    BY <1>s, <2>1, <2>2
<1>10. CASE Filter
  BY <1>10 DEF Filter, ExactInv, Merged
<1>11. ASSUME NEW n \in Name, Republish(n) \/ EditIndex(n)
       PROVE  ExactInv'
  <2>1. /\ UNCHANGED <<world, request, phase, tasks>>
        /\ phase \in {"start", "listing", "asking"}
    BY <1>11 DEF Republish, EditIndex, Changes, locals
  <2>2. CASE Republish(n)
    <3>1. index' = index
      BY <2>2 DEF Republish
    <3>2. phase = "asking" =>
             Covers(zone', index, request, world, tasks, disturbed')
      BY <1>0, <1>x, <2>2, RepublishCovers
    <3>3. QED
      BY <1>x, <2>1, <3>1, <3>2 DEF ExactInv, Merged
  <2>3. CASE EditIndex(n)
    <3>1. /\ Len(index) <= Capacity => Len(index') <= Capacity
          /\ \A m, probe : m \notin disturbed' /\ m \in Name =>
                (<<m, probe>> \in Called(index', request)
                    <=> <<m, probe>> \in Called(index, request))
      BY <1>0, <2>3, EditedCalls
    <3>2. zone' = zone /\ disturbed \subseteq disturbed'
      BY <1>0, <2>3 DEF EditIndex
    <3>3. \A i \in DOMAIN tasks : tasks[i].name \in Name
      BY <1>0 DEF Queries, TaskOK, Asks
    <3>4. phase = "asking" =>
             Covers(zone, index', request, world, tasks, disturbed')
      BY <1>x, <3>1, <3>2, <3>3 DEF Covers
    <3>5. QED
      BY <1>x, <2>1, <3>1, <3>2, <3>4 DEF ExactInv, Merged
  <2>4. QED
    BY <1>11, <2>2, <2>3
<1>12. CASE UNCHANGED vars
  BY <1>12, <1>x DEF vars, locals, ExactInv, Merged
<1>13. QED
  BY <1>1, <1>2, <1>3, <1>4, <1>5, <1>6, <1>7, <1>8, <1>9, <1>10, <1>11, <1>12
     DEF Next, Progress

(* The agents, each once, are as many as their names and protocols.        *)
LEMMA EachOnce ==
    ASSUME NEW as, IsList(as), \A m, l \in DOMAIN as : SameKey(as[m], as[l]) => m = l
    PROVE  Cardinality({<<a.name, a.protocol>> : a \in ToSet(as)}) = Len(as)
<1> DEFINE K == DOMAIN as
           keys == {<<a.name, a.protocol>> : a \in ToSet(as)}
           f == [i \in K |-> <<as[i].name, as[i].protocol>>]
<1>1. K = 1..Len(as) /\ Len(as) \in Nat
  BY ListIsSeq
<1>2. \A k : k \in keys <=> \E i \in K : k = f[i]
  BY DEF ToSet
<1>3. \A m, l \in K : f[m] = f[l] => m = l
  BY DEF SameKey
<1>4. f \in [K -> keys]
  <2>1. f = [i \in K |-> f[i]] /\ \A i \in K : f[i] \in keys
    BY <1>2
  <2> HIDE DEF f, keys
  <2>2. QED
    BY <2>1
<1> HIDE DEF f, keys, K
<1>5. f \in Bijection(K, keys)
  BY <1>2, <1>3, <1>4 DEF Bijection, Injection, Surjection, IsInjective
<1>6. IsFiniteSet(K) /\ Cardinality(K) = Len(as)
  <2>1. \A n \in Nat : IsFiniteSet(1..n) /\ Cardinality(1..n) = n
    <3> TAKE n \in Nat
    <3>1. 1 \in Int /\ n \in Int
      OBVIOUS
    <3>2. /\ IsFiniteSet(1..n)
          /\ Cardinality(1..n) = IF 1 > n THEN 0 ELSE n - 1 + 1
      BY <3>1, FS_Interval
    <3>3. QED
      BY <3>2
  <2>2. QED
    BY <1>1, <2>1
<1>7. Cardinality(keys) = Cardinality(K)
  BY <1>5, <1>6, FS_Bijection DEF ExistsBijection
<1>8. QED
  BY <1>6, <1>7 DEF keys


LEMMA ExactIsExact ==
    ASSUME CallInv, ExactInv
    PROVE  DiscoveryIsExact
<1> SUFFICES ASSUME Merged, ~request.http PROVE DiscoveryIsExact
  BY DEF DiscoveryIsExact
<1> DEFINE Show(x) == LET r == Published(x[1], x[2]) IN r # None /\ ~Refuses(r)
           onShow == {x \in Announced : Show(x)}
           spoken(x) == LET r == Published(x[1], x[2])
                        IN  IF r.speaks = None THEN x[2] ELSE r.speaks
           found == {<<a.name, a.protocol>> : a \in ToSet(agents)}
           shown == {<<x[1], spoken(x)>> : x \in onShow}
           calm(pairs) == {x \in pairs : x[1] \notin disturbed}
<1>1. Exact(zone, index, request, world, agents, disturbed)
  BY DEF ExactInv
<1>2. /\ IsList(agents) /\ \A i \in DOMAIN agents : Typed(agents[i])
  BY DEF CallInv, TypeInv, Found
<1>3. \A x : Show(x) <=> Shows(zone, request, world, x[1], x[2])
  BY PublishedIs, RefusesIs DEF Shows
<1>4. \A x : spoken(x) = Spoken(zone, request, x[1], x[2])
  BY PublishedIs DEF Spoken, Reconcile
<1>5. \A k : k \in found <=>
         \E m \in DOMAIN agents : k = <<agents[m].name, agents[m].protocol>>
  BY DEF ToSet
<1>6. \A x : x \in onShow <=>
         /\ x \in Called(index, request) /\ request.name \in {None, x[1]}
         /\ Shows(zone, request, world, x[1], x[2])
  BY <1>3, AnnouncedIs
<1>7. \A x \in Called(index, request) :
         x[1] \in Name /\ x[2] \in Protocols /\ x = <<x[1], x[2]>>
  <2>1. CASE None \notin {request.name, request.protocol}
    <3>1. request.name \in Name /\ request.protocol \in Protocols
      BY <2>1, RequestIs DEF CallInv, TypeInv, Arguments
    <3>2. QED
      BY <2>1, <3>1 DEF Called
  <2>2. CASE None \in {request.name, request.protocol}
    <3>1. \A x \in ToSet(Common) : x \in Name
      BY DiscoveryAssumption DEF ToSet
    <3>2. \A x \in ToSet(index) : x \in Name \X (Protocols \cup {Unknown})
      BY DEF CallInv, TypeInv, Grounds, ToSet
    <3>3. QED
      BY <2>2, <3>1, <3>2 DEF Called
  <2>3. QED
    BY <2>1, <2>2
<1>8. \A k : k \in shown <=> \E x \in onShow : k = <<x[1], spoken(x)>>
  OBVIOUS
<1> HIDE DEF onShow, spoken, found, shown
<1>9. ASSUME NEW k, k \in found, k[1] \notin disturbed
      PROVE  k \in shown
  <2>1. PICK m \in DOMAIN agents : k = <<agents[m].name, agents[m].protocol>>
    BY <1>5, <1>9
  <2>2. agents[m].name \notin disturbed
    BY <1>9, <2>1
  <2>a. \A i \in DOMAIN agents : agents[i].name \notin disturbed =>
          \E probe \in Protocols :
             /\ <<agents[i].name, probe>> \in Called(index, request)
             /\ request.name \in {None, agents[i].name}
             /\ Shows(zone, request, world, agents[i].name, probe)
             /\ agents[i].protocol = Spoken(zone, request, agents[i].name, probe)
    BY <1>1, Zenon DEF Exact
  <2>b. \E probe \in Protocols :
          /\ <<agents[m].name, probe>> \in Called(index, request)
          /\ request.name \in {None, agents[m].name}
          /\ Shows(zone, request, world, agents[m].name, probe)
          /\ agents[m].protocol = Spoken(zone, request, agents[m].name, probe)
    BY <2>2, <2>a, Zenon
  <2> DEFINE n == agents[m].name
  <2>3. PICK probe \in Protocols :
           /\ <<n, probe>> \in Called(index, request) /\ request.name \in {None, n}
           /\ Shows(zone, request, world, n, probe)
           /\ agents[m].protocol = Spoken(zone, request, n, probe)
    BY <2>b, Zenon
  <2> DEFINE x == <<n, probe>>
  <2>4. x[1] = n /\ x[2] = probe
    OBVIOUS
  <2> HIDE DEF n, x
  <2>5. x \in Called(index, request)
    BY <2>3 DEF x
  <2>6. x \in onShow
    BY <1>6, <2>3, <2>4, <2>5
  <2>7. k = <<x[1], spoken(x)>>
    BY <1>4, <2>1, <2>3, <2>4 DEF n
  <2>8. QED
    BY <1>8, <2>6, <2>7
<1>10. ASSUME NEW k, k \in shown, k[1] \notin disturbed
       PROVE  k \in found
  <2>1. PICK x \in onShow : k = <<x[1], spoken(x)>>
    BY <1>8, <1>10
  <2>2. /\ x \in Called(index, request) /\ request.name \in {None, x[1]}
        /\ Shows(zone, request, world, x[1], x[2])
    BY <1>6, <2>1
  <2>3. x[1] \in Name /\ x[2] \in Protocols /\ x = <<x[1], x[2]>> /\ x[1] \notin disturbed
    BY <1>7, <1>10, <2>1, <2>2
  <2>4. <<x[1], x[2]>> \in Called(index, request)
    BY <2>2, <2>3
  <2>5. PICK m \in DOMAIN agents :
           /\ agents[m].name = x[1]
           /\ agents[m].protocol = Spoken(zone, request, x[1], x[2])
    BY <1>1, <2>2, <2>3, <2>4 DEF Exact
  <2>6. k = <<agents[m].name, agents[m].protocol>>
    BY <1>4, <2>1, <2>5
  <2>7. QED
    BY <1>5, <2>6
<1>11. calm(found) = calm(shown)
  BY <1>9, <1>10
<1>12. Cardinality(found) = Len(agents)
  BY <1>1, <1>2, EachOnce DEF Exact, found
<1>13. QED
  BY <1>11, <1>12 DEF DiscoveryIsExact, found, shown, onShow, spoken

(* Discovery over DNS finds exactly what is announced and published        *)
(* (_discover_agents_in_zone, _query_single_agent, _collect_agent_results):*)
(* whatever order the queries of the gather answer in, whatever the        *)
(* operator changes meanwhile and whichever requests are lost, every name  *)
(* that none of this touched is found under the protocols its record       *)
(* speaks, once, and nothing else is. It takes an index that fits in one   *)
(* string of its TXT record: of a longer one the code reads the first.     *)
THEOREM DiscoveriesAreExact ==
    ASSUME IndexesFit
    PROVE  Spec => []DiscoveryIsExact
<1>1. Init => ExactInv
  <2> SUFFICES ASSUME Init PROVE ExactInv
    OBVIOUS
  <2>1. phase = "start" /\ Len(index) <= Capacity
    BY DEF Init, IndexesFit
  <2>2. QED
    BY <2>1 DEF ExactInv, Merged
<1>2. CallInv /\ ExactInv /\ [Next]_vars => CallInv' /\ ExactInv'
  BY NextCall, NextExact
<1>3. CallInv /\ ExactInv => DiscoveryIsExact
  BY ExactIsExact
<1>4. QED
  BY <1>1, <1>2, <1>3, InitCall, PTL DEF Spec
=============================================================================
