--------------------------- MODULE Backends_proofs ---------------------------
(***************************************************************************)
(* Proofs about Backends.                                                  *)
(*                                                                         *)
(* 1. Footprint: what any request of any of the nine providers may do to    *)
(*    the caller, the zone and the lock; one lemma for each request.        *)
(* 2. IInv, proved from the footprints alone: a provider that keys record   *)
(*    sets holds one record of an owner; an id names one record; a writer   *)
(*    knows of records of its own owner; a sweep leaves an older record     *)
(*    than any it removes; without a race, what a writer has read still     *)
(*    holds; an Akamai writer holds the lock of its process.                *)
(* 3. TypeOK and WritersTakeTurns, and that the nine backends refine        *)
(*    RRsetStore.                                                           *)
(*                                                                         *)
(* AnswersAreTrue, which counts pages and records, and EveryCallEnds, a     *)
(* liveness property, are left to TLC.                                      *)
(***************************************************************************)
EXTENDS Backends, WellFoundedInduction, FiniteSetTheorems, TLAPS

LEMMA LeastNat ==
    ASSUME NEW T, T \subseteq Nat, T # {}
    PROVE  \E x \in T : \A y \in T : x <= y
  <1>1. \E x \in T : \A y \in T : <<y, x>> \notin OpToRel(<, Nat)
    BY NatLessThanWellFounded, WFMin
  <1>2. ASSUME NEW x \in Nat, NEW y \in Nat, y < x
        PROVE  <<y, x>> \in OpToRel(<, Nat)
    BY <1>2 DEF OpToRel
  <1>3. PICK x \in T : \A y \in T : <<y, x>> \notin OpToRel(<, Nat)
    BY <1>1
  <1>4. \A y \in T : ~(y < x)
    BY <1>2, <1>3
  <1> QED
    BY <1>4

(* Where the providers differ.                                             *)
LEMMA ProviderTraits ==
    ASSUME BackendsAssumption, provider \in Provider
    PROVE  /\ ById <=> provider \in {"cloudflare", "nios", "bloxone"}
           /\ Has("zoneById") => provider \notin {"akamai", "ddns", "mock", "nios"}
           /\ Has("getFails") \subseteq {"error", "none"}
           /\ Has("lookupFails") \subseteq {"error", "false"}
           /\ Has("deleteFails") \subseteq {"error", "false"}
  <1>0. provider \in AllProviders
    BY DEF BackendsAssumption
  <1>1. CASE provider = "route53"
    BY <1>1 DEF ById, Has, Traits, Route53, Raises
  <1>2. CASE provider = "ddns"
    BY <1>2 DEF ById, Has, Traits, Ddns, Raises
  <1>3. CASE provider = "mock"
    BY <1>3 DEF ById, Has, Traits, Mock, Raises
  <1>4. CASE provider = "ns1"
    BY <1>4 DEF ById, Has, Traits, Ns1, Raises
  <1>5. CASE provider = "cloud_dns"
    BY <1>5 DEF ById, Has, Traits, CloudDns, Raises
  <1>6. CASE provider = "akamai"
    BY <1>6 DEF ById, Has, Traits, Akamai, Raises
  <1>7. CASE provider = "cloudflare"
    BY <1>7 DEF ById, Has, Traits, Cloudflare, Raises
  <1>8. CASE provider = "nios"
    BY <1>8 DEF ById, Has, Traits, Nios, Raises
  <1>9. CASE provider = "bloxone"
    BY <1>9 DEF ById, Has, Traits, Bloxone, Raises
  <1> QED
    BY <1>0, <1>1, <1>2, <1>3, <1>4, <1>5, <1>6, <1>7, <1>8, <1>9 DEF AllProviders

LEMMA AtMostOne ==
    ASSUME NEW S, S = {} \/ \E x \in S : S = {x}
    PROVE  Cardinality(S) <= 1 /\ ~(Cardinality(S) > 1)
  <1>1. CASE S = {}
    <2>1. Cardinality(S) = 0
      BY <1>1, FS_EmptySet
    <2> QED
      BY <2>1
  <1>2. ASSUME NEW x, S = {x} PROVE Cardinality(S) = 1
    <2>1. Cardinality({x}) = 1
      BY FS_Singleton
    <2> QED
      BY <1>2, <2>1
  <1> QED
    BY <1>1, <1>2

LEMMA FirstIsOne ==
    ASSUME NEW rs \in SUBSET Records, rs # {}
    PROVE  \E r \in rs : First(rs) = {r} /\ \A s \in rs : r.id <= s.id
  <1> DEFINE ids == {r.id : r \in rs}
  <1>1. ids \subseteq Nat /\ ids # {}
    BY DEF Records
  <1>2. PICK n \in ids : \A m \in ids : n <= m
    BY <1>1, LeastNat
  <1>3. \E r \in rs : \A s \in rs : r.id <= s.id
    BY <1>2
  <1> QED
    BY <1>3 DEF First

-----------------------------------------------------------------------------
(* One step of a caller.                                                   *)

Fields == {"pc", "op", "owner", "val", "seen", "page", "tries", "res", "faulty", "had"}
Pcs == {"idle", "zone", "find", "lock", "write", "applying", "post", "sweep", "page"}
Ops == {"-", "put", "delete", "get", "list", "exists"}
Answers == {"-", "ok", "true", "false", "found", "none", "listed", "error"}

(* A call, and where in it a caller can be.                                *)
CallOK(k) ==
    /\ DOMAIN k = Fields
    /\ k.pc \in Pcs /\ k.op \in Ops /\ k.owner \in Owner /\ k.seen \in SUBSET Records
    /\ k.tries \in 0 .. MaxRetries /\ k.res \in Answers
    /\ k.op = "put" => k.val \in Value
    /\ k.pc # "idle" => k.op # "-"
    /\ k.pc = "page" => k.op = "list"
    /\ k.pc = "find" => k.op \in {"put", "delete", "get"}
    /\ k.pc \in {"lock", "write", "applying"} => k.op \in {"put", "delete"}
    /\ k.pc = "post" => k.op = "put"
    /\ k.pc = "sweep" => k.op = "put" /\ k.seen # {} /\ ById
    /\ k.pc = "write" /\ k.op = "delete" /\ ById => k.seen # {}

(* The caller goes on with the job it has, at pc, having seen what is in   *)
(* seen.                                                                   *)
Goes(c, pc, seen) ==
    /\ CallOK(call'[c])
    /\ call'[c].pc = pc /\ call'[c].seen = seen
    /\ call'[c].op = call[c].op /\ call'[c].owner = call[c].owner
    /\ call'[c].val = call[c].val
    /\ \A d \in Client \ {c} : call'[d] = IF Idle(d) THEN Blank ELSE call[d]

(* pc is a place a call with job op may go to.                             *)
Place(pc, op, seen) ==
    /\ pc \in Pcs
    /\ pc # "idle" => op # "-"
    /\ pc = "page" => op = "list"
    /\ pc = "find" => op \in {"put", "delete", "get"}
    /\ pc \in {"lock", "write", "applying"} => op \in {"put", "delete"}
    /\ pc = "post" => op = "put"
    /\ pc = "sweep" => op = "put" /\ seen # {} /\ ById
    /\ pc = "write" /\ op = "delete" /\ ById => seen # {}

LEMMA BecomeGoes ==
    ASSUME BackendsAssumption, NEW c \in Client, NEW k, Become(c, k),
           CallOK(call[c]), DOMAIN k = Fields,
           k.op = call[c].op, k.owner = call[c].owner, k.val = call[c].val,
           k.seen \in SUBSET Records, k.tries \in 0 .. MaxRetries, k.res \in Answers,
           Place(k.pc, k.op, k.seen)
    PROVE  Goes(c, k.pc, k.seen)
  <1>1. /\ call'[c] = k
        /\ \A d \in Client \ {c} : call'[d] = IF Idle(d) THEN Blank ELSE call[d]
    BY DEF Become
  <1>2. CallOK(k)
    BY DEF CallOK, Place
  <1> HIDE DEF CallOK
  <1> QED
    BY <1>1, <1>2 DEF Goes

LEMMA GotoGoes ==
    ASSUME BackendsAssumption, NEW c \in Client, NEW pc, Goto(c, pc),
           CallOK(call[c]), Place(pc, call[c].op, call[c].seen)
    PROVE  Goes(c, pc, call[c].seen)
  <1> DEFINE k == [call[c] EXCEPT !.pc = pc, !.tries = 0]
  <1>1. /\ DOMAIN k = Fields /\ k.pc = pc /\ k.tries = 0 /\ k.op = call[c].op
        /\ k.owner = call[c].owner /\ k.val = call[c].val /\ k.seen = call[c].seen
        /\ k.res = call[c].res
    BY DEF CallOK, Fields
  <1>2. Become(c, k)
    BY DEF Goto
  <1>3. /\ k.seen \in SUBSET Records /\ k.res \in Answers /\ k.tries \in 0 .. MaxRetries
        /\ Place(k.pc, k.op, k.seen)
    BY <1>1 DEF CallOK, BackendsAssumption
  <1> HIDE DEF k
  <1> QED
    BY <1>1, <1>2, <1>3, BecomeGoes

LEMMA SawGoes ==
    ASSUME BackendsAssumption, NEW c \in Client, NEW pc, NEW seen \in SUBSET Records,
           Saw(c, pc, seen), CallOK(call[c]), Place(pc, call[c].op, seen)
    PROVE  Goes(c, pc, seen)
  <1> DEFINE k == [call[c] EXCEPT !.pc = pc, !.tries = 0, !.seen = seen]
  <1>1. /\ DOMAIN k = Fields /\ k.pc = pc /\ k.tries = 0 /\ k.op = call[c].op
        /\ k.owner = call[c].owner /\ k.val = call[c].val /\ k.seen = seen
        /\ k.res = call[c].res
    BY DEF CallOK, Fields
  <1>2. Become(c, k)
    BY DEF Saw
  <1>3. /\ k.seen \in SUBSET Records /\ k.res \in Answers /\ k.tries \in 0 .. MaxRetries
        /\ Place(k.pc, k.op, k.seen)
    BY <1>1 DEF CallOK, BackendsAssumption
  <1> HIDE DEF k
  <1> QED
    BY <1>1, <1>2, <1>3, BecomeGoes

LEMMA ReturnGoes ==
    ASSUME BackendsAssumption, NEW c \in Client, NEW res \in Answers, Return(c, res),
           CallOK(call[c])
    PROVE  Goes(c, "idle", call[c].seen)
  <1> DEFINE k == [call[c] EXCEPT !.pc = "idle", !.res = res]
  <1>1. /\ DOMAIN k = Fields /\ k.pc = "idle" /\ k.tries = call[c].tries
        /\ k.op = call[c].op /\ k.owner = call[c].owner /\ k.val = call[c].val
        /\ k.seen = call[c].seen /\ k.res = res
    BY DEF CallOK, Fields
  <1>2. Become(c, k)
    BY DEF Return
  <1>3. /\ k.seen \in SUBSET Records /\ k.res \in Answers /\ k.tries \in 0 .. MaxRetries
        /\ Place(k.pc, k.op, k.seen)
    BY <1>1 DEF CallOK, Place, Pcs
  <1> HIDE DEF k
  <1> QED
    BY <1>1, <1>2, <1>3, BecomeGoes

LEMMA FailureIsAnswer ==
    ASSUME BackendsAssumption, provider \in Provider, NEW c, NEW res \in FailureAnswers(c)
    PROVE  res \in Answers
  BY ProviderTraits DEF FailureAnswers, Answers, Raises

LEMMA RefusedGoes ==
    ASSUME BackendsAssumption, provider \in Provider, NEW c \in Client, Refused(c),
           CallOK(call[c])
    PROVE  Goes(c, "idle", call[c].seen) /\ Untouched /\ faults' = faults
  BY FailureIsAnswer, ReturnGoes DEF Refused

LEMMA FailGoes ==
    ASSUME BackendsAssumption, provider \in Provider, NEW c \in Client, Fail(c),
           CallOK(call[c])
    PROVE  Goes(c, "idle", call[c].seen) /\ faults < MaxFaults /\ faults' = faults + 1
  <1>1. PICK res \in FailureAnswers(c) :
           Become(c, [call[c] EXCEPT !.pc = "idle", !.res = res, !.faulty = TRUE])
    BY DEF Fail
  <1> DEFINE k == [call[c] EXCEPT !.pc = "idle", !.res = res, !.faulty = TRUE]
  <1>2. /\ DOMAIN k = Fields /\ k.pc = "idle" /\ k.tries = call[c].tries
        /\ k.op = call[c].op /\ k.owner = call[c].owner /\ k.val = call[c].val
        /\ k.seen = call[c].seen /\ k.res = res
    BY DEF CallOK, Fields
  <1>3. /\ k.seen \in SUBSET Records /\ k.res \in Answers /\ k.tries \in 0 .. MaxRetries
        /\ Place(k.pc, k.op, k.seen)
    BY <1>2, FailureIsAnswer DEF CallOK, Place, Pcs
  <1>4. Become(c, k)
    BY <1>1
  <1> HIDE DEF k
  <1> QED
    BY <1>2, <1>3, <1>4, BecomeGoes DEF Fail, Spend

-----------------------------------------------------------------------------
(* The footprint of a request: whatever the provider, a step of a caller   *)
(* changes the zone in one of these ways.                                  *)

Change(c) ==
    LET k == call[c] IN
    \/ Untouched
    \/ ~ById /\ k.op = "put" /\ Upsert(k.owner, k.val)
    \/ ~ById /\ k.op = "delete" /\ RemoveOwner(k.owner)
    \/ /\ ById /\ k.op = "put" /\ Insert(k.owner, k.val)
       /\ k.pc = "post" \/ (k.pc = "write" /\ k.seen = {})
    \/ ById /\ k.op = "put" /\ \E s \in k.seen : Overwrite(s.id, k.val)
    \/ ById /\ k.op = "delete" /\ \E s \in k.seen : RemoveId(s.id)
    \/ ById /\ k.pc = "sweep" /\ \E s \in k.seen : RemoveId(s.id)

(* A writer knows of records that it knew before, or has just read.        *)
SeenRule(c) ==
    call[c].op \in {"put", "delete"} =>
        \/ call'[c].seen \subseteq call[c].seen
        \/ call'[c].seen \subseteq At(call[c].owner) /\ Untouched

(* What a sweep leaves alone is there and is older than what it removes.   *)
SweepRule(c) ==
    call'[c].pc = "sweep" =>
        /\ call'[c].seen \subseteq call[c].seen
        /\ \/ call[c].pc = "sweep"
           \/ \E r \in call[c].seen :
                 /\ \E now \in recs' : now.id = r.id
                 /\ \A s \in call'[c].seen : r.id <= s.id /\ s # r

(* A create that goes on to write has read whether there is a record.      *)
WriteRule(c) ==
    ById /\ call[c].op = "put" /\ call'[c].pc \in {"write", "post"} /\ ~softened' =>
        /\ Untouched
        /\ \/ /\ call[c].pc = "find" /\ call'[c].pc = "write"
              /\ call'[c].seen \subseteq At(call[c].owner)
              /\ call'[c].seen = {} => At(call[c].owner) = {}
           \/ call'[c].seen = call[c].seen /\ call'[c].pc = call[c].pc
           \/ /\ call'[c].seen = call[c].seen /\ call[c].pc = "write"
              /\ call[c].seen # {} /\ \E s \in call[c].seen : ~HasId(s.id)

(* The clients and the locks of Akamai.                                    *)
LocksOK ==
    /\ home \in [Client -> Object] /\ closing \subseteq Client
    /\ link \in [Object -> {"ready", "stale", "foreign"}] /\ table \in [Object -> Nat]
    /\ turn \in [Client -> [lock : {"-", "waits", "holds"}, table : Nat]]

Memory == cache \in [Object -> {"unknown", "present", "absent"}]

Others(c) ==
    /\ jobs' = jobs
    /\ faults' = faults \/ (faults < MaxFaults /\ faults' = faults + 1)
    /\ cache' \in [Object -> {"unknown", "present", "absent"}]
    /\ softened' \in {softened, TRUE}
    /\ LocksOK'
    /\ \/ inflight' = inflight
       \/ /\ provider = "akamai" /\ call[c].op \in {"put", "delete"}
          /\ inflight' = {[by |-> c, op |-> call[c].op, owner |-> call[c].owner,
                           val |-> call[c].val]}

Footprint(c) ==
    /\ \E pc, seen : Goes(c, pc, seen)
    /\ Change(c) /\ SeenRule(c) /\ SweepRule(c) /\ WriteRule(c) /\ Others(c)

(* The part of the state a footprint starts from.                          *)
Grounded(c) ==
    /\ provider \in Provider /\ recs \subseteq Records
    /\ LocksOK /\ UNCHANGED home /\ Memory
    /\ CallOK(call[c])

LEMMA LocksStay ==
    ASSUME LocksOK, UNCHANGED home, UNCHANGED locks
    PROVE  LocksOK'
  BY DEF LocksOK, locks

LEMMA PlainOthers ==
    ASSUME NEW c \in Client, Grounded(c), Plain,
           faults' = faults \/ (faults < MaxFaults /\ faults' = faults + 1)
    PROVE  Others(c)
  BY LocksStay DEF Plain, Others, Grounded, Memory

(* A step after which the call has ended, or is where it can neither sweep *)
(* nor write.                                                              *)
LEMMA QuietFootprint ==
    ASSUME NEW c \in Client, NEW pc, NEW seen, Goes(c, pc, seen),
           pc \notin {"sweep", "write", "post"},
           seen \subseteq call[c].seen \/ call[c].op \notin {"put", "delete"},
           Change(c), Others(c)
    PROVE  Footprint(c)
  BY DEF Goes, Footprint, SeenRule, SweepRule, WriteRule

LEMMA EndedFootprint ==
    ASSUME NEW c \in Client, Goes(c, "idle", call[c].seen), Change(c), Others(c)
    PROVE  Footprint(c)
  BY QuietFootprint

(* Where record sets are keyed, ids and sweeps do not matter.              *)
LEMMA KeyedFootprint ==
    ASSUME NEW c \in Client, NEW pc, NEW seen, Goes(c, pc, seen), ~ById,
           \/ seen \subseteq call[c].seen
           \/ call[c].op \notin {"put", "delete"}
           \/ seen \subseteq At(call[c].owner) /\ Untouched,
           Change(c), Others(c)
    PROVE  Footprint(c)
  <1>1. SweepRule(c)
    BY DEF Goes, SweepRule, CallOK
  <1>2. SeenRule(c) /\ WriteRule(c)
    BY DEF Goes, SeenRule, WriteRule
  <1> QED
    BY <1>1, <1>2 DEF Footprint

(* What every request that only reads, or is refused, comes to.            *)
LEMMA UntouchedChange == ASSUME NEW c, Untouched PROVE Change(c)
  BY DEF Change

LEMMA FailFootprint ==
    ASSUME BackendsAssumption, NEW c \in Client, Grounded(c), Fail(c), Change(c), Others(c)
    PROVE  Footprint(c)
  BY FailGoes, EndedFootprint DEF Grounded

LEMMA FailOthers ==
    ASSUME BackendsAssumption, NEW c \in Client, Grounded(c), Fail(c), Plain
    PROVE  Others(c)
  BY FailGoes, PlainOthers DEF Grounded

LEMMA ReturnFootprint ==
    ASSUME BackendsAssumption, NEW c \in Client, Grounded(c), NEW res \in Answers,
           Return(c, res), Change(c), Others(c)
    PROVE  Footprint(c)
  BY ReturnGoes, EndedFootprint DEF Grounded

LEMMA RefusedFootprint ==
    ASSUME BackendsAssumption, NEW c \in Client, Grounded(c), Refused(c), Others(c)
    PROVE  Footprint(c)
  BY RefusedGoes, EndedFootprint, UntouchedChange DEF Grounded

(* The opening of a call, and reads.                                       *)
LEMMA OpeningPlace ==
    ASSUME BackendsAssumption, provider \in Provider,
           NEW op \in {"put", "delete", "get", "list"}
    PROVE  /\ Opening(op) \in {"page", "find", "lock", "write"}
           /\ Opening(op) = "page" <=> op = "list"
           /\ Opening(op) = "find" => op \in {"put", "delete", "get"}
           /\ Opening(op) \in {"lock", "write"} => op \in {"put", "delete"}
           /\ Opening(op) = "write" => ~ById
           /\ provider = "akamai" => Opening(op) # "write"
           /\ provider = "akamai" /\ Opening(op) = "find" => op = "get"
  <1>0. ById <=> provider \in {"cloudflare", "nios", "bloxone"}
    BY ProviderTraits
  <1>1. CASE op = "list"
    BY <1>1 DEF Opening
  <1>2. CASE op = "get"
    BY <1>2 DEF Opening
  <1>3. CASE op \in {"put", "delete"}
    <2>1. CASE provider = "akamai"
      BY <1>0, <1>3, <2>1 DEF Opening
    <2>2. CASE provider \in {"ddns", "mock", "ns1", "route53"}
      BY <1>0, <1>3, <2>2 DEF Opening
    <2>3. CASE provider \notin {"akamai", "ddns", "mock", "ns1", "route53"}
      BY <1>3, <2>3 DEF Opening
    <2> QED
      BY <2>1, <2>2, <2>3
  <1> QED
    BY <1>1, <1>2, <1>3

LEMMA FindZoneFootprint ==
    ASSUME BackendsAssumption, NEW c \in Client, Grounded(c), FindZone(c)
    PROVE  Footprint(c)
  <1>0. /\ call[c].pc = "zone" /\ call[c].op \in Ops \ {"-"} /\ Untouched /\ Change(c)
        /\ CallOK(call[c]) /\ provider \in Provider
    BY UntouchedChange DEF FindZone, Grounded, CallOK, Refused
  <1>1. Others(c)
    <2>1. faults' = faults \/ (faults < MaxFaults /\ faults' = faults + 1)
      BY <1>0, FailGoes, RefusedGoes DEF FindZone
    <2> QED
      BY <2>1, LocksStay DEF FindZone, Remember, Others, Grounded, Memory, LocksOK
  <1>2. CASE call[c].op # "exists" /\ Goto(c, Opening(call[c].op))
    <2> DEFINE pc == Opening(call[c].op)
    <2>1. /\ pc \in {"page", "find", "lock", "write"}
          /\ pc = "write" => ~ById
          /\ Place(pc, call[c].op, call[c].seen)
      BY <1>0, <1>2, OpeningPlace DEF Place, Pcs, Ops
    <2>2. Goes(c, pc, call[c].seen)
      BY <1>0, <1>2, <2>1, GotoGoes
    <2> HIDE DEF pc
    <2>3. CASE ~ById
      BY <1>0, <1>1, <2>2, <2>3, KeyedFootprint
    <2>4. CASE ById
      BY <1>0, <1>1, <2>1, <2>2, <2>4, QuietFootprint
    <2> QED
      BY <2>3, <2>4
  <1>3. CASE Return(c, "true")
    BY <1>0, <1>1, <1>3, ReturnFootprint DEF Answers
  <1>4. CASE Fail(c)
    BY <1>0, <1>1, <1>4, FailFootprint
  <1>5. CASE Refused(c)
    BY <1>1, <1>5, RefusedFootprint
  <1> QED
    BY <1>2, <1>3, <1>4, <1>5 DEF FindZone

LEMMA ZoneExistsFootprint ==
    ASSUME BackendsAssumption, NEW c \in Client, Grounded(c),
           AskForZone(c) \/ RecallZone(c) \/ UncachedZoneExists(c)
    PROVE  Footprint(c)
  <1>0. Untouched /\ Change(c) /\ CallOK(call[c]) /\ provider \in Provider
    BY UntouchedChange DEF AskForZone, RecallZone, UncachedZoneExists, Grounded
  <1>1. Fail(c) \/ \E res \in Answers : Return(c, res)
    BY DEF AskForZone, RecallZone, UncachedZoneExists, Answers
  <1>2. faults' = faults \/ (faults < MaxFaults /\ faults' = faults + 1)
    BY <1>0, FailGoes DEF AskForZone, RecallZone, UncachedZoneExists
  <1>3. CASE AskForZone(c)
    <2>1. /\ cache' = cache \/ Remember(c, "present") \/ Remember(c, "absent")
          /\ UNCHANGED <<locks, inflight, softened, jobs>>
      BY <1>3 DEF AskForZone
    <2>2. Memory' /\ LocksOK'
      BY <2>1, LocksStay DEF Remember, Grounded, Memory, LocksOK
    <2>3. Others(c)
      BY <1>2, <2>1, <2>2 DEF Others, Memory
    <2> QED
      BY <1>0, <1>1, <2>3, FailFootprint, ReturnFootprint
  <1>4. CASE RecallZone(c) \/ UncachedZoneExists(c)
    <2>1. Others(c)
      BY <1>2, <1>4, PlainOthers DEF RecallZone, UncachedZoneExists
    <2> QED
      BY <1>0, <1>1, <2>1, FailFootprint, ReturnFootprint
  <1> QED
    BY <1>3, <1>4

(* A read whose reply ends the call, or fails.                             *)
LEMMA ReadEnds ==
    ASSUME BackendsAssumption, NEW c \in Client, Grounded(c), NEW res \in Answers,
           Untouched, Plain,
           (Return(c, res) /\ faults' = faults) \/ Fail(c)
    PROVE  Footprint(c)
  BY PlainOthers, FailOthers, UntouchedChange, ReturnFootprint, FailFootprint

(* A request that changes the zone and ends the call, or fails.            *)
LEMMA RequestEnds ==
    ASSUME BackendsAssumption, NEW c \in Client, Grounded(c), NEW res \in Answers,
           Change(c), Plain,
           (Return(c, res) /\ faults' = faults) \/ Fail(c)
    PROVE  Footprint(c)
  BY PlainOthers, FailOthers, ReturnFootprint, FailFootprint

LEMMA GetRecordFootprint ==
    ASSUME BackendsAssumption, NEW c \in Client, Grounded(c), GetRecord(c)
    PROVE  Footprint(c)
  BY ReadEnds DEF GetRecord, Looked, Read, Answers

(* A look-up that goes on to write.                                        *)
LEMMA SawFootprint ==
    ASSUME BackendsAssumption, NEW c \in Client, Grounded(c),
           call[c].pc = "find", call[c].op \in {"put", "delete"},
           NEW seen \in SUBSET At(call[c].owner), Saw(c, "write", seen),
           call[c].op = "delete" => seen # {}, seen = {} => At(call[c].owner) = {},
           Untouched, Others(c)
    PROVE  Footprint(c)
  <1>1. seen \in SUBSET Records
    BY DEF At, Grounded
  <1>2. Goes(c, "write", seen)
    BY <1>1, SawGoes DEF Place, Pcs, Grounded
  <1>3. Change(c) /\ SeenRule(c) /\ SweepRule(c) /\ WriteRule(c)
    BY <1>2, UntouchedChange DEF Goes, SeenRule, SweepRule, WriteRule
  <1> QED
    BY <1>2, <1>3 DEF Footprint

LEMMA LookedFootprint ==
    ASSUME BackendsAssumption, NEW c \in Client, Grounded(c),
           call[c].op \in {"put", "delete"}, NEW seen \in SUBSET At(call[c].owner),
           seen = {} => At(call[c].owner) = {},
           Looked(c, IF call[c].op = "delete" /\ seen = {} THEN Return(c, "false")
                     ELSE Saw(c, "write", seen))
    PROVE  Footprint(c)
  <1>1. call[c].pc = "find" /\ Untouched /\ Plain
    BY DEF Looked, Read
  <1>2. CASE Fail(c) \/ (faults' = faults /\ Return(c, "false"))
    BY <1>1, <1>2, ReadEnds DEF Answers
  <1>3. CASE faults' = faults /\ Saw(c, "write", seen) /\ ~(call[c].op = "delete" /\ seen = {})
    BY <1>1, <1>3, PlainOthers, SawFootprint
  <1> QED
    BY <1>2, <1>3 DEF Looked, Read

-----------------------------------------------------------------------------
(* The providers that key a record set by its owner.                       *)

LEMMA Route53Footprint ==
    ASSUME BackendsAssumption, NEW c \in Client, Grounded(c),
           Route53Upsert(c) \/ Route53Delete(c)
    PROVE  Footprint(c)
  <1>0. ~ById
    BY ProviderTraits DEF Route53Upsert, Route53Delete, In, Grounded
  <1>1. CASE Route53Upsert(c)
    <2>1. Change(c)
      BY <1>0, <1>1 DEF Route53Upsert, In, Request, Change
    <2> QED
      BY <1>1, <2>1, RequestEnds DEF Route53Upsert, Request, Answers
  <1>2. CASE Route53Delete(c) /\ call[c].pc = "find"
    <2>1. call[c].op = "delete"
      BY <1>2 DEF Route53Delete, In
    <2>2. Looked(c, IF At(call[c].owner) = {} THEN Return(c, "false")
                    ELSE Saw(c, "write", At(call[c].owner)))
      BY <1>2 DEF Route53Delete, In
    <2> QED
      BY <2>1, <2>2, LookedFootprint DEF Looked, Read
  <1>3. CASE Route53Delete(c) /\ call[c].pc = "write"
    <2>1. CASE Refused(c)
      <3>1. Plain /\ faults' = faults
        BY <1>3, <2>1 DEF Route53Delete, In, Looked, Refused
      <3> QED
        BY <2>1, <3>1, PlainOthers, RefusedFootprint
    <2>2. CASE Request(c, RemoveOwner(call[c].owner), Return(c, "true"))
      <3>0. Plain /\ call[c].op = "delete"
        BY <1>3 DEF Route53Delete, In, Looked
      <3>1. Change(c)
        BY <1>0, <2>2, <3>0 DEF Request, Change
      <3> QED
        BY <2>2, <3>0, <3>1, RequestEnds DEF Request, Answers
    <2> QED
      BY <1>3, <2>1, <2>2 DEF Route53Delete, Looked
  <1> QED
    BY <1>1, <1>2, <1>3 DEF Route53Delete, In

LEMMA DdnsFootprint ==
    ASSUME BackendsAssumption, NEW c \in Client, Grounded(c),
           DdnsReplace(c) \/ DdnsDelete(c) \/ MockWrite(c)
    PROVE  Footprint(c)
  <1>0. ~ById
    BY ProviderTraits DEF DdnsReplace, DdnsDelete, MockWrite, In, Grounded
  <1>1. CASE DdnsReplace(c)
    <2>1. Change(c)
      BY <1>0, <1>1 DEF DdnsReplace, In, Request, Change
    <2> QED
      BY <1>1, <2>1, RequestEnds DEF DdnsReplace, Request, Answers
  <1>2. CASE DdnsDelete(c)
    <2>1. Change(c)
      BY <1>0, <1>2 DEF DdnsDelete, In, Request, Change
    <2> QED
      BY <1>2, <2>1, RequestEnds DEF DdnsDelete, Request, Answers
  <1>3. CASE MockWrite(c)
    <2>1. Change(c)
      BY <1>0, <1>3 DEF MockWrite, In, Change
    <2> QED
      BY <1>3, <2>1, RequestEnds DEF MockWrite, Answers
  <1> QED
    BY <1>1, <1>2, <1>3

LEMMA Ns1Footprint ==
    ASSUME BackendsAssumption, NEW c \in Client, Grounded(c), Ns1Upsert(c) \/ Ns1Delete(c)
    PROVE  Footprint(c)
  <1>0. ~ById
    BY ProviderTraits DEF Ns1Upsert, Ns1Delete, In, Grounded
  <1>1. CASE Ns1Upsert(c)
    <2>0. Plain /\ call[c].op = "put"
      BY <1>1 DEF Ns1Upsert, In
    <2>1. CASE Read(c, Goto(c, "post"))
      <3>1. CASE Fail(c)
        BY <2>0, <2>1, <3>1, ReadEnds DEF Read, Answers
      <3>2. CASE Goto(c, "post") /\ faults' = faults
        <4>1. Goes(c, "post", call[c].seen)
          BY <2>0, <3>2, GotoGoes DEF Place, Pcs, Grounded
        <4> QED
          BY <1>0, <2>0, <2>1, <3>2, <4>1, UntouchedChange, PlainOthers, KeyedFootprint DEF Read
      <3> QED
        BY <2>1, <3>1, <3>2 DEF Read
    <2>2. CASE Request(c, Upsert(call[c].owner, call[c].val), Return(c, "ok"))
      <3>1. Change(c)
        BY <1>0, <2>0, <2>2 DEF Request, Change
      <3> QED
        BY <2>0, <2>2, <3>1, RequestEnds DEF Request, Answers
    <2>3. CASE Refused(c)
      BY <2>0, <2>3, PlainOthers, RefusedFootprint DEF Refused
    <2> QED
      BY <1>1, <2>1, <2>2, <2>3 DEF Ns1Upsert
  <1>2. CASE Ns1Delete(c)
    <2>0. Plain /\ call[c].op = "delete"
      BY <1>2 DEF Ns1Delete, In
    <2>1. CASE Read(c, Return(c, "false"))
      BY <2>0, <2>1, ReadEnds DEF Read, Answers
    <2>2. CASE Request(c, RemoveOwner(call[c].owner), Return(c, "true"))
      <3>1. Change(c)
        BY <1>0, <2>0, <2>2 DEF Request, Change
      <3> QED
        BY <2>0, <2>2, <3>1, RequestEnds DEF Request, Answers
    <2> QED
      BY <1>2, <2>1, <2>2 DEF Ns1Delete
  <1> QED
    BY <1>1, <1>2

LEMMA CloudDnsFootprint ==
    ASSUME BackendsAssumption, NEW c \in Client, Grounded(c),
           CloudDnsRead(c) \/ CloudDnsChange(c)
    PROVE  Footprint(c)
  <1>0. ~ById
    BY ProviderTraits DEF CloudDnsRead, CloudDnsChange, In, Grounded
  <1>1. CASE CloudDnsRead(c)
    BY <1>1, LookedFootprint DEF CloudDnsRead, In
  <1>2. CASE CloudDnsChange(c)
    <2>0. Plain /\ call[c].op \in {"put", "delete"}
      BY <1>2 DEF CloudDnsChange, In
    <2>1. CASE Refused(c)
      BY <2>0, <2>1, PlainOthers, RefusedFootprint DEF Refused
    <2>2. CASE call[c].op = "put" /\ Request(c, Upsert(call[c].owner, call[c].val), Return(c, "ok"))
      <3>1. Change(c)
        BY <1>0, <2>2 DEF Request, Change
      <3> QED
        BY <2>0, <2>2, <3>1, RequestEnds DEF Request, Answers
    <2>3. CASE call[c].op = "delete" /\ Request(c, RemoveOwner(call[c].owner), Return(c, "true"))
      <3>1. Change(c)
        BY <1>0, <2>3 DEF Request, Change
      <3> QED
        BY <2>0, <2>3, <3>1, RequestEnds DEF Request, Answers
    <2> QED
      BY <1>2, <2>0, <2>1, <2>2, <2>3 DEF CloudDnsChange
  <1> QED
    BY <1>1, <1>2

-----------------------------------------------------------------------------
(* Akamai, which keys its record sets too, and holds a lock.               *)

LEMMA UnlockKeepsType ==
    ASSUME NEW c \in Client, LocksOK, UNCHANGED home, Unlock(c)
    PROVE  LocksOK'
  BY DEF Unlock, LocksOK, NoTurn

LEMMA AkamaiOthers ==
    ASSUME NEW c \in Client, Grounded(c), Unlock(c), UNCHANGED <<cache, softened, jobs>>,
           faults' = faults \/ (faults < MaxFaults /\ faults' = faults + 1),
           \/ inflight' = inflight
           \/ /\ provider = "akamai" /\ call[c].op \in {"put", "delete"}
              /\ inflight' = {[by |-> c, op |-> call[c].op, owner |-> call[c].owner,
                               val |-> call[c].val]}
    PROVE  Others(c)
  BY UnlockKeepsType DEF Others, Grounded, Memory

LEMMA AkamaiReadFootprint ==
    ASSUME BackendsAssumption, NEW c \in Client, Grounded(c),
           AkamaiRead(c) \/ AkamaiTimeout(c)
    PROVE  Footprint(c)
  <1>0. ~ById /\ provider = "akamai" /\ call[c].op \in {"put", "delete"}
    BY ProviderTraits DEF AkamaiRead, AkamaiTimeout, In, Grounded
  <1>2. CASE AkamaiRead(c)
    <2>1. faults' = faults \/ (faults < MaxFaults /\ faults' = faults + 1)
      BY <1>2, FailGoes DEF AkamaiRead, Read, Grounded
    <2>2. Untouched /\ Others(c)
      BY <1>2, <2>1, AkamaiOthers DEF AkamaiRead, Read
    <2>3. CASE Saw(c, "write", At(call[c].owner))
      <3>1. At(call[c].owner) \in SUBSET Records
        BY DEF At, Grounded
      <3>2. Goes(c, "write", At(call[c].owner))
        BY <1>0, <2>3, <3>1, SawGoes DEF Place, Pcs, Grounded
      <3> QED
        BY <1>0, <2>2, <3>2, UntouchedChange, KeyedFootprint
    <2> QED
      BY <1>2, <2>2, <2>3, UntouchedChange, FailFootprint DEF AkamaiRead, Read
  <1>3. CASE AkamaiTimeout(c)
    <2>1. Others(c)
      BY <1>3, FailGoes, AkamaiOthers DEF AkamaiTimeout, Grounded
    <2> QED
      BY <1>3, <2>1, UntouchedChange, FailFootprint DEF AkamaiTimeout
  <1> QED
    BY <1>2, <1>3

(* A step that leaves the call where it is.                                *)
LEMMA SameCallGoes ==
    ASSUME NEW c \in Client, CallOK(call[c]), Become(c, call[c])
    PROVE  /\ Goes(c, call[c].pc, call[c].seen)
           /\ call'[c] = call[c]
  BY DEF Become, Goes

LEMMA AkamaiLockFootprint ==
    ASSUME BackendsAssumption, NEW c \in Client, Grounded(c), AkamaiLock(c)
    PROVE  Footprint(c)
  <1>0. /\ ~ById /\ provider = "akamai" /\ call[c].op \in {"put", "delete"}
        /\ CallOK(call[c]) /\ Untouched /\ Change(c)
    BY ProviderTraits, UntouchedChange DEF AkamaiLock, In, Grounded
  <1>1. \/ Admitted(c) \/ Refused(c)
        \/ Become(c, call[c]) /\ UNCHANGED faults
    BY DEF AkamaiLock
  <1>2. /\ turn' \in [Client -> [lock : {"-", "waits", "holds"}, table : Nat]]
        /\ UNCHANGED <<home, link, table, closing, cache, inflight, softened, jobs>>
    <2>1. table[home[c]] \in Nat /\ turn[c].table \in Nat
      BY DEF Grounded, LocksOK
    <2>2. turn' = turn \/ \E state \in {"waits", "holds"}, n \in Nat : Turn(c, state, n)
      BY <2>1 DEF AkamaiLock
    <2>3. turn' \in [Client -> [lock : {"-", "waits", "holds"}, table : Nat]]
      BY <2>2 DEF Grounded, LocksOK, Turn
    <2> QED
      BY <2>3 DEF AkamaiLock, Grounded
  <1>3. faults' = faults
    BY <1>1 DEF Admitted, Refused
  <1>4. Others(c)
    BY <1>2, <1>3 DEF Others, Grounded, Memory, LocksOK
  <1>5. CASE Admitted(c)
    <2>1. PICK pc \in {"find", "write"} : Goto(c, pc)
      BY <1>5 DEF Admitted
    <2>2. Goes(c, pc, call[c].seen)
      BY <1>0, <2>1, GotoGoes DEF Place, Pcs
    <2> QED
      BY <1>0, <1>4, <2>2, KeyedFootprint
  <1>6. CASE Refused(c)
    BY <1>4, <1>6, RefusedFootprint
  <1>7. CASE Become(c, call[c])
    BY <1>0, <1>4, <1>7, SameCallGoes, KeyedFootprint
  <1> QED
    BY <1>1, <1>5, <1>6, <1>7

LEMMA AkamaiClientFootprint ==
    ASSUME BackendsAssumption, NEW c \in Client, Grounded(c), provider = "akamai",
           AkamaiClose(c) \/ AkamaiReconnect(c)
    PROVE  Footprint(c)
  <1>0. ~ById /\ CallOK(call[c]) /\ Untouched /\ Change(c) /\ Become(c, call[c])
    BY ProviderTraits, UntouchedChange DEF AkamaiClose, AkamaiReconnect, Grounded
  <1>1. LocksOK' /\ UNCHANGED <<turn, cache, inflight, softened, jobs, faults>>
    <2>1. CASE AkamaiClose(c)
      BY <2>1 DEF AkamaiClose, Grounded, LocksOK
    <2>2. CASE AkamaiReconnect(c)
      BY <2>2 DEF AkamaiReconnect, Grounded, LocksOK
    <2> QED
      BY <2>1, <2>2
  <1>2. Others(c)
    BY <1>1 DEF Others, Grounded, Memory
  <1> QED
    BY <1>0, <1>2, SameCallGoes, KeyedFootprint

(* A call that tries again.                                                *)
LEMMA RetryGoes ==
    ASSUME BackendsAssumption, NEW c \in Client, NEW k, Become(c, k), CallOK(call[c]),
           DOMAIN k = Fields, k.op = call[c].op, k.owner = call[c].owner,
           k.val = call[c].val, k.seen = call[c].seen, k.pc = call[c].pc,
           k.res = call[c].res, k.tries = call[c].tries + 1, call[c].tries < MaxRetries
    PROVE  Goes(c, call[c].pc, call[c].seen)
  <1>1. k.tries \in 0 .. MaxRetries
    BY DEF CallOK, BackendsAssumption
  <1>2. k.seen \in SUBSET Records /\ k.res \in Answers /\ Place(k.pc, k.op, k.seen)
    BY DEF CallOK, Place
  <1> QED
    BY <1>1, <1>2, BecomeGoes

LEMMA AkamaiConflictFootprint ==
    ASSUME BackendsAssumption, NEW c \in Client, Grounded(c), AkamaiConflict(c)
    PROVE  Footprint(c)
  <1>0. ~ById /\ provider = "akamai" /\ call[c].op \in {"put", "delete"} /\ CallOK(call[c])
    BY ProviderTraits DEF AkamaiConflict, In, Grounded
  <1>1. faults' = faults /\ Untouched
    BY <1>0, RefusedGoes DEF AkamaiConflict, Grounded
  <1>2. Others(c)
    BY <1>1, AkamaiOthers DEF AkamaiConflict
  <1>3. CASE Refused(c)
    BY <1>2, <1>3, RefusedFootprint
  <1>4. CASE call[c].tries < MaxRetries /\ Become(c, [call[c] EXCEPT !.tries = @ + 1])
    <2> DEFINE k == [call[c] EXCEPT !.tries = @ + 1]
    <2>1. /\ DOMAIN k = Fields /\ k.pc = call[c].pc /\ k.tries = call[c].tries + 1
          /\ k.op = call[c].op /\ k.owner = call[c].owner /\ k.val = call[c].val
          /\ k.seen = call[c].seen /\ k.res = call[c].res
      BY <1>0 DEF CallOK, Fields
    <2>2. Become(c, k) /\ call[c].tries < MaxRetries
      BY <1>4
    <2> HIDE DEF k
    <2>3. Goes(c, call[c].pc, call[c].seen)
      BY <1>0, <2>1, <2>2, RetryGoes
    <2> QED
      BY <1>0, <1>1, <1>2, <2>3, UntouchedChange, KeyedFootprint
  <1> QED
    BY <1>3, <1>4 DEF AkamaiConflict

LEMMA AkamaiWriteFootprint ==
    ASSUME BackendsAssumption, NEW c \in Client, Grounded(c), AkamaiWrite(c)
    PROVE  Footprint(c)
  <1> DEFINE o == call[c].owner
             exists == At(o) # {}
             starts == /\ inflight' = {[by |-> c, op |-> call[c].op, owner |-> o,
                                        val |-> call[c].val]}
                       /\ Untouched
  <1>0. ~ById /\ provider = "akamai" /\ call[c].op \in {"put", "delete"} /\ CallOK(call[c])
    BY ProviderTraits DEF AkamaiWrite, In, Grounded
  <1>1. Unlock(c) /\ UNCHANGED <<cache, softened, jobs>>
    BY DEF AkamaiWrite
  <1>2. \/ Read(c, Return(c, "false")) /\ UNCHANGED inflight
        \/ Read(c, Saw(c, "write", At(o))) /\ UNCHANGED inflight
        \/ Refused(c) /\ UNCHANGED inflight
        \/ starts /\ Goto(c, "applying") /\ UNCHANGED faults
        \/ Untouched /\ Fail(c) /\ UNCHANGED inflight
    <2>1. CASE call[c].op = "delete" /\ ~exists
      BY <2>1 DEF AkamaiWrite
    <2>2. CASE call[c].op = "put" /\ call[c].seen = {} /\ exists
      BY <2>2 DEF AkamaiWrite
    <2>3. CASE call[c].op = "put" /\ call[c].seen # {} /\ ~exists
      BY <2>3 DEF AkamaiWrite
    <2>4. CASE /\ ~(call[c].op = "delete" /\ ~exists)
               /\ ~(call[c].op = "put" /\ call[c].seen = {} /\ exists)
               /\ ~(call[c].op = "put" /\ call[c].seen # {} /\ ~exists)
      BY <2>4 DEF AkamaiWrite
    <2> QED
      BY <2>1, <2>2, <2>3, <2>4
  <1> HIDE DEF exists
  <1>3. CASE Refused(c) /\ UNCHANGED inflight
    BY <1>0, <1>1, <1>3, RefusedGoes, AkamaiOthers, RefusedFootprint DEF Grounded
  <1>4. CASE Untouched /\ Fail(c) /\ UNCHANGED inflight
    BY <1>0, <1>1, <1>4, FailGoes, AkamaiOthers, UntouchedChange, FailFootprint DEF Grounded
  <1>5. CASE Untouched /\ Return(c, "false") /\ UNCHANGED faults /\ UNCHANGED inflight
    BY <1>0, <1>1, <1>5, AkamaiOthers, UntouchedChange, ReturnFootprint DEF Answers
  <1>6. CASE Untouched /\ Saw(c, "write", At(o)) /\ UNCHANGED faults /\ UNCHANGED inflight
    <2>1. At(o) \in SUBSET Records
      BY DEF At, Grounded
    <2>2. Goes(c, "write", At(o))
      BY <1>0, <1>6, <2>1, SawGoes DEF Place, Pcs
    <2> QED
      BY <1>0, <1>1, <1>6, <2>2, AkamaiOthers, UntouchedChange, KeyedFootprint
  <1>7. CASE starts /\ Goto(c, "applying") /\ UNCHANGED faults
    <2>1. Goes(c, "applying", call[c].seen)
      BY <1>0, <1>7, GotoGoes DEF Place, Pcs
    <2> QED
      BY <1>0, <1>1, <1>7, <2>1, AkamaiOthers, UntouchedChange, KeyedFootprint
  <1> QED
    BY <1>2, <1>3, <1>4, <1>5, <1>6, <1>7 DEF Read

-----------------------------------------------------------------------------
(* The providers that hand out ids.                                        *)

LEMMA RateLimitFootprint ==
    ASSUME BackendsAssumption, NEW c \in Client, Grounded(c), CloudflareRateLimited(c)
    PROVE  Footprint(c)
  <1>0. Plain /\ CallOK(call[c]) /\ provider \in Provider
    BY DEF CloudflareRateLimited, Grounded
  <1>1. CASE Refused(c)
    BY <1>0, <1>1, RefusedGoes, PlainOthers, RefusedFootprint
  <1>2. CASE /\ call[c].tries < MaxRetries /\ Untouched /\ UNCHANGED faults
             /\ Become(c, [call[c] EXCEPT !.tries = @ + 1, !.faulty = TRUE])
    <2> DEFINE k == [call[c] EXCEPT !.tries = @ + 1, !.faulty = TRUE]
    <2>1. /\ DOMAIN k = Fields /\ k.pc = call[c].pc /\ k.tries = call[c].tries + 1
          /\ k.op = call[c].op /\ k.owner = call[c].owner /\ k.val = call[c].val
          /\ k.seen = call[c].seen /\ k.res = call[c].res
      BY <1>0 DEF CallOK, Fields
    <2>2. Become(c, k) /\ call[c].tries < MaxRetries
      BY <1>2
    <2> HIDE DEF k
    <2>3. Goes(c, call[c].pc, call[c].seen)
      BY <1>0, <2>1, <2>2, RetryGoes
    <2>4. call[c].pc # "sweep"
      BY DEF CloudflareRateLimited, In
    <2>5. Change(c) /\ SeenRule(c) /\ SweepRule(c) /\ WriteRule(c)
      BY <1>2, <2>3, <2>4, UntouchedChange DEF Goes, SeenRule, SweepRule, WriteRule
    <2> QED
      BY <1>0, <1>2, <2>3, <2>5, PlainOthers DEF Footprint
  <1> QED
    BY <1>1, <1>2 DEF CloudflareRateLimited

LEMMA HiddenErrorFootprint ==
    ASSUME BackendsAssumption, NEW c \in Client, Grounded(c), CloudflareHiddenError(c)
    PROVE  Footprint(c)
  <1> DEFINE pc == IF call[c].op = "put" THEN "write" ELSE "idle"
             k == [call[c] EXCEPT !.faulty = TRUE, !.pc = pc,
                                  !.res = CASE call[c].op = "put" -> "-"
                                            [] call[c].op = "get" -> "none"
                                            [] OTHER -> "false"]
  <1>0. call[c].op \in {"put", "delete", "get"} /\ CallOK(call[c]) /\ Untouched
    BY DEF CloudflareHiddenError, In, Grounded
  <1>1. /\ DOMAIN k = Fields /\ k.pc = pc /\ k.tries = call[c].tries
        /\ k.op = call[c].op /\ k.owner = call[c].owner /\ k.val = call[c].val
        /\ k.seen = call[c].seen
    BY <1>0 DEF CallOK, Fields
  <1>2. k.res \in Answers
    <2>1. \A x \in Answers : [call[c] EXCEPT !.faulty = TRUE, !.pc = pc, !.res = x].res = x
      BY <1>0 DEF CallOK, Fields
    <2>2. CASE call[c].op = "put"
      BY <2>1, <2>2 DEF Answers
    <2>3. CASE call[c].op = "get"
      BY <2>1, <2>3 DEF Answers
    <2>4. CASE call[c].op = "delete"
      BY <2>1, <2>4 DEF Answers
    <2> QED
      BY <1>0, <2>2, <2>3, <2>4
  <1>3. Become(c, k)
    BY DEF CloudflareHiddenError
  <1> HIDE DEF k
  <1>4. Place(pc, call[c].op, call[c].seen)
    BY <1>0 DEF Place, Pcs
  <1>5. /\ k.seen \in SUBSET Records /\ k.tries \in 0 .. MaxRetries
        /\ Place(k.pc, k.op, k.seen)
    <2>1. call[c].seen \in SUBSET Records /\ call[c].tries \in 0 .. MaxRetries
      BY <1>0 DEF CallOK
    <2> HIDE DEF pc
    <2> QED
      BY <1>1, <1>4, <2>1
  <1>6. Goes(c, pc, call[c].seen)
    BY <1>0, <1>1, <1>2, <1>3, <1>5, BecomeGoes
  <1>7. softened' = TRUE /\ Others(c)
    BY LocksStay DEF CloudflareHiddenError, Others, Grounded, Spend, Memory
  <1>8. Change(c) /\ SeenRule(c) /\ SweepRule(c) /\ WriteRule(c)
    BY <1>0, <1>6, <1>7, UntouchedChange DEF Goes, SeenRule, SweepRule, WriteRule
  <1> QED
    BY <1>6, <1>7, <1>8 DEF Footprint

LEMMA LookupByIdFootprint ==
    ASSUME BackendsAssumption, NEW c \in Client, Grounded(c),
           CloudflareLookup(c) \/ NiosLookup(c) \/ BloxoneLookup(c)
    PROVE  Footprint(c)
  <1> DEFINE found == At(call[c].owner)
  <1>0. found \in SUBSET Records /\ call[c].op \in {"put", "delete"}
    BY DEF At, Grounded, CloudflareLookup, NiosLookup, BloxoneLookup, In
  <1>1. First(found) \in SUBSET found /\ (First(found) = {} => found = {})
    BY <1>0, FirstIsOne DEF First
  <1>2. CASE CloudflareLookup(c) \/ NiosLookup(c)
    <2>1. Looked(c, IF call[c].op = "delete" /\ First(found) = {} THEN Return(c, "false")
                    ELSE Saw(c, "write", First(found)))
      BY <1>2 DEF CloudflareLookup, NiosLookup
    <2> QED
      BY <1>0, <1>1, <2>1, LookedFootprint
  <1>3. CASE BloxoneLookup(c)
    <2> DEFINE seen == IF call[c].op = "put" THEN found ELSE First(found)
    <2>1. seen \in SUBSET found /\ (seen = {} => found = {})
      BY <1>1
    <2>2. Looked(c, IF call[c].op = "delete" /\ found = {} THEN Return(c, "false")
                    ELSE Saw(c, "write", seen))
      BY <1>3 DEF BloxoneLookup
    <2>3. found = {} <=> seen = {}
      BY <2>1
    <2>4. Looked(c, IF call[c].op = "delete" /\ seen = {} THEN Return(c, "false")
                    ELSE Saw(c, "write", seen))
      BY <2>2, <2>3
    <2> HIDE DEF seen
    <2> QED
      BY <1>0, <2>1, <2>4, LookedFootprint
  <1> QED
    BY <1>2, <1>3

(* What a create inserts, overwrites or removes at the record it knows of.  *)
LEMMA ByIdEnds ==
    ASSUME BackendsAssumption, NEW c \in Client, Grounded(c), ById, Plain,
           NEW change, NEW res \in Answers, Request(c, change, Return(c, res)),
           change => Change(c)
    PROVE  Footprint(c)
  <1>1. Change(c)
    BY UntouchedChange DEF Request
  <1> QED
    BY <1>1, RequestEnds DEF Request

LEMMA CloudflareWriteFootprint ==
    ASSUME BackendsAssumption, NEW c \in Client, Grounded(c), CloudflareWrite(c)
    PROVE  Footprint(c)
  <1> DEFINE o == call[c].owner
             r == CHOOSE s \in call[c].seen : TRUE
  <1>0. ById /\ Plain /\ call[c].op = "put" /\ call[c].pc \in {"write", "post"} /\ CallOK(call[c])
    BY ProviderTraits DEF CloudflareWrite, In, Grounded
  <1>1. CASE /\ call[c].pc = "post" \/ call[c].seen = {}
             /\ Read(c, Return(c, "ok"))
    BY <1>0, <1>1, ReadEnds DEF Read, Answers
  <1>2. CASE /\ call[c].pc = "post" \/ call[c].seen = {}
             /\ Request(c, Insert(o, call[c].val), Return(c, "ok"))
    <2>1. Insert(o, call[c].val) => Change(c)
      BY <1>0, <1>2 DEF Change
    <2> QED
      BY <1>0, <1>2, <2>1, ByIdEnds DEF Answers
  <1>3. CASE call[c].seen # {} /\ Request(c, Overwrite(r.id, call[c].val), Return(c, "ok"))
    <2>1. Overwrite(r.id, call[c].val) => Change(c)
      BY <1>0, <1>3 DEF Change
    <2> QED
      BY <1>0, <1>3, <2>1, ByIdEnds DEF Answers
  <1>4. CASE call[c].pc # "post" /\ call[c].seen # {} /\ ~HasId(r.id) /\ Read(c, Goto(c, "post"))
    <2>1. CASE Fail(c)
      BY <1>0, <1>4, <2>1, ReadEnds DEF Read, Answers
    <2>2. CASE Goto(c, "post") /\ UNCHANGED faults
      <3>1. Goes(c, "post", call[c].seen)
        BY <1>0, <2>2, GotoGoes DEF Place, Pcs
      <3>2. \E s \in call[c].seen : ~HasId(s.id)
        BY <1>4
      <3>3. Change(c) /\ SeenRule(c) /\ SweepRule(c) /\ WriteRule(c)
        BY <1>0, <1>4, <3>1, <3>2, UntouchedChange
        DEF Goes, SeenRule, SweepRule, WriteRule, Read
      <3> QED
        BY <1>0, <2>2, <3>1, <3>3, PlainOthers DEF Footprint
    <2> QED
      BY <1>4, <2>1, <2>2 DEF Read
  <1> QED
    BY <1>0, <1>1, <1>2, <1>3, <1>4 DEF CloudflareWrite

LEMMA DeleteByIdFootprint ==
    ASSUME BackendsAssumption, NEW c \in Client, Grounded(c),
           CloudflareDelete(c) \/ BloxoneDelete(c)
    PROVE  Footprint(c)
  <1> DEFINE r == CHOOSE s \in call[c].seen : TRUE
  <1>0. /\ ById /\ Plain /\ call[c].op = "delete" /\ call[c].seen # {}
    BY ProviderTraits DEF CloudflareDelete, BloxoneDelete, In, Grounded, CallOK
  <1>1. RemoveId(r.id) => Change(c)
    BY <1>0 DEF Change
  <1>2. CASE Request(c, RemoveId(r.id), Return(c, "true"))
    BY <1>0, <1>1, <1>2, ByIdEnds DEF Answers
  <1>3. CASE Untouched /\ UNCHANGED faults /\ Return(c, "error")
    BY <1>0, <1>3, ReadEnds DEF Answers
  <1>4. CASE Refused(c)
    BY <1>0, <1>4, PlainOthers, RefusedFootprint DEF Refused
  <1> QED
    BY <1>2, <1>3, <1>4 DEF CloudflareDelete, BloxoneDelete

LEMMA NiosWriteFootprint ==
    ASSUME BackendsAssumption, NEW c \in Client, Grounded(c), NiosWrite(c)
    PROVE  Footprint(c)
  <1> DEFINE o == call[c].owner
             r == CHOOSE s \in call[c].seen : TRUE
  <1>0. /\ ById /\ Plain /\ call[c].op \in {"put", "delete"} /\ call[c].pc = "write"
        /\ call[c].op = "delete" => call[c].seen # {}
    BY ProviderTraits DEF NiosWrite, In, Grounded, CallOK
  <1>1. CASE /\ call[c].seen = {} /\ call[c].op = "put"
             /\ Request(c, Insert(o, call[c].val), Return(c, "ok"))
    <2>1. Insert(o, call[c].val) => Change(c)
      BY <1>0, <1>1 DEF Change
    <2> QED
      BY <1>0, <1>1, <2>1, ByIdEnds DEF Answers
  <1>2. CASE Refused(c)
    BY <1>0, <1>2, PlainOthers, RefusedFootprint DEF Refused
  <1>3. CASE /\ call[c].seen # {} /\ call[c].op = "put"
             /\ Request(c, Overwrite(r.id, call[c].val), Return(c, "ok"))
    <2>1. Overwrite(r.id, call[c].val) => Change(c)
      BY <1>0, <1>3 DEF Change
    <2> QED
      BY <1>0, <1>3, <2>1, ByIdEnds DEF Answers
  <1>4. CASE /\ call[c].seen # {} /\ call[c].op = "delete"
             /\ Request(c, RemoveId(r.id), Return(c, "true"))
    <2>1. RemoveId(r.id) => Change(c)
      BY <1>0, <1>4 DEF Change
    <2> QED
      BY <1>0, <1>4, <2>1, ByIdEnds DEF Answers
  <1> QED
    BY <1>0, <1>1, <1>2, <1>3, <1>4 DEF NiosWrite

LEMMA BloxoneUpsertFootprint ==
    ASSUME BackendsAssumption, NEW c \in Client, Grounded(c), BloxoneUpsert(c)
    PROVE  Footprint(c)
  <1> DEFINE o == call[c].owner
             first == First(call[c].seen)
             r == CHOOSE s \in first : TRUE
             rest == call[c].seen \ first
  <1>0. /\ ById /\ Plain /\ call[c].op = "put" /\ call[c].pc = "write" /\ CallOK(call[c])
        /\ recs \subseteq Records
    BY ProviderTraits DEF BloxoneUpsert, In, Grounded
  <1>1. CASE /\ call[c].seen = {} /\ call[c].op = "put"
             /\ Request(c, Insert(o, call[c].val), Return(c, "ok"))
    <2>1. Insert(o, call[c].val) => Change(c)
      BY <1>0, <1>1 DEF Change
    <2> QED
      BY <1>0, <1>1, <2>1, ByIdEnds DEF Answers
  <1>2. CASE Refused(c)
    BY <1>0, <1>2, PlainOthers, RefusedFootprint DEF Refused
  <1>3. CASE /\ call[c].seen # {} /\ HasId(r.id)
             /\ Request(c, Overwrite(r.id, call[c].val),
                        IF rest = {} THEN Return(c, "ok") ELSE Saw(c, "sweep", rest))
    <2>1. /\ r \in call[c].seen /\ first = {r} /\ \A s \in call[c].seen : r.id <= s.id
      BY <1>0, <1>3, FirstIsOne DEF CallOK
    <2>2. Overwrite(r.id, call[c].val) => Change(c)
      BY <1>0, <2>1 DEF Change
    <2>3. CASE Request(c, Overwrite(r.id, call[c].val), Return(c, "ok"))
      BY <1>0, <2>2, <2>3, ByIdEnds DEF Answers
    <2>4. CASE rest # {} /\ Request(c, Overwrite(r.id, call[c].val), Saw(c, "sweep", rest))
      <3>1. Change(c)
        BY <2>2, <2>4, UntouchedChange DEF Request
      <3>2. CASE Fail(c)
        BY <1>0, <3>1, <3>2, FailOthers, FailFootprint
      <3>3. CASE Overwrite(r.id, call[c].val) /\ Saw(c, "sweep", rest) /\ UNCHANGED faults
        <4>1. rest \in SUBSET Records
          BY <1>0 DEF CallOK
        <4>2. Goes(c, "sweep", rest)
          BY <1>0, <2>4, <3>3, <4>1, SawGoes DEF Place, Pcs
        <4>3. \E now \in recs' : now.id = r.id
          <5>1. PICK q \in recs : q.id = r.id
            BY <1>3 DEF HasId
          <5>2. [q EXCEPT !.val = call[c].val] \in recs'
            BY <3>3, <5>1 DEF Overwrite
          <5>3. [q EXCEPT !.val = call[c].val].id = r.id
            BY <1>0, <5>1 DEF Records
          <5> QED
            BY <5>2, <5>3
        <4>4. \A s \in rest : r.id <= s.id /\ s # r
          BY <2>1
        <4>5. SweepRule(c)
          BY <2>1, <4>2, <4>3, <4>4 DEF Goes, SweepRule
        <4>6. SeenRule(c) /\ WriteRule(c)
          BY <4>2 DEF Goes, SeenRule, WriteRule
        <4> QED
          BY <1>0, <3>1, <3>3, <4>2, <4>5, <4>6, PlainOthers DEF Footprint
      <3> QED
        BY <2>4, <3>2, <3>3 DEF Request
    <2> QED
      BY <1>3, <2>3, <2>4
  <1> QED
    BY <1>0, <1>1, <1>2, <1>3 DEF BloxoneUpsert

LEMMA BloxoneSweepFootprint ==
    ASSUME BackendsAssumption, NEW c \in Client, Grounded(c), BloxoneSweep(c)
    PROVE  Footprint(c)
  <1> DEFINE dup == First(call[c].seen)
             r == CHOOSE s \in dup : TRUE
             rest == call[c].seen \ dup
             pc == IF rest = {} THEN "idle" ELSE "sweep"
             next == [call[c] EXCEPT !.seen = rest,
                                     !.pc = IF rest = {} THEN "idle" ELSE "sweep",
                                     !.res = IF rest = {} THEN "ok" ELSE @]
             lost == [next EXCEPT !.faulty = TRUE]
  <1>0. /\ ById /\ Plain /\ call[c].op = "put" /\ call[c].pc = "sweep" /\ CallOK(call[c])
        /\ call[c].seen # {} /\ call[c].seen \in SUBSET Records
    BY ProviderTraits DEF BloxoneSweep, In, Grounded, CallOK
  <1>1. r \in call[c].seen /\ rest \in SUBSET Records
    BY <1>0, FirstIsOne
  <1>2. /\ DOMAIN next = Fields /\ next.pc = pc /\ next.tries = call[c].tries
        /\ next.op = call[c].op /\ next.owner = call[c].owner /\ next.val = call[c].val
        /\ next.seen = rest /\ next.res = IF rest = {} THEN "ok" ELSE call[c].res
    BY <1>0 DEF CallOK, Fields
  <1>3. /\ DOMAIN lost = Fields /\ lost.pc = pc /\ lost.tries = call[c].tries
        /\ lost.op = call[c].op /\ lost.owner = call[c].owner /\ lost.val = call[c].val
        /\ lost.seen = rest /\ lost.res = IF rest = {} THEN "ok" ELSE call[c].res
    <2> HIDE DEF next
    <2> QED
      BY <1>2 DEF Fields
  <1>4. \/ RemoveId(r.id) /\ UNCHANGED faults /\ Become(c, next)
        \/ Untouched /\ Spend /\ Become(c, lost)
    BY DEF BloxoneSweep
  <1>5. /\ call[c].tries \in 0 .. MaxRetries
        /\ (IF rest = {} THEN "ok" ELSE call[c].res) \in Answers
    BY <1>0 DEF CallOK, Answers
  <1>6. Place(pc, call[c].op, rest)
    BY <1>0 DEF Place, Pcs
  <1> HIDE DEF next, lost, pc, rest, r
  <1>7. Goes(c, pc, rest)
    <2>1. CASE Become(c, next)
      BY <1>0, <1>1, <1>2, <1>5, <1>6, <2>1, BecomeGoes
    <2>2. CASE Become(c, lost)
      BY <1>0, <1>1, <1>3, <1>5, <1>6, <2>2, BecomeGoes
    <2> QED
      BY <1>4, <2>1, <2>2
  <1>8. Change(c)
    BY <1>0, <1>1, <1>4 DEF Change
  <1>9. rest \subseteq call[c].seen /\ pc \in {"idle", "sweep"}
    BY DEF rest, pc
  <1>10. SeenRule(c) /\ SweepRule(c) /\ WriteRule(c)
    BY <1>0, <1>7, <1>9 DEF Goes, SeenRule, SweepRule, WriteRule
  <1>11. Others(c)
    BY <1>0, <1>4, PlainOthers DEF Spend
  <1> QED
    BY <1>7, <1>8, <1>10, <1>11 DEF Footprint

-----------------------------------------------------------------------------
(* Listings only read.                                                     *)

LEMMA PageFootprint ==
    ASSUME BackendsAssumption, NEW c \in Client, Grounded(c), Untouched, Plain,
           call[c].op = "list", NEW k, Become(c, k), DOMAIN k = Fields,
           k.op = call[c].op, k.owner = call[c].owner, k.val = call[c].val,
           k.seen \in SUBSET Records, k.tries \in 0 .. MaxRetries, k.res \in Answers,
           k.pc \in {"idle", "page"},
           faults' = faults \/ (faults < MaxFaults /\ faults' = faults + 1)
    PROVE  Footprint(c)
  <1>1. Place(k.pc, k.op, k.seen)
    BY DEF Place, Pcs
  <1>2. Goes(c, k.pc, k.seen)
    BY <1>1, BecomeGoes DEF Grounded
  <1> QED
    BY <1>2, UntouchedChange, PlainOthers, QuietFootprint

LEMMA PageByNumberFootprint ==
    ASSUME BackendsAssumption, NEW c \in Client, Grounded(c), PageByNumber(c)
    PROVE  Footprint(c)
  <1> DEFINE n == call[c].page + 1
             seen == call[c].seen \cup Nth(n)
             end == Nth(n) = {} \/ (Cardinality(recs) <= n /\ provider # "bloxone")
             k == [call[c] EXCEPT !.seen = seen, !.page = n, !.tries = 0,
                          !.pc = IF end THEN "idle" ELSE "page",
                          !.res = IF end THEN "listed" ELSE @]
  <1>0. /\ Plain /\ Untouched /\ CallOK(call[c]) /\ call[c].op = "list"
        /\ (Become(c, k) /\ UNCHANGED faults) \/ Fail(c)
    BY DEF PageByNumber, Read, Grounded, CallOK
  <1>1. CASE Fail(c)
    BY <1>0, <1>1, FailOthers, UntouchedChange, FailFootprint
  <1>2. CASE Become(c, k) /\ UNCHANGED faults
    <2>1. Nth(n) \subseteq recs
      BY DEF Nth
    <2>2. seen \in SUBSET Records
      BY <1>0, <2>1 DEF CallOK, Grounded
    <2> HIDE DEF n, end, seen
    <2>3. /\ DOMAIN k = Fields /\ k.pc \in {"idle", "page"} /\ k.tries = 0
          /\ k.op = call[c].op /\ k.owner = call[c].owner /\ k.val = call[c].val
          /\ k.seen = seen /\ k.res \in {"listed", call[c].res}
      BY <1>0 DEF CallOK, Fields
    <2>4. k.tries \in 0 .. MaxRetries /\ k.res \in Answers
      BY <1>0, <2>3 DEF CallOK, Answers, BackendsAssumption
    <2> HIDE DEF k
    <2> QED
      BY <1>0, <1>2, <2>2, <2>3, <2>4, PageFootprint
  <1> QED
    BY <1>0, <1>1, <1>2

LEMMA PageByCursorFootprint ==
    ASSUME BackendsAssumption, NEW c \in Client, Grounded(c), PageByCursor(c)
    PROVE  Footprint(c)
  <1> DEFINE later == {r \in recs : r.owner > call[c].page}
             next  == {r \in later : \A s \in later : r.owner <= s.owner}
             o == (CHOOSE r \in next : TRUE).owner
             k == [call[c] EXCEPT !.seen = @ \cup next, !.page = o]
  <1>0. /\ Plain /\ CallOK(call[c]) /\ call[c].op = "list"
        /\ \/ Read(c, Return(c, "listed"))
           \/ Read(c, Become(c, k))
    BY DEF PageByCursor, Grounded, CallOK
  <1>1. CASE Read(c, Return(c, "listed"))
    BY <1>0, <1>1, ReadEnds DEF Read, Answers
  <1>2. CASE Untouched /\ Become(c, k) /\ UNCHANGED faults
    <2>1. next \subseteq Records
      BY DEF Grounded
    <2> HIDE DEF next, o
    <2>3. /\ DOMAIN k = Fields /\ k.pc = call[c].pc /\ k.tries = call[c].tries
          /\ k.op = call[c].op /\ k.owner = call[c].owner /\ k.val = call[c].val
          /\ k.seen = call[c].seen \cup next /\ k.res = call[c].res
      BY <1>0 DEF CallOK, Fields
    <2>4. /\ k.tries \in 0 .. MaxRetries /\ k.res \in Answers /\ k.seen \in SUBSET Records
          /\ k.pc = "page"
      BY <1>0, <2>1, <2>3 DEF CallOK, PageByCursor
    <2> HIDE DEF k
    <2> QED
      BY <1>0, <1>2, <2>3, <2>4, PageFootprint
  <1>3. CASE Untouched /\ Fail(c)
    BY <1>0, <1>3, FailOthers, UntouchedChange, FailFootprint
  <1> QED
    BY <1>0, <1>1, <1>2, <1>3 DEF Read

LEMMA ListAtOnceFootprint ==
    ASSUME BackendsAssumption, NEW c \in Client, Grounded(c),
           ListAtOnce(c) \/ DdnsList(c) \/ CloudflareCutListing(c)
    PROVE  Footprint(c)
  <1>0. Plain /\ Untouched /\ CallOK(call[c]) /\ call[c].op = "list"
    BY DEF ListAtOnce, DdnsList, CloudflareCutListing, In, Grounded, CallOK
  <1>1. CASE Fail(c)
    BY <1>0, <1>1, FailOthers, UntouchedChange, FailFootprint
  <1>2. CASE DdnsList(c)
    BY <1>0, <1>2, ReadEnds DEF DdnsList, Answers
  <1>3. CASE /\ UNCHANGED faults
             /\ Become(c, [call[c] EXCEPT !.pc = "idle", !.seen = recs, !.res = "listed"])
    <2> DEFINE k == [call[c] EXCEPT !.pc = "idle", !.seen = recs, !.res = "listed"]
    <2>1. /\ DOMAIN k = Fields /\ k.pc = "idle" /\ k.tries = call[c].tries
          /\ k.op = call[c].op /\ k.owner = call[c].owner /\ k.val = call[c].val
          /\ k.seen = recs /\ k.res = "listed"
      BY <1>0 DEF CallOK, Fields
    <2>2. k.tries \in 0 .. MaxRetries /\ k.res \in Answers /\ k.seen \in SUBSET Records
      BY <1>0, <2>1 DEF CallOK, Answers, Grounded
    <2>3. Become(c, k)
      BY <1>3
    <2> HIDE DEF k
    <2> QED
      BY <1>0, <1>3, <2>1, <2>2, <2>3, PageFootprint
  <1>4. CASE CloudflareCutListing(c)
    <2> DEFINE k == [call[c] EXCEPT !.faulty = TRUE, !.pc = "idle", !.res = "listed"]
    <2>1. /\ DOMAIN k = Fields /\ k.pc = "idle" /\ k.tries = call[c].tries
          /\ k.op = call[c].op /\ k.owner = call[c].owner /\ k.val = call[c].val
          /\ k.seen = call[c].seen /\ k.res = "listed"
      BY <1>0 DEF CallOK, Fields
    <2>2. k.tries \in 0 .. MaxRetries /\ k.res \in Answers /\ k.seen \in SUBSET Records
      BY <1>0, <2>1 DEF CallOK, Answers
    <2>3. Become(c, k) /\ faults < MaxFaults /\ faults' = faults + 1
      BY <1>4 DEF CloudflareCutListing, Spend
    <2> HIDE DEF k
    <2> QED
      BY <1>0, <2>1, <2>2, <2>3, PageFootprint
  <1> QED
    BY <1>1, <1>2, <1>3, <1>4 DEF ListAtOnce

LEMMA Ns1ListFootprint ==
    ASSUME BackendsAssumption, NEW c \in Client, Grounded(c), Ns1List(c)
    PROVE  Footprint(c)
  <1> DEFINE o == call[c].page
             others == {r \in call[c].seen : r.owner # o}
             step(seen) == [call[c] EXCEPT !.page = o + 1, !.seen = seen]
             lost == [step(others) EXCEPT !.faulty = TRUE]
  <1>0. /\ Plain /\ CallOK(call[c]) /\ call[c].op = "list" /\ call[c].pc = "page"
        /\ recs \subseteq Records /\ others \subseteq Records
        /\ At(o) \subseteq Records
    BY DEF Ns1List, In, Grounded, CallOK, At
  <1>1. \/ Read(c, Become(c, step(recs)))
        \/ Return(c, "listed") /\ Untouched /\ UNCHANGED faults
        \/ \E seen \in {others, others \cup At(o)} :
              Become(c, step(seen)) /\ Untouched /\ UNCHANGED faults
        \/ Untouched /\ Spend /\ Become(c, lost)
    BY DEF Ns1List
  <1>2. ASSUME NEW seen \in SUBSET Records
        PROVE  /\ DOMAIN step(seen) = Fields /\ step(seen).pc = "page"
               /\ step(seen).tries \in 0 .. MaxRetries
               /\ step(seen).op = call[c].op /\ step(seen).owner = call[c].owner
               /\ step(seen).val = call[c].val
               /\ step(seen).seen = seen /\ step(seen).res \in Answers
    BY <1>0 DEF CallOK, Fields
  <1>3. /\ DOMAIN lost = Fields /\ lost.pc = "page" /\ lost.tries \in 0 .. MaxRetries
        /\ lost.op = call[c].op /\ lost.owner = call[c].owner /\ lost.val = call[c].val
        /\ lost.seen = others /\ lost.res \in Answers
    <2> DEFINE k == step(others)
    <2>1. /\ DOMAIN k = Fields /\ k.pc = "page"
          /\ k.tries \in 0 .. MaxRetries
          /\ k.op = call[c].op /\ k.owner = call[c].owner
          /\ k.val = call[c].val
          /\ k.seen = others /\ k.res \in Answers
      BY <1>0, <1>2
    <2>2. lost = [k EXCEPT !.faulty = TRUE]
      OBVIOUS
    <2> HIDE DEF k, lost
    <2> QED
      BY <2>1, <2>2 DEF Fields
  <1> HIDE DEF step, lost, others
  <1>4. CASE Fail(c) /\ Untouched
    BY <1>0, <1>4, FailOthers, UntouchedChange, FailFootprint
  <1>5. CASE Return(c, "listed") /\ Untouched /\ UNCHANGED faults
    BY <1>0, <1>5, ReadEnds DEF Answers
  <1>6. ASSUME NEW seen \in SUBSET Records, Become(c, step(seen)), Untouched, UNCHANGED faults
        PROVE  Footprint(c)
    BY <1>0, <1>2, <1>6, PageFootprint
  <1>7. CASE Untouched /\ Spend /\ Become(c, lost)
    BY <1>0, <1>3, <1>7, PageFootprint DEF Spend
  <1> QED
    BY <1>0, <1>1, <1>4, <1>5, <1>6, <1>7 DEF Read

(* Every request of every provider.                                        *)
LEMMA RequestFootprint ==
    ASSUME BackendsAssumption, NEW c \in Client, Grounded(c), Requests(c)
    PROVE  Footprint(c)
  BY FindZoneFootprint, ZoneExistsFootprint, GetRecordFootprint, Route53Footprint,
     DdnsFootprint, Ns1Footprint, CloudDnsFootprint, AkamaiReadFootprint,
     AkamaiLockFootprint, AkamaiClientFootprint,
     AkamaiConflictFootprint, AkamaiWriteFootprint, RateLimitFootprint,
     HiddenErrorFootprint, LookupByIdFootprint, CloudflareWriteFootprint,
     DeleteByIdFootprint, NiosWriteFootprint, BloxoneUpsertFootprint,
     BloxoneSweepFootprint, PageByNumberFootprint, PageByCursorFootprint,
     ListAtOnceFootprint, Ns1ListFootprint
  DEF Requests, AkamaiClose, AkamaiReconnect

-----------------------------------------------------------------------------
(* The other steps: a call begins, the Akamai server ends a change.        *)

Begun(c) ==
    /\ Idle(c)
    /\ CallOK(call'[c]) /\ call'[c].seen = {}
    /\ call'[c].pc \in {"zone", "find", "lock", "write", "page"}
    /\ call'[c].pc = "write" => ~ById
    /\ provider = "akamai" /\ call'[c].op \in {"put", "delete"} =>
           call'[c].pc \notin {"find", "write"}
    /\ \A d \in Client \ {c} : call'[d] = IF Idle(d) THEN Blank ELSE call[d]
    /\ jobs < MaxJobs /\ jobs' = jobs + 1
    /\ Untouched
    /\ UNCHANGED <<cache, locks, inflight, softened, faults>>

LEMMA CallBegins ==
    ASSUME BackendsAssumption, provider \in Provider, NEW c \in Client, Call(c)
    PROVE  Begun(c)
  <1>1. PICK k \in Calls : Begin(c, k.op, k.owner, k.val)
    BY DEF Call
  <1>2. /\ k.op \in {"put", "delete", "get", "list", "exists"} /\ k.owner \in Owner
        /\ k.op = "put" => k.val \in Value
    <2>1. 1 \in Owner
      BY DEF Owner, BackendsAssumption
    <2> QED
      BY <2>1 DEF Calls
  <1> DEFINE looks == \/ k.op = "exists"
                      \/ /\ Has("zoneById")
                         /\ cache[home[c]] # "present"
                         /\ <<provider, k.op>> \notin {<<"bloxone", "get">>, <<"ns1", "list">>}
             pc == IF looks THEN "zone" ELSE Opening(k.op)
             new == [pc |-> pc, op |-> k.op, owner |-> k.owner, val |-> k.val, seen |-> {},
                     page |-> 0, tries |-> 0, res |-> "-", faulty |-> FALSE,
                     had |-> Cardinality(At(k.owner))]
  <1>3. Become(c, new)
    BY <1>1 DEF Begin
  <1>4. /\ pc \in {"zone", "find", "lock", "write", "page"}
        /\ pc = "page" => k.op = "list"
        /\ pc = "find" => k.op \in {"put", "delete", "get"}
        /\ pc \in {"lock", "write"} => k.op \in {"put", "delete"}
        /\ pc = "write" => ~ById
        /\ provider = "akamai" /\ k.op \in {"put", "delete"} => pc \notin {"find", "write"}
    <2>1. CASE looks
      BY <2>1
    <2>2. CASE ~looks
      <3>1. k.op \in {"put", "delete", "get", "list"} /\ pc = Opening(k.op)
        BY <1>2, <2>2
      <3> HIDE DEF pc
      <3> QED
        BY <3>1, OpeningPlace
    <2> QED
      BY <2>1, <2>2
  <1> HIDE DEF pc
  <1>5. CallOK(new)
    BY <1>2, <1>4 DEF CallOK, Fields, Pcs, Ops, Answers, BackendsAssumption
  <1>6. /\ call'[c] = new
        /\ \A d \in Client \ {c} : call'[d] = IF Idle(d) THEN Blank ELSE call[d]
    BY <1>3 DEF Become
  <1> HIDE DEF CallOK
  <1> QED
    BY <1>1, <1>4, <1>5, <1>6 DEF Begun, Begin

Committed(x) ==
    /\ \/ x.op = "put" /\ Upsert(x.owner, x.val)
       \/ x.op = "delete" /\ RemoveOwner(x.owner)
    /\ \/ call' = call
       \/ Goes(x.by, "idle", call[x.by].seen)
    /\ Unlock(x.by)
    /\ inflight' = {}
    /\ UNCHANGED <<cache, softened, jobs, faults>>

Pending(x) == /\ x.by \in Client /\ x.op \in {"put", "delete"} /\ x.owner \in Owner
              /\ x.op = "put" => x.val \in Value

LEMMA CommitCommits ==
    ASSUME BackendsAssumption, NEW x, inflight = {x}, Pending(x), AkamaiCommit,
           CallOK(call[x.by])
    PROVE  Committed(x)
  <1>1. /\ IF x.op = "put" THEN Upsert(x.owner, x.val) ELSE RemoveOwner(x.owner)
        /\ IF call[x.by].pc = "applying"
           THEN Return(x.by, IF x.op = "put" THEN "ok" ELSE "true")
           ELSE UNCHANGED call
        /\ Unlock(x.by) /\ inflight' = {}
        /\ UNCHANGED <<cache, softened, jobs, faults>>
    BY DEF AkamaiCommit
  <1>2. CASE Return(x.by, IF x.op = "put" THEN "ok" ELSE "true")
    <2>1. Goes(x.by, "idle", call[x.by].seen)
      BY <1>2, ReturnGoes DEF Answers, Pending
    <2> QED
      BY <1>1, <2>1 DEF Committed, Pending
  <1>3. CASE UNCHANGED call
    BY <1>1, <1>3 DEF Committed, Pending
  <1> QED
    BY <1>1, <1>2, <1>3

-----------------------------------------------------------------------------
(* The invariants.                                                         *)

(* Types, and at most one change in flight, of Akamai.                      *)
Base ==
    /\ provider \in Provider /\ recs \subseteq Records /\ nextId \in Nat
    /\ jobs \in 0 .. MaxJobs /\ faults \in 0 .. MaxFaults
    /\ zone \in BOOLEAN /\ softened \in BOOLEAN
    /\ Memory /\ LocksOK
    /\ \A c \in Client : CallOK(call[c])
    /\ \/ inflight = {}
       \/ provider = "akamai" /\ \E x \in inflight : inflight = {x} /\ Pending(x)
    /\ raced \subseteq Owner

(* A record set keyed by its owner holds one record; an id names one.       *)
IdsInv ==
    /\ ~ById => \A r, s \in recs : r.owner = s.owner => r = s
    /\ ById => /\ \A r \in recs : r.id < nextId
               /\ \A r, s \in recs : r.id = s.id => r = s

(* A writer knows of records of its own owner only, one by each id.         *)
Writes(c) == call[c].op \in {"put", "delete"}

SeenInv ==
    ById => \A c \in Client : Writes(c) =>
        /\ \A s \in call[c].seen :
              /\ s.owner = call[c].owner /\ s.id < nextId
              /\ \A r \in recs : r.id = s.id => r.owner = s.owner
        /\ \A s, t \in call[c].seen : s.id = t.id => s = t

(* Whose records are being deleted.                                        *)
DoomInv ==
    /\ \A c \in Client : ~Idle(c) /\ call[c].op = "delete" => call[c].owner \in doomed
    /\ \A x \in inflight : x.op = "delete" => x.owner \in doomed

(* While a sweep is under way the owner keeps a record older than every one *)
(* that the sweep still removes.                                           *)
Survivor(c) == \E r \in recs : /\ r.owner = call[c].owner
                               /\ \A s \in call[c].seen : r.id < s.id

SweepInv ==
    \A c \in Client : call[c].pc = "sweep" => call[c].owner \in doomed \/ Survivor(c)

(* Without a race and a hidden error, what a writer has read still holds.   *)
Calm(o) == o \notin raced /\ ~softened

WritersRace ==
    \A c, d \in Client :
        /\ c # d /\ ~Idle(c) /\ ~Idle(d) /\ Writes(c) /\ Writes(d)
        /\ call[c].owner = call[d].owner
        => call[c].owner \in raced

OneRecordEach == \A r, s \in recs : r.owner = s.owner /\ Calm(r.owner) => r = s

ReadStillHolds ==
    \A c \in Client :
        call[c].op = "put" /\ call[c].pc \in {"write", "post"} /\ Calm(call[c].owner) =>
            /\ call[c].pc = "write"
            /\ call[c].seen = {} => At(call[c].owner) = {}
            /\ \A s \in call[c].seen : HasId(s.id)

RaceInv == ById => WritersRace /\ OneRecordEach /\ ReadStillHolds

(* An Akamai caller holds a lock from its read until the end of its change, *)
(* of a table its backend object has or had, and no two hold the same.      *)
Holds(c) == Writes(c) /\ call[c].pc \in {"find", "write", "applying"}

LockInv ==
    provider = "akamai" =>
        /\ \A c \in Client : Holds(c) => turn[c].lock = "holds"
        /\ \A c \in Client : turn[c].lock # "-" => turn[c].table <= table[home[c]]
        /\ \A c, d \in Client :
              c # d /\ turn[c].lock = "holds" /\ turn[d].lock = "holds" /\ home[c] = home[d]
              => turn[c].table # turn[d].table

IInv == Base /\ IdsInv /\ SeenInv /\ DoomInv /\ SweepInv /\ RaceInv /\ LockInv

-----------------------------------------------------------------------------
(* What every step of the system comes to.                                 *)

RequestStep(c) == c \in Client /\ ~Idle(c) /\ Requests(c) /\ Footprint(c)
CommitStep(x)  == x \in inflight /\ inflight = {x} /\ Pending(x) /\ ~ById /\ Committed(x)
QuietStep      == UNCHANGED <<recs, nextId, cache, call, locks, inflight, jobs, faults, softened>>

LEMMA RequestsAreMadeInACall ==
    ASSUME NEW c \in Client, Requests(c), CallOK(call[c])
    PROVE  ~Idle(c)
  <1>1. CASE GetRecord(c) \/ Route53Upsert(c) \/ Route53Delete(c) \/ DdnsReplace(c)
             \/ DdnsDelete(c) \/ DdnsList(c) \/ MockWrite(c) \/ Ns1Upsert(c) \/ Ns1Delete(c)
             \/ Ns1List(c) \/ CloudDnsRead(c) \/ CloudDnsChange(c)
    BY <1>1 DEF Idle, In, GetRecord, Looked, Route53Upsert, Route53Delete, DdnsReplace,
                DdnsDelete, DdnsList, MockWrite, Ns1Upsert, Ns1Delete, Ns1List, CloudDnsRead,
                CloudDnsChange
  <1>0. CASE AkamaiLock(c) \/ AkamaiClose(c) \/ AkamaiReconnect(c)
    BY <1>0 DEF Idle, In, AkamaiLock, AkamaiClose, AkamaiReconnect
  <1>2. CASE AkamaiRead(c) \/ AkamaiConflict(c) \/ AkamaiWrite(c)
             \/ AkamaiTimeout(c)
             \/ CloudflareRateLimited(c) \/ CloudflareLookup(c) \/ CloudflareHiddenError(c)
             \/ CloudflareWrite(c) \/ CloudflareDelete(c) \/ CloudflareCutListing(c)
    BY <1>2 DEF Idle, In, AkamaiRead, AkamaiConflict, AkamaiWrite, AkamaiTimeout,
                CloudflareRateLimited, CloudflareLookup, CloudflareHiddenError,
                CloudflareWrite, CloudflareDelete, CloudflareCutListing
  <1>3. CASE NiosLookup(c) \/ NiosWrite(c) \/ BloxoneLookup(c) \/ BloxoneUpsert(c)
             \/ BloxoneSweep(c) \/ BloxoneDelete(c) \/ PageByNumber(c) \/ PageByCursor(c)
             \/ ListAtOnce(c)
    BY <1>3 DEF Idle, In, NiosLookup, NiosWrite, BloxoneLookup, BloxoneUpsert, BloxoneSweep,
                BloxoneDelete, PageByNumber, PageByCursor, ListAtOnce
  <1>4. CASE FindZone(c) \/ AskForZone(c) \/ RecallZone(c) \/ UncachedZoneExists(c)
    BY <1>4 DEF Idle, In, FindZone, AskForZone, RecallZone, UncachedZoneExists
  <1> QED
    BY <1>0, <1>1, <1>2, <1>3, <1>4 DEF Requests

LEMMA Steps ==
    ASSUME BackendsAssumption, Base, Next
    PROVE  /\ UNCHANGED <<provider, home>> /\ zone' \in BOOLEAN /\ Observe
           /\ \/ \E c \in Client : Begun(c)
              \/ \E c \in Client : RequestStep(c)
              \/ \E x \in inflight : CommitStep(x)
              \/ QuietStep
  <1>1. CASE ZoneIsCreated
    BY <1>1 DEF ZoneIsCreated, QuietStep
  <1>2. CASE Step
    <2>1. UNCHANGED <<provider, home>> /\ zone' \in BOOLEAN /\ Observe
      BY <1>2 DEF Step, Base
    <2>2. ASSUME NEW c \in Client, Call(c)
          PROVE  Begun(c)
      BY <2>2, CallBegins DEF Base
    <2>3. ASSUME NEW c \in Client, Requests(c)
          PROVE  RequestStep(c)
      BY <2>1, <2>3, RequestFootprint, RequestsAreMadeInACall DEF Base, Grounded, RequestStep
    <2>4. ASSUME AkamaiCommit
          PROVE  \E x \in inflight : CommitStep(x)
      <3>1. inflight # {}
        BY <2>4 DEF AkamaiCommit
      <3>2. PICK x \in inflight : inflight = {x} /\ Pending(x) /\ provider = "akamai"
        BY <3>1 DEF Base
      <3>3. ~ById /\ CallOK(call[x.by])
        BY <3>2, ProviderTraits DEF Base, Pending
      <3>4. Committed(x)
        BY <2>4, <3>2, <3>3, CommitCommits
      <3> QED
        BY <3>2, <3>3, <3>4 DEF CommitStep
    <2> QED
      BY <1>2, <2>1, <2>2, <2>3, <2>4 DEF Step
  <1> QED
    BY <1>1, <1>2 DEF Next

LEMMA ObserveFacts ==
    ASSUME Observe
    PROVE  /\ raced \subseteq raced' /\ raced' \subseteq raced \cup Owner
           /\ \A o \in Owner, c \in Client, d \in Client :
                 /\ ById /\ c # d /\ call'[c].pc # "idle" /\ call'[d].pc # "idle"
                 /\ call'[c].owner = o /\ call'[d].owner = o
                 /\ call'[c].op \in {"put", "delete"} /\ call'[d].op \in {"put", "delete"}
                 => o \in raced'
           /\ \A o \in Owner, c \in Client :
                 /\ call'[c].pc # "idle" /\ call'[c].owner = o
                 /\ call'[c].op = "delete" \/ o \in doomed
                 => o \in doomed'
           /\ \A o \in Owner, x \in inflight' :
                 x.op = "delete" /\ x.owner = o => o \in doomed'
  <1>1. raced' = raced \cup {o \in IF ById THEN Owner ELSE {} :
                    \E c, d \in Client :
                        /\ c # d /\ call'[c].pc # "idle" /\ call'[d].pc # "idle"
                        /\ {call'[c].owner, call'[d].owner} = {o}
                        /\ {call'[c].op, call'[d].op} \subseteq {"put", "delete"}}
    BY DEF Observe, Idle
  <1>2. doomed' = {o \in Owner :
                    \/ \E c \in Client : /\ call'[c].pc # "idle" /\ call'[c].owner = o
                                        /\ (call'[c].op = "delete" \/ o \in doomed)
                    \/ \E x \in inflight' : x.op = "delete" /\ x.owner = o}
    BY DEF Observe, Idle
  <1>3. raced \subseteq raced' /\ raced' \subseteq raced \cup Owner
    BY <1>1
  <1>4. ASSUME NEW o \in Owner, NEW c \in Client, NEW d \in Client,
               ById, c # d, call'[c].pc # "idle", call'[d].pc # "idle",
               call'[c].owner = o, call'[d].owner = o,
               call'[c].op \in {"put", "delete"}, call'[d].op \in {"put", "delete"}
        PROVE  o \in raced'
    BY <1>1, <1>4
  <1>5. ASSUME NEW o \in Owner, NEW c \in Client,
               call'[c].pc # "idle", call'[c].owner = o, call'[c].op = "delete" \/ o \in doomed
        PROVE  o \in doomed'
    BY <1>2, <1>5
  <1>6. ASSUME NEW o \in Owner, NEW x \in inflight', x.op = "delete", x.owner = o
        PROVE  o \in doomed'
    BY <1>2, <1>6
  <1> QED
    BY <1>3, <1>4, <1>5, <1>6

(* How a step moves the calls: all but one stay, or forget that they ended. *)
Stays(d) == call'[d] = IF Idle(d) THEN Blank ELSE call[d]

LEMMA BlankOK == ASSUME BackendsAssumption PROVE CallOK(Blank)
  BY DEF BackendsAssumption, Blank, CallOK, Fields, Pcs, Ops, Answers, Owner

LEMMA CallOKStays ==
    ASSUME NEW c, CallOK(call'[c]), provider' = provider
    PROVE  CallOK(call[c])'
  BY DEF CallOK, ById, Has

LEMMA ChangeTypes ==
    ASSUME NEW o \in Owner, NEW v, recs \subseteq Records, nextId \in Nat,
           \/ v \in Value /\ (Upsert(o, v) \/ Insert(o, v))
           \/ v \in Value /\ \E id \in Nat : Overwrite(id, v)
           \/ RemoveOwner(o)
           \/ \E id \in Nat : RemoveId(id)
           \/ Untouched
    PROVE  recs' \subseteq Records /\ nextId' \in Nat
  <1>1. CASE v \in Value /\ Upsert(o, v)
    BY <1>1 DEF Upsert, Records
  <1>2. CASE v \in Value /\ Insert(o, v)
    BY <1>2 DEF Insert, Records
  <1>3. ASSUME v \in Value, NEW id \in Nat, Overwrite(id, v)
        PROVE  recs' \subseteq Records /\ nextId' \in Nat
    <2>1. \A r \in recs : [r EXCEPT !.val = v] \in Records
      BY <1>3 DEF Records
    <2> QED
      BY <1>3, <2>1 DEF Overwrite
  <1>4. CASE RemoveOwner(o) \/ Untouched \/ \E id \in Nat : RemoveId(id)
    BY <1>4 DEF RemoveOwner, RemoveId, Untouched
  <1> QED
    BY <1>1, <1>2, <1>3, <1>4

LEMMA InitRecords ==
    ASSUME Init
    PROVE  \E kept \in SUBSET Owner, twice \in SUBSET Owner :
              /\ twice \subseteq kept /\ raced = twice /\ (~ById => twice = {})
              /\ recs = {[id |-> IF ById THEN o + 0 ELSE 0, owner |-> o, val |-> Old] :
                             o \in kept}
                        \cup {[id |-> IF ById THEN o + MaxOwner ELSE 0, owner |-> o,
                               val |-> Old] : o \in twice}
  <1>1. PICK kept \in {{}, IF zone THEN Owner ELSE {}}, twice \in {{}, {1}} :
           /\ twice \subseteq IF ById THEN kept ELSE {}
           /\ recs = {[id |-> IF ById THEN o + 0 ELSE 0, owner |-> o, val |-> Old] :
                          o \in kept}
                     \cup {[id |-> IF ById THEN o + MaxOwner ELSE 0, owner |-> o,
                            val |-> Old] : o \in twice}
           /\ raced = twice
    BY DEF Init
  <1>2. kept \in SUBSET Owner
    OBVIOUS
  <1>3. twice \subseteq kept /\ (~ById => twice = {})
    BY <1>1
  <1> QED
    BY <1>1, <1>2, <1>3

LEMMA BaseInit == BackendsAssumption /\ Init => Base
  <1> SUFFICES ASSUME BackendsAssumption, Init PROVE Base
    OBVIOUS
  <1>1. recs \subseteq Records
    <2>1. \A r \in recs : \E o \in Owner, n \in {0, MaxOwner} :
             r = [id |-> IF ById THEN o + n ELSE 0, owner |-> o, val |-> Old]
      BY InitRecords
    <2>2. ASSUME NEW o \in Owner, NEW n \in {0, MaxOwner}
          PROVE  [id |-> IF ById THEN o + n ELSE 0, owner |-> o, val |-> Old] \in Records
      <3>1. o + n \in Nat
        BY DEF BackendsAssumption, Owner
      <3>2. (IF ById THEN o + n ELSE 0) \in Nat
        BY <3>1
      <3> QED
        BY <3>2 DEF Records, BackendsAssumption
    <2> QED
      BY <2>1, <2>2
  <1>2. raced \subseteq Owner
    BY InitRecords
  <1>3. \A c \in Client : CallOK(call[c])
    BY BlankOK DEF Init
  <1>4. nextId \in Nat /\ jobs \in 0 .. MaxJobs /\ faults \in 0 .. MaxFaults
    BY DEF Init, BackendsAssumption
  <1>5. zone \in BOOLEAN
    BY DEF Init
  <1>6. LocksOK
    BY DEF Init, LocksOK, NoTurn, BackendsAssumption
  <1>7. /\ provider \in Provider
        /\ softened \in BOOLEAN
        /\ Memory /\ inflight = {}
    BY <1>4 DEF Init, Memory
  <1> QED
    BY <1>1, <1>2, <1>3, <1>4, <1>5, <1>6, <1>7 DEF Base

(* The facts about a step that its actor's footprint gives about every call.*)
LEMMA CallsAreOK ==
    ASSUME BackendsAssumption, Base, UNCHANGED provider, NEW c \in Client,
           CallOK(call'[c]), \A d \in Client \ {c} : Stays(d)
    PROVE  (\A d \in Client : CallOK(call[d]))'
  <1>1. ASSUME NEW d \in Client
        PROVE  CallOK(call'[d])
    BY BlankOK DEF Stays, Base
  <1>2. ASSUME NEW d \in Client
        PROVE  CallOK(call[d])'
    BY <1>1, CallOKStays
  <1> QED
    BY <1>2

LEMMA FootprintTypes ==
    ASSUME Base, NEW c \in Client, Change(c)
    PROVE  recs' \subseteq Records /\ nextId' \in Nat
  <1> DEFINE k == call[c]
  <1>0. /\ k.owner \in Owner /\ (k.op = "put" => k.val \in Value)
        /\ k.seen \in SUBSET Records /\ recs \subseteq Records /\ nextId \in Nat
        /\ k.pc = "sweep" => k.op = "put"
    BY DEF Base, CallOK
  <1>1. \A s \in k.seen : s.id \in Nat
    BY <1>0 DEF Records
  <1>2. \/ k.val \in Value /\ (Upsert(k.owner, k.val) \/ Insert(k.owner, k.val))
        \/ k.val \in Value /\ \E id \in Nat : Overwrite(id, k.val)
        \/ RemoveOwner(k.owner)
        \/ \E id \in Nat : RemoveId(id)
        \/ Untouched
    BY <1>0, <1>1 DEF Change
  <1> QED
    BY <1>0, <1>2, ChangeTypes

LEMMA BaseStep ==
    ASSUME BackendsAssumption, Base, Next \/ UNCHANGED vars
    PROVE  Base'
  <1>1. CASE UNCHANGED vars
    BY <1>1, CallOKStays, LocksStay DEF vars, locks, Base, Memory
  <1>2. CASE Next
    <2>0. UNCHANGED <<provider, home>> /\ zone' \in BOOLEAN /\ raced' \subseteq Owner
      BY <1>2, Steps, ObserveFacts DEF Base
    <2>1. ASSUME NEW c \in Client, Begun(c)
          PROVE  Base'
      <3>1. (\A d \in Client : CallOK(call[d]))'
        BY <2>0, <2>1, CallsAreOK DEF Begun, Stays
      <3>2. jobs' \in 0 .. MaxJobs
        BY <2>1 DEF Begun, Base, BackendsAssumption
      <3> QED
        BY <2>0, <2>1, <3>1, <3>2, LocksStay DEF Begun, Untouched, Base, Memory
    <2>2. ASSUME NEW c \in Client, RequestStep(c)
          PROVE  Base'
      <3>0. Footprint(c) /\ Change(c) /\ Others(c)
        BY <2>2 DEF RequestStep, Footprint
      <3>1. (\A d \in Client : CallOK(call[d]))'
        BY <2>0, <3>0, CallsAreOK DEF Footprint, Goes, Stays
      <3>2. recs' \subseteq Records /\ nextId' \in Nat
        BY <3>0, FootprintTypes
      <3>3. faults' \in 0 .. MaxFaults
        BY <3>0 DEF Others, Base, BackendsAssumption
      <3>4. \/ inflight' = {}
            \/ provider = "akamai" /\ \E x \in inflight' : inflight' = {x} /\ Pending(x)
        <4>1. CASE inflight' = inflight
          BY <4>1 DEF Base
        <4>2. CASE /\ provider = "akamai" /\ call[c].op \in {"put", "delete"}
                   /\ inflight' = {[by |-> c, op |-> call[c].op, owner |-> call[c].owner,
                                    val |-> call[c].val]}
          BY <4>2 DEF Pending, Base, CallOK
        <4> QED
          BY <3>0, <4>1, <4>2 DEF Others
      <3>5. /\ jobs' = jobs /\ softened' \in BOOLEAN
            /\ Memory' /\ LocksOK'
        BY <3>0 DEF Others, Base, Memory
      <3> QED
        BY <2>0, <3>1, <3>2, <3>3, <3>4, <3>5 DEF Base, Pending
    <2>3. ASSUME NEW x \in inflight, CommitStep(x)
          PROVE  Base'
      <3>0. Committed(x) /\ Pending(x)
        BY <2>3 DEF CommitStep
      <3>1. (\A d \in Client : CallOK(call[d]))'
        <4>1. CASE call' = call
          BY <2>0, <4>1, CallOKStays DEF Base
        <4>2. CASE Goes(x.by, "idle", call[x.by].seen)
          BY <2>0, <3>0, <4>2, CallsAreOK DEF Goes, Stays, Pending
        <4> QED
          BY <3>0, <4>1, <4>2 DEF Committed
      <3>2. recs' \subseteq Records /\ nextId' \in Nat
        BY <3>0, ChangeTypes DEF Committed, Pending, Base
      <3>3. LocksOK' /\ Memory'
        BY <2>0, <3>0, UnlockKeepsType DEF Committed, Pending, Base, Memory
      <3> QED
        BY <2>0, <3>0, <3>1, <3>2, <3>3 DEF Committed, Base
    <2>4. CASE QuietStep
      BY <2>0, <2>4, CallOKStays, LocksStay DEF QuietStep, Base, Pending, Memory
    <2> QED
      BY <1>2, <2>1, <2>2, <2>3, <2>4, Steps
  <1> QED
    BY <1>1, <1>2

-----------------------------------------------------------------------------
(* Ids, and what the writers know of.                                      *)

LEMMA ByIdStays == ASSUME UNCHANGED provider PROVE ById' <=> ById
  BY DEF ById, Has

LEMMA IdsInit == BackendsAssumption /\ Init => IdsInv
  <1> SUFFICES ASSUME BackendsAssumption, Init PROVE IdsInv
    OBVIOUS
  <1>1. PICK kept \in SUBSET Owner, twice \in SUBSET Owner :
              /\ twice \subseteq kept /\ raced = twice /\ (~ById => twice = {})
              /\ recs = {[id |-> IF ById THEN o + 0 ELSE 0, owner |-> o, val |-> Old] :
                             o \in kept}
                        \cup {[id |-> IF ById THEN o + MaxOwner ELSE 0, owner |-> o,
                               val |-> Old] : o \in twice}
    BY InitRecords
  <1>2. MaxOwner \in Nat /\ nextId = 2 * MaxOwner + 1
    BY DEF Init, BackendsAssumption
  <1>3. CASE ~ById
    BY <1>1, <1>3 DEF IdsInv
  <1>4. CASE ById
    <2>1. \A r \in recs : r.owner \in Owner /\ r.id \in {r.owner, r.owner + MaxOwner}
                          /\ r.val = Old /\ DOMAIN r = {"id", "owner", "val"}
      BY <1>1, <1>2, <1>4 DEF Owner
    <2>2. \A r \in recs : r.id < nextId
      BY <1>2, <2>1 DEF Owner
    <2>3. ASSUME NEW r \in recs, NEW s \in recs, r.id = s.id
          PROVE  r = s
      <3>1. r.owner = s.owner
        BY <1>2, <2>1, <2>3 DEF Owner
      <3>2. /\ r = [id |-> r.id, owner |-> r.owner, val |-> Old]
            /\ s = [id |-> s.id, owner |-> s.owner, val |-> Old]
        BY <1>1
      <3> QED
        BY <2>3, <3>1, <3>2
    <2> QED
      BY <1>4, <2>2, <2>3 DEF IdsInv
  <1> QED
    BY <1>3, <1>4

(* A request keeps the ids of what it leaves, and a new one is new.         *)
LEMMA ChangeByOwner ==
    ASSUME Base, IdsInv, ~ById, NEW o, NEW v, Upsert(o, v) \/ RemoveOwner(o) \/ Untouched
    PROVE  \A r, s \in recs' : r.owner = s.owner => r = s
  <1>1. \A r, s \in recs : r.owner = s.owner => r = s
    BY DEF IdsInv
  <1>2. CASE Upsert(o, v)
    BY <1>1, <1>2 DEF Upsert, At
  <1>3. CASE RemoveOwner(o) \/ Untouched
    BY <1>1, <1>3 DEF RemoveOwner, Untouched
  <1> QED
    BY <1>2, <1>3

LEMMA ChangeById ==
    ASSUME Base, IdsInv, ById, NEW c \in Client, Change(c)
    PROVE  /\ nextId' \in {nextId, nextId + 1}
           /\ \A q \in recs' :
                 \/ \E r \in recs : r.id = q.id /\ r.owner = q.owner
                 \/ q.id = nextId /\ nextId' = nextId + 1 /\ q.owner = call[c].owner
           /\ \A q \in recs' : q.id < nextId'
           /\ \A q, p \in recs' : q.id = p.id => q = p
  <1> DEFINE k == call[c]
  <1>0. /\ recs \subseteq Records /\ nextId \in Nat
        /\ \A r \in recs : r.id \in Nat /\ r.id < nextId
        /\ \A r, s \in recs : r.id = s.id => r = s
    BY DEF Base, IdsInv, Records
  <1>1. CASE Untouched
    BY <1>0, <1>1 DEF Untouched
  <1>2. CASE Insert(k.owner, k.val)
    BY <1>0, <1>2 DEF Insert
  <1>3. ASSUME NEW id, Overwrite(id, k.val)
        PROVE  /\ nextId' = nextId
               /\ \A q \in recs' : \E r \in recs : r.id = q.id /\ r.owner = q.owner
               /\ \A q, p \in recs' : q.id = p.id => q = p
    <2>1. \A r \in recs : /\ [r EXCEPT !.val = k.val].id = r.id
                          /\ [r EXCEPT !.val = k.val].owner = r.owner
      BY <1>0 DEF Records
    <2> HIDE DEF k
    <2>2. \A q \in recs' : \E r \in recs :
              /\ r.id = q.id /\ r.owner = q.owner
              /\ q = IF r.id = id THEN [r EXCEPT !.val = k.val] ELSE r
      BY <1>3, <2>1 DEF Overwrite
    <2>3. nextId' = nextId
      BY <1>3 DEF Overwrite
    <2> QED
      BY <1>0, <2>2, <2>3
  <1>4. ASSUME NEW id, RemoveId(id)
        PROVE  nextId' = nextId /\ recs' \subseteq recs
    BY <1>4 DEF RemoveId
  <1>5. \/ Untouched \/ Insert(k.owner, k.val)
        \/ \E id : Overwrite(id, k.val)
        \/ \E id : RemoveId(id)
    BY DEF Change
  <1>6. ASSUME NEW id, Overwrite(id, k.val)
        PROVE  \A q \in recs' : q.id < nextId'
    BY <1>0, <1>3, <1>6
  <1> HIDE DEF k
  <1>7. CASE \E id : Overwrite(id, k.val)
    BY <1>3, <1>6, <1>7
  <1>8. CASE \E id : RemoveId(id)
    BY <1>0, <1>4, <1>8
  <1> QED
    BY <1>0, <1>1, <1>2, <1>5, <1>7, <1>8 DEF k

LEMMA IdsStep ==
    ASSUME BackendsAssumption, Base, IdsInv, Next \/ UNCHANGED vars
    PROVE  IdsInv'
  <1>1. CASE UNCHANGED vars
    BY <1>1, ByIdStays DEF vars, IdsInv
  <1>2. CASE Next
    <2>0. ById' <=> ById
      BY <1>2, Steps, ByIdStays
    <2>1. CASE Untouched
      BY <2>0, <2>1 DEF Untouched, IdsInv
    <2>2. ASSUME NEW c \in Client, RequestStep(c)
          PROVE  IdsInv'
      <3>1. Change(c)
        BY <2>2 DEF RequestStep, Footprint
      <3>2. CASE ById
        BY <2>0, <3>1, <3>2, ChangeById DEF IdsInv
      <3>3. CASE ~ById
        <4>1. Upsert(call[c].owner, call[c].val) \/ RemoveOwner(call[c].owner) \/ Untouched
          BY <3>1, <3>3 DEF Change
        <4> QED
          BY <2>0, <3>3, <4>1, ChangeByOwner DEF IdsInv
      <3> QED
        BY <3>2, <3>3
    <2>3. ASSUME NEW x \in inflight, CommitStep(x)
          PROVE  IdsInv'
      BY <2>0, <2>3, ChangeByOwner DEF CommitStep, Committed, IdsInv
    <2> QED
      BY <1>2, <2>1, <2>2, <2>3, Steps DEF Begun, QuietStep, Untouched
  <1> QED
    BY <1>1, <1>2

LEMMA SeenStep ==
    ASSUME BackendsAssumption, Base, IdsInv, SeenInv, Next \/ UNCHANGED vars
    PROVE  SeenInv'
  <1>1. CASE UNCHANGED vars
    BY <1>1, ByIdStays DEF vars, SeenInv, Writes
  <1>2. CASE Next
    <2>0. ById' <=> ById
      BY <1>2, Steps, ByIdStays
    <2> SUFFICES ASSUME ById, NEW d \in Client, call'[d].op \in {"put", "delete"}
                 PROVE  /\ \A s \in call'[d].seen :
                              /\ s.owner = call'[d].owner /\ s.id < nextId'
                              /\ \A r \in recs' : r.id = s.id => r.owner = s.owner
                        /\ \A s, t \in call'[d].seen : s.id = t.id => s = t
      BY <2>0 DEF SeenInv, Writes
    <2>1. Blank.op = "-"
      BY DEF Blank
    <2>2. ASSUME call[d].op \in {"put", "delete"}
          PROVE  /\ \A s \in call[d].seen :
                        /\ s.owner = call[d].owner /\ s.id < nextId /\ s.id \in Nat
                        /\ \A r \in recs : r.id = s.id => r.owner = s.owner
                 /\ \A s, t \in call[d].seen : s.id = t.id => s = t
      BY <2>2 DEF SeenInv, Writes, Base, CallOK, Records
    <2>3. ASSUME NEW c \in Client, Begun(c)
          PROVE  /\ \A s \in call'[d].seen :
                        /\ s.owner = call'[d].owner /\ s.id < nextId'
                        /\ \A r \in recs' : r.id = s.id => r.owner = s.owner
                 /\ \A s, t \in call'[d].seen : s.id = t.id => s = t
      <3>1. CASE d = c
        BY <2>3, <3>1 DEF Begun
      <3>2. CASE d # c
        BY <2>1, <2>2, <2>3, <3>2 DEF Begun, Untouched
      <3> QED
        BY <3>1, <3>2
    <2>4. ASSUME NEW c \in Client, RequestStep(c)
          PROVE  /\ \A s \in call'[d].seen :
                        /\ s.owner = call'[d].owner /\ s.id < nextId'
                        /\ \A r \in recs' : r.id = s.id => r.owner = s.owner
                 /\ \A s, t \in call'[d].seen : s.id = t.id => s = t
      <3>1. Change(c) /\ SeenRule(c) /\ \E pc, seen : Goes(c, pc, seen)
        BY <2>4 DEF RequestStep, Footprint
      <3>2. /\ nextId \in Nat /\ nextId' \in {nextId, nextId + 1}
            /\ \A q \in recs' :
                  \/ \E r \in recs : r.id = q.id /\ r.owner = q.owner
                  \/ q.id = nextId /\ nextId' = nextId + 1
        BY <3>1, ChangeById DEF Base
      <3>3. ASSUME call[d].op \in {"put", "delete"}
            PROVE  \A s \in call[d].seen :
                        /\ s.owner = call[d].owner /\ s.id < nextId'
                        /\ \A r \in recs' : r.id = s.id => r.owner = s.owner
        BY <2>2, <3>2, <3>3
      <3>4. CASE d # c
        BY <2>1, <2>2, <3>1, <3>3, <3>4 DEF Goes
      <3>5. CASE d = c
        <4>1. call'[d].op = call[d].op /\ call'[d].owner = call[d].owner
          BY <3>1, <3>5 DEF Goes
        <4>2. CASE call'[d].seen \subseteq call[d].seen
          BY <2>2, <3>3, <4>1, <4>2
        <4>3. CASE call'[d].seen \subseteq At(call[d].owner) /\ Untouched
          <5>1. \A s \in call'[d].seen : s \in recs /\ s.owner = call[d].owner
            BY <4>3 DEF At
          <5> QED
            BY <4>1, <4>3, <5>1 DEF IdsInv, Untouched
        <4> QED
          BY <3>1, <3>5, <4>1, <4>2, <4>3 DEF SeenRule
      <3> QED
        BY <3>4, <3>5
    <2>5. ASSUME NEW x \in inflight, CommitStep(x)
          PROVE  FALSE
      BY <2>5 DEF CommitStep
    <2>6. CASE QuietStep
      BY <2>2, <2>6 DEF QuietStep
    <2> QED
      BY <1>2, <2>3, <2>4, <2>5, <2>6, Steps
  <1> QED
    BY <1>1, <1>2

-----------------------------------------------------------------------------
(* Whose records are being deleted, and what a sweep leaves.               *)

LEMMA DoomStep ==
    ASSUME BackendsAssumption, Base, DoomInv, Next \/ UNCHANGED vars
    PROVE  DoomInv'
  <1>1. CASE UNCHANGED vars
    BY <1>1 DEF vars, DoomInv, Idle
  <1>2. CASE Next
    <2>0. Base' /\ Observe
      BY <1>2, BaseStep, Steps
    <2>1. ASSUME NEW c \in Client, call'[c].pc # "idle", call'[c].op = "delete"
          PROVE  call'[c].owner \in doomed'
      <3>1. call'[c].owner \in Owner
        BY <2>0 DEF Base, CallOK
      <3> QED
        BY <2>0, <2>1, <3>1, ObserveFacts
    <2>2. ASSUME NEW x \in inflight', x.op = "delete"
          PROVE  x.owner \in doomed'
      <3>1. x.owner \in Owner
        BY <2>0, <2>2 DEF Base, Pending
      <3> QED
        BY <2>0, <2>2, <3>1, ObserveFacts
    <2> QED
      BY <2>1, <2>2 DEF DoomInv, Idle
  <1> QED
    BY <1>1, <1>2

(* Who is there after a request of c, of the records that were.             *)
LEMMA WhoStays ==
    ASSUME Base, IdsInv, ById, NEW c \in Client, Change(c), NEW r \in recs
    PROVE  \/ \E q \in recs' : q.id = r.id /\ q.owner = r.owner
           \/ /\ \E s \in call[c].seen : s.id = r.id
              /\ call[c].op = "delete" \/ call[c].pc = "sweep"
  <1> DEFINE k == call[c]
  <1>0. recs \subseteq Records
    BY DEF Base
  <1>1. CASE Untouched \/ Insert(k.owner, k.val)
    BY <1>1 DEF Untouched, Insert
  <1>2. ASSUME NEW id, Overwrite(id, k.val)
        PROVE  \E q \in recs' : q.id = r.id /\ q.owner = r.owner
    <2> DEFINE q == IF r.id = id THEN [r EXCEPT !.val = k.val] ELSE r
    <2>1. q \in recs'
      BY <1>2 DEF Overwrite
    <2>2. q.id = r.id /\ q.owner = r.owner
      BY <1>0 DEF Records
    <2> QED
      BY <2>1, <2>2
  <1>3. ASSUME NEW s \in k.seen, RemoveId(s.id)
        PROVE  s.id = r.id \/ \E q \in recs' : q.id = r.id /\ q.owner = r.owner
    BY <1>3 DEF RemoveId
  <1>4. \/ Untouched \/ Insert(k.owner, k.val)
        \/ \E id : Overwrite(id, k.val)
        \/ /\ \E s \in k.seen : RemoveId(s.id)
           /\ k.op = "delete" \/ k.pc = "sweep"
    BY DEF Change
  <1> HIDE DEF k
  <1>5. CASE /\ \E s \in k.seen : RemoveId(s.id)
             /\ k.op = "delete" \/ k.pc = "sweep"
    BY <1>3, <1>5 DEF k
  <1>6. CASE \E id : Overwrite(id, k.val)
    BY <1>2, <1>6
  <1> QED
    BY <1>1, <1>4, <1>5, <1>6

(* An owner some call is still about stays doomed.                         *)
LEMMA DoomedStays ==
    ASSUME Observe, NEW d \in Client, NEW o \in Owner, o \in doomed,
           call'[d].pc # "idle", call'[d].owner = o
    PROVE  o \in doomed'
  BY ObserveFacts

LEMMA SweepStep ==
    ASSUME BackendsAssumption, Base, IdsInv, SeenInv, DoomInv, SweepInv,
           Next \/ UNCHANGED vars
    PROVE  SweepInv'
  <1>1. CASE UNCHANGED vars
    BY <1>1 DEF vars, SweepInv, Survivor
  <1>2. CASE Next
    <2>0. Base' /\ Observe
      BY <1>2, BaseStep, Steps
    <2> SUFFICES ASSUME NEW d \in Client, call'[d].pc = "sweep", call'[d].owner \notin doomed'
                 PROVE  \E r \in recs' : /\ r.owner = call'[d].owner
                                         /\ \A s \in call'[d].seen : r.id < s.id
      BY DEF SweepInv, Survivor
    <2> DEFINE o == call'[d].owner
               Oldest(rs, seen) == \E r \in rs : r.owner = o /\ \A s \in seen : r.id < s.id
    <2>1. o \in Owner /\ o \notin doomed
      BY <2>0, DoomedStays DEF Base, CallOK
    <2>2. Blank.pc = "idle"
      BY DEF Blank
    <2>3. ASSUME NEW c \in Client, Begun(c)
          PROVE  Oldest(recs', call'[d].seen)
      <3>1. d # c /\ call'[d] = call[d]
        BY <2>2, <2>3 DEF Begun
      <3> QED
        BY <2>1, <2>3, <3>1 DEF Begun, Untouched, SweepInv, Survivor
    <2>4. ASSUME NEW c \in Client, RequestStep(c)
          PROVE  Oldest(recs', call'[d].seen)
      <3>1. /\ ~Idle(c) /\ Change(c) /\ SweepRule(c) /\ CallOK(call[c]) /\ CallOK(call[d])
            /\ \E pc, seen : Goes(c, pc, seen)
        BY <2>4 DEF RequestStep, Footprint, Base
      <3>2. call'[d].owner = call[d].owner /\ call'[d].op = call[d].op
        BY <2>2, <3>1 DEF Goes
      <3>3. ById /\ call[d].op = "put"
        <4>1. CASE d = c
          BY <3>1, <3>2, <4>1 DEF Goes, CallOK
        <4>2. CASE d # c
          BY <2>2, <3>1, <4>2 DEF Goes, CallOK
        <4> QED
          BY <4>1, <4>2
      <3>4. /\ \A s \in call[d].seen :
                  /\ s.owner = o /\ s.id \in Nat
                  /\ \A r \in recs : r.id = s.id => r.owner = s.owner
            /\ \A s, t \in call[d].seen : s.id = t.id => s = t
        BY <3>1, <3>2, <3>3 DEF SeenInv, Writes, CallOK, Records
      <3>5. recs \subseteq Records /\ \A r \in recs : r.id \in Nat
        BY DEF Base, Records
      \* A record of the owner that is older than all that the sweep removes
      \* stays, or another sweep of the owner leaves a still older one.
      <3>6. ASSUME Oldest(recs, call[d].seen), call'[d].seen \subseteq call[d].seen
            PROVE  Oldest(recs', call'[d].seen)
        <4>1. PICK r \in recs : r.owner = o /\ \A s \in call[d].seen : r.id < s.id
          BY <3>6
        <4>2. CASE \E q \in recs' : q.id = r.id /\ q.owner = r.owner
          BY <3>6, <4>1, <4>2
        <4>3. CASE /\ \E s \in call[c].seen : s.id = r.id
                   /\ call[c].op = "delete" \/ call[c].pc = "sweep"
          <5>1. PICK s \in call[c].seen : s.id = r.id
            BY <4>3
          <5>2. Writes(c)
            BY <3>1, <4>3 DEF Writes, CallOK
          <5>3. call[c].owner = o
            BY <3>3, <4>1, <5>1, <5>2 DEF SeenInv
          <5>4. call[c].op # "delete"
            BY <2>1, <3>1, <5>3 DEF DoomInv
          <5>5. PICK q \in recs : q.owner = o /\ \A t \in call[c].seen : q.id < t.id
            BY <2>1, <4>3, <5>3, <5>4 DEF SweepInv, Survivor
          <5>6. q.id < r.id
            BY <5>1, <5>5
          <5>7. ~ \E t \in call[c].seen : t.id = q.id
            BY <3>5, <5>5
          <5>8. \E p \in recs' : p.id = q.id /\ p.owner = q.owner
            BY <3>1, <3>3, <5>7, WhoStays
          <5>9. \A t \in call[d].seen : q.id < t.id
            BY <3>4, <3>5, <4>1, <5>6
          <5> QED
            BY <3>6, <5>5, <5>8, <5>9
        <4> QED
          BY <3>1, <3>3, <4>2, <4>3, WhoStays
      <3>7. CASE call[d].pc = "sweep" /\ call'[d].seen \subseteq call[d].seen
        BY <2>1, <3>2, <3>6, <3>7 DEF SweepInv, Survivor
      <3>8. CASE d # c
        BY <2>2, <3>1, <3>7, <3>8 DEF Goes
      <3>9. CASE d = c /\ call[d].pc # "sweep"
        <4>1. PICK r \in call[d].seen :
                 /\ \E now \in recs' : now.id = r.id
                 /\ \A s \in call'[d].seen : r.id <= s.id /\ s # r
          BY <3>1, <3>9 DEF SweepRule
        <4>2. call'[d].seen \subseteq call[d].seen
          BY <3>1, <3>9 DEF SweepRule
        <4>3. \A s \in call'[d].seen : r.id < s.id
          BY <3>4, <4>1, <4>2
        <4>4. PICK now \in recs' : now.id = r.id
          BY <4>1
        <4>5. now.owner = o
          <5>1. r.owner = o /\ r.id < nextId
            BY <3>2, <3>3 DEF SeenInv, Writes
          <5>2. \/ \E q \in recs : q.id = now.id /\ q.owner = now.owner
                \/ now.id = nextId
            BY <3>1, <3>3, ChangeById
          <5>3. nextId \in Nat
            BY DEF Base
          <5> QED
            BY <3>4, <4>4, <5>1, <5>2, <5>3
        <4> QED
          BY <4>3, <4>4, <4>5
      <3> QED
        BY <3>1, <3>7, <3>8, <3>9 DEF SweepRule
    <2>5. ASSUME NEW x \in inflight, CommitStep(x)
          PROVE  FALSE
      <3>1. ~ById'
        BY <1>2, <2>5, Steps, ByIdStays DEF CommitStep
      <3> QED
        BY <2>0, <3>1 DEF Base, CallOK
    <2>6. CASE QuietStep
      BY <2>1, <2>6 DEF QuietStep, SweepInv, Survivor
    <2> QED
      BY <1>2, <2>3, <2>4, <2>5, <2>6, Steps
  <1> QED
    BY <1>1, <1>2

-----------------------------------------------------------------------------
(* Races.                                                                  *)

LEMMA RaceInit == BackendsAssumption /\ Init => RaceInv
  <1> SUFFICES ASSUME BackendsAssumption, Init, ById PROVE RaceInv
    BY DEF RaceInv
  <1>1. PICK kept \in SUBSET Owner, twice \in SUBSET Owner :
              /\ twice \subseteq kept /\ raced = twice /\ (~ById => twice = {})
              /\ recs = {[id |-> IF ById THEN o + 0 ELSE 0, owner |-> o, val |-> Old] :
                             o \in kept}
                        \cup {[id |-> IF ById THEN o + MaxOwner ELSE 0, owner |-> o,
                               val |-> Old] : o \in twice}
    BY InitRecords
  <1>2. \A r, s \in recs : r.owner = s.owner /\ r.owner \notin raced => r = s
    BY <1>1
  <1>3. \A c \in Client : call[c].pc = "idle" /\ call[c].op = "-"
    BY DEF Init, Blank
  <1> QED
    BY <1>2, <1>3 DEF RaceInv, WritersRace, OneRecordEach, ReadStillHolds, Calm, Idle,
                      Writes

LEMMA RaceStep ==
    ASSUME BackendsAssumption, Base, IdsInv, SeenInv, RaceInv, Next \/ UNCHANGED vars
    PROVE  RaceInv'
  <1>1. CASE UNCHANGED vars
    BY <1>1, ByIdStays DEF vars, RaceInv, WritersRace, OneRecordEach, ReadStillHolds, Calm,
                             Idle, Writes, At, HasId
  <1>2. CASE Next
    <2>0. Base' /\ Observe /\ IdsInv'
      BY <1>2, BaseStep, IdsStep, Steps
    <2>1. ById' <=> ById
      BY <1>2, Steps, ByIdStays
    <2> SUFFICES ASSUME ById PROVE RaceInv'
      BY <2>1 DEF RaceInv
    <2>2. ASSUME NEW c \in Client, NEW d \in Client, c # d,
                 call'[c].pc # "idle", call'[d].pc # "idle",
                 call'[c].op \in {"put", "delete"}, call'[d].op \in {"put", "delete"},
                 call'[c].owner = call'[d].owner
          PROVE  call'[c].owner \in raced'
      <3>1. call'[c].owner \in Owner
        BY <2>0 DEF Base, CallOK
      <3> QED
        BY <2>0, <2>2, <3>1, ObserveFacts
    <2>3. raced \subseteq raced' /\ softened \in BOOLEAN /\ softened' \in BOOLEAN
      BY <2>0, ObserveFacts DEF Base
    <2> DEFINE CalmNow(o) == o \notin raced /\ ~softened
               CalmThen(o) == o \notin raced' /\ ~softened'
               One(o) == \A r, s \in recs' : r.owner = o /\ s.owner = o => r = s
               Knows(d) == /\ call'[d].pc = "write"
                           /\ call'[d].seen = {} => \A r \in recs' : r.owner # call'[d].owner
                           /\ \A s \in call'[d].seen : \E r \in recs' : r.id = s.id
    <2>4. ASSUME NEW o \in Owner, CalmNow(o)
          PROVE  \A r, s \in recs : r.owner = o /\ s.owner = o => r = s
      BY <2>4 DEF RaceInv, OneRecordEach, Calm
    <2>5. ASSUME NEW d \in Client, call[d].op = "put", call[d].pc \in {"write", "post"},
                 CalmNow(call[d].owner)
          PROVE  /\ call[d].pc = "write"
                 /\ call[d].seen = {} => \A r \in recs : r.owner # call[d].owner
                 /\ \A s \in call[d].seen : \E r \in recs : r.id = s.id
      BY <2>5 DEF RaceInv, ReadStillHolds, Calm, At, HasId
    <2>6. Blank.pc = "idle"
      BY DEF Blank
    <2>7. ASSUME NEW c \in Client, Begun(c)
          PROVE  /\ \A o \in Owner : CalmThen(o) => One(o)
                 /\ \A d \in Client : /\ call'[d].op = "put"
                                      /\ call'[d].pc \in {"write", "post"}
                                      /\ CalmThen(call'[d].owner)
                                      => Knows(d)
      <3>0. recs' = recs /\ softened' = softened
        BY <2>7 DEF Begun, Untouched
      <3>1. \A o \in Owner : CalmThen(o) => One(o)
        BY <2>3, <2>4, <3>0
      <3>2. ASSUME NEW d \in Client, call'[d].op = "put", call'[d].pc \in {"write", "post"},
                   CalmThen(call'[d].owner)
            PROVE  Knows(d)
        <4>1. call'[d] = call[d]
          BY <2>6, <2>7, <3>2 DEF Begun
        <4> QED
          BY <2>3, <2>5, <3>0, <3>2, <4>1
      <3> QED
        BY <3>1, <3>2
    <2>8. ASSUME NEW c \in Client, RequestStep(c)
          PROVE  /\ \A o \in Owner : CalmThen(o) => One(o)
                 /\ \A d \in Client : /\ call'[d].op = "put"
                                      /\ call'[d].pc \in {"write", "post"}
                                      /\ CalmThen(call'[d].owner)
                                      => Knows(d)
      <3>0. /\ ~Idle(c) /\ Change(c) /\ WriteRule(c) /\ CallOK(call[c])
            /\ \E pc, seen : Goes(c, pc, seen)
            /\ softened' \in {softened, TRUE}
        BY <2>8 DEF RequestStep, Footprint, Others, Base
      <3>1. \A o : CalmThen(o) => CalmNow(o)
        BY <2>3, <3>0
      <3>2. recs \subseteq Records
        BY DEF Base
      <3>3. ASSUME NEW o \in Owner, CalmThen(o)
            PROVE  One(o)
        <4> DEFINE k == call[c]
        <4>0. \A r, s \in recs : r.owner = o /\ s.owner = o => r = s
          BY <2>4, <3>1, <3>3
        <4>1. CASE Untouched
          BY <4>0, <4>1 DEF Untouched
        <4>2. ASSUME NEW id, Overwrite(id, k.val)
              PROVE  One(o)
          <5>1. \A q \in recs' : \E r \in recs :
                    /\ r.owner = q.owner
                    /\ q = IF r.id = id THEN [r EXCEPT !.val = k.val] ELSE r
            BY <3>2, <4>2 DEF Overwrite, Records
          <5> HIDE DEF k
          <5> QED
            BY <4>0, <5>1
        <4>3. ASSUME NEW id, RemoveId(id)
              PROVE  One(o)
          BY <4>0, <4>3 DEF RemoveId
        <4>4. CASE /\ k.op = "put" /\ Insert(k.owner, k.val)
                   /\ k.pc = "post" \/ (k.pc = "write" /\ k.seen = {})
          <5>1. CASE k.owner # o
            BY <4>0, <4>4, <5>1 DEF Insert
          <5>2. CASE k.owner = o
            <6>1. \A r \in recs : r.owner # o
              BY <2>5, <3>1, <3>3, <4>4, <5>2
            <6> QED
              BY <4>4, <6>1 DEF Insert
          <5> QED
            BY <5>1, <5>2
        <4>5. \/ Untouched
              \/ \E id : Overwrite(id, k.val)
              \/ \E id : RemoveId(id)
              \/ /\ k.op = "put" /\ Insert(k.owner, k.val)
                 /\ k.pc = "post" \/ (k.pc = "write" /\ k.seen = {})
          BY <3>0 DEF Change
        <4> HIDE DEF k
        <4>6. CASE \E id : Overwrite(id, k.val)
          BY <4>2, <4>6
        <4>7. CASE \E id : RemoveId(id)
          BY <4>3, <4>7
        <4> QED
          BY <4>1, <4>4, <4>5, <4>6, <4>7
      <3>4. ASSUME NEW d \in Client, call'[d].op = "put", call'[d].pc \in {"write", "post"},
                   CalmThen(call'[d].owner)
            PROVE  Knows(d)
        <4>1. CASE d = c
          <5>1. /\ call'[c].op = call[c].op /\ call'[c].owner = call[c].owner
            BY <3>0 DEF Goes
          <5>2. /\ recs' = recs
                /\ \/ /\ call[c].pc = "find" /\ call'[c].pc = "write"
                      /\ call'[c].seen \subseteq At(call[c].owner)
                      /\ call'[c].seen = {} => At(call[c].owner) = {}
                   \/ call'[c].seen = call[c].seen /\ call'[c].pc = call[c].pc
                   \/ /\ call'[c].seen = call[c].seen /\ call[c].pc = "write"
                      /\ call[c].seen # {} /\ \E s \in call[c].seen : ~HasId(s.id)
            BY <3>0, <3>4, <4>1, <5>1 DEF WriteRule, Untouched
          <5>3. CalmNow(call[c].owner)
            BY <3>1, <3>4, <4>1, <5>1
          <5>4. CASE /\ call[c].pc = "find" /\ call'[c].pc = "write"
                     /\ call'[c].seen \subseteq At(call[c].owner)
                     /\ call'[c].seen = {} => At(call[c].owner) = {}
            BY <4>1, <5>1, <5>2, <5>4 DEF At
          <5>5. CASE call'[c].seen = call[c].seen /\ call'[c].pc = call[c].pc
            BY <2>5, <3>4, <4>1, <5>1, <5>2, <5>3, <5>5
          <5>6. CASE call[c].pc = "write" /\ \E s \in call[c].seen : ~HasId(s.id)
            BY <2>5, <3>4, <4>1, <5>1, <5>3, <5>6 DEF HasId
          <5> QED
            BY <5>2, <5>4, <5>5, <5>6
        <4>2. CASE d # c
          <5>1. call'[d] = call[d] /\ ~Idle(d)
            BY <2>6, <3>0, <3>4, <4>2 DEF Goes
          <5>2. /\ call[d].pc = "write"
                /\ call[d].seen = {} => \A r \in recs : r.owner # call[d].owner
                /\ \A s \in call[d].seen : \E r \in recs : r.id = s.id
            BY <2>5, <3>1, <3>4, <5>1
          <5>3. Writes(c) => call[c].owner # call[d].owner
            BY <3>0, <3>1, <3>4, <4>2, <5>1 DEF RaceInv, WritersRace, Writes
          <5>4. call[d].seen = {} => \A q \in recs' : q.owner # call[d].owner
            <6>1. \A q \in recs' : \/ \E r \in recs : r.id = q.id /\ r.owner = q.owner
                                   \/ q.owner = call[c].owner /\ nextId' = nextId + 1
              BY <3>0, ChangeById
            <6>2. nextId' = nextId + 1 /\ nextId \in Nat => Writes(c)
              BY <3>0 DEF Change, Untouched, Writes, RemoveId, CallOK, Upsert
            <6>3. nextId \in Nat
              BY DEF Base
            <6> QED
              BY <5>2, <5>3, <6>1, <6>2, <6>3
          <5>5. ASSUME NEW s \in call[d].seen
                PROVE  \E q \in recs' : q.id = s.id
            <6>1. PICK r \in recs : r.id = s.id
              BY <5>2
            <6>2. CASE \E t \in call[c].seen : t.id = r.id
              <7>1. Writes(c) => FALSE
                <8>1. ASSUME Writes(c) PROVE r.owner = call[c].owner
                  BY <6>2, <8>1 DEF SeenInv
                <8>2. r.owner = call[d].owner
                  BY <3>4, <5>1, <6>1 DEF SeenInv, Writes
                <8> QED
                  BY <5>3, <8>1, <8>2
              <7>2. ~(call[c].op = "delete" \/ call[c].pc = "sweep")
                BY <3>0, <7>1 DEF Writes, CallOK
              <7> QED
                BY <3>0, <6>1, <7>2, WhoStays
            <6>3. CASE ~ \E t \in call[c].seen : t.id = r.id
              BY <3>0, <6>1, <6>3, WhoStays
            <6> QED
              BY <6>2, <6>3
          <5> QED
            BY <5>1, <5>2, <5>4, <5>5
        <4> QED
          BY <4>1, <4>2
      <3> QED
        BY <3>3, <3>4
    <2>9. ASSUME NEW x \in inflight, CommitStep(x)
          PROVE  FALSE
      BY <2>9 DEF CommitStep
    <2>11. /\ \A o \in Owner : CalmThen(o) => One(o)
           /\ \A d \in Client : /\ call'[d].op = "put"
                                /\ call'[d].pc \in {"write", "post"}
                                /\ CalmThen(call'[d].owner)
                                => Knows(d)
      <3>1. CASE QuietStep
        <4>1. recs' = recs /\ call' = call /\ softened' = softened
          BY <3>1 DEF QuietStep
        <4>2. \A o \in Owner : CalmThen(o) => One(o)
          BY <2>3, <2>4, <4>1
        <4> QED
          BY <2>3, <2>5, <4>1, <4>2
      <3> QED
        BY <1>2, <2>7, <2>8, <2>9, <3>1, Steps
    <2>12. \A r \in recs' : r.owner \in Owner
      BY <2>0 DEF Base, Records
    <2>13. \A r, s \in recs' : r.owner = s.owner /\ CalmThen(r.owner) => r = s
      BY <2>11, <2>12
    <2>14. \A d \in Client : /\ call'[d].op = "put" /\ call'[d].pc \in {"write", "post"}
                             /\ CalmThen(call'[d].owner)
              => /\ call'[d].pc = "write"
                 /\ call'[d].seen = {} => {r \in recs' : r.owner = call'[d].owner} = {}
                 /\ \A s \in call'[d].seen : \E r \in recs' : r.id = s.id
      BY <2>11
    <2> HIDE DEF One, Knows
    <2>15. WritersRace'
      BY <2>2 DEF Idle, Writes, WritersRace
    <2>16. OneRecordEach'
      BY <2>13 DEF Calm, OneRecordEach
    <2>17. ReadStillHolds'
      BY <2>14 DEF Calm, At, HasId, ReadStillHolds
    <2> QED
      BY <2>15, <2>16, <2>17 DEF RaceInv
  <1> QED
    BY <1>1, <1>2

-----------------------------------------------------------------------------
(* The Akamai lock.                                                        *)

(* What a request does to the locks: the caller takes one that no other     *)
(* caller of its object holds, waits for one, gives its own up, or keeps it.*)
LockRule(c) ==
    /\ table[home[c]] <= table'[home[c]]
    /\ \A b \in Object \ {home[c]} : table'[b] = table[b]
    /\ \/ turn' = turn /\ (Holds(c)' => Holds(c))
       \/ ~Holds(c)' /\ Turn(c, "waits", table[home[c]])
       \/ \E n \in 0 .. table[home[c]] : ~Taken(c, n) /\ Turn(c, "holds", n)
       \/ Holds(c) /\ Unlock(c)

LEMMA LockingFollowsTheRule ==
    ASSUME BackendsAssumption, Base, LockInv, provider = "akamai", UNCHANGED home,
           NEW c \in Client, AkamaiLock(c)
    PROVE  LockRule(c)
  <1> DEFINE now == table[home[c]]
  <1>0. /\ CallOK(call[c]) /\ call[c].pc = "lock" /\ now \in Nat
        /\ turn[c].table \in Nat /\ UNCHANGED table
    BY DEF Base, LocksOK, AkamaiLock, In
  <1>1. CASE turn[c].lock = "-" /\ ~Busy(home[c], now) /\ Turn(c, "holds", now)
    <2>1. ~Taken(c, now)
      BY <1>1 DEF Taken, Busy
    <2> QED
      BY <1>0, <1>1, <2>1 DEF LockRule
  <1>2. CASE Refused(c) /\ UNCHANGED turn
    <2>1. call'[c].pc = "idle"
      BY <1>0, <1>2, RefusedGoes DEF Goes, Base
    <2> QED
      BY <1>0, <1>2, <2>1 DEF LockRule, Holds
  <1>3. CASE Become(c, call[c]) /\ Turn(c, "waits", now)
    <2>1. call'[c].pc = "lock"
      BY <1>0, <1>3 DEF Become
    <2> QED
      BY <1>0, <1>3, <2>1 DEF LockRule, Holds
  <1>4. CASE turn[c].lock = "waits" /\ ~Taken(c, turn[c].table) /\ Turn(c, "holds", turn[c].table)
    <2>1. turn[c].table \in 0 .. now
      BY <1>0, <1>4 DEF LockInv
    <2> QED
      BY <1>0, <1>4, <2>1 DEF LockRule
  <1> QED
    BY <1>1, <1>2, <1>3, <1>4 DEF AkamaiLock

LEMMA RequestLocks ==
    ASSUME BackendsAssumption, Base, LockInv, provider = "akamai", UNCHANGED home,
           NEW c \in Client, Requests(c)
    PROVE  LockRule(c)
  <1>0. /\ CallOK(call[c]) /\ ~Has("zoneById")
        /\ \A b \in Object : table[b] \in Nat
        /\ home[c] \in Object
    BY ProviderTraits DEF Base, LocksOK
  <1>1. CASE AskForZone(c) \/ RecallZone(c) \/ GetRecord(c)
    <2>1. turn' = turn /\ table' = table /\ call[c].op \in {"exists", "get"}
      BY <1>1 DEF AskForZone, RecallZone, GetRecord, Looked, Plain, locks, In
    <2>2. call'[c].pc = "idle"
      <3>1. Fail(c) \/ \E res : Return(c, res)
        BY <1>1 DEF AskForZone, RecallZone, GetRecord, Looked, Read
      <3> QED
        BY <1>0, <3>1 DEF Fail, Return, Become, CallOK, Fields
    <2> QED
      BY <1>0, <2>1, <2>2 DEF LockRule, Holds
  <1>2. CASE PageByNumber(c) \/ PageByCursor(c) \/ ListAtOnce(c)
    <2>1. turn' = turn /\ table' = table /\ call[c].op = "list"
      BY <1>0, <1>2 DEF PageByNumber, PageByCursor, ListAtOnce, Plain, locks, CallOK
    <2>2. \E pc, seen : Goes(c, pc, seen)
      BY <1>2, <1>0, PageByNumberFootprint, PageByCursorFootprint, ListAtOnceFootprint
         DEF Footprint, Grounded, Base
    <2>3. call'[c].op = "list"
      BY <2>1, <2>2 DEF Goes
    <2> QED
      BY <1>0, <2>1, <2>3 DEF LockRule, Holds, Writes
  <1>3. CASE AkamaiLock(c)
    BY <1>3, LockingFollowsTheRule
  <1>4. CASE AkamaiRead(c) \/ AkamaiConflict(c) \/ AkamaiWrite(c) \/ AkamaiTimeout(c)
    <2>1. Holds(c) /\ Unlock(c)
      BY <1>4 DEF AkamaiRead, AkamaiConflict, AkamaiWrite, AkamaiTimeout, In, Writes, Holds
    <2>2. table' = table
      BY <2>1 DEF Unlock
    <2> QED
      BY <1>0, <2>1, <2>2 DEF LockRule
  <1>5. CASE AkamaiClose(c) \/ AkamaiReconnect(c)
    <2>1. /\ turn' = turn /\ call'[c] = call[c]
          /\ \/ table' = table
             \/ table' = [table EXCEPT ![home[c]] = @ + 1]
      BY <1>5, <1>0, SameCallGoes DEF AkamaiClose, AkamaiReconnect
    <2>2. Holds(c)' => Holds(c)
      BY <2>1 DEF Holds, Writes
    <2>3. table[home[c]] <= table'[home[c]] /\ \A b \in Object \ {home[c]} : table'[b] = table[b]
      BY <1>0, <2>1 DEF Base, LocksOK
    <2> QED
      BY <2>1, <2>2, <2>3 DEF LockRule
  <1>6. ~(FindZone(c) \/ UncachedZoneExists(c)
             \/ Route53Upsert(c) \/ Route53Delete(c) \/ DdnsReplace(c) \/ DdnsDelete(c)
             \/ DdnsList(c) \/ MockWrite(c) \/ Ns1Upsert(c) \/ Ns1Delete(c) \/ Ns1List(c)
             \/ CloudDnsRead(c) \/ CloudDnsChange(c))
    BY <1>0 DEF FindZone, UncachedZoneExists, In, Route53Upsert, Route53Delete,
                DdnsReplace, DdnsDelete, DdnsList, MockWrite, Ns1Upsert, Ns1Delete, Ns1List,
                CloudDnsRead, CloudDnsChange
  <1>7. ~(CloudflareRateLimited(c) \/ CloudflareLookup(c) \/ CloudflareHiddenError(c)
             \/ CloudflareWrite(c) \/ CloudflareDelete(c) \/ CloudflareCutListing(c)
             \/ NiosLookup(c) \/ NiosWrite(c) \/ BloxoneLookup(c) \/ BloxoneUpsert(c)
             \/ BloxoneSweep(c) \/ BloxoneDelete(c))
    BY DEF In, CloudflareRateLimited, CloudflareLookup, CloudflareHiddenError,
           CloudflareWrite, CloudflareDelete, CloudflareCutListing, NiosLookup, NiosWrite,
           BloxoneLookup, BloxoneUpsert, BloxoneSweep, BloxoneDelete
  <1> QED
    BY <1>1, <1>2, <1>3, <1>4, <1>5, <1>6, <1>7 DEF Requests

(* The lock invariant, said of the locks, the tables and who is inside.     *)
LocksHeld(t, tab, inside) ==
    /\ \A c \in inside : t[c].lock = "holds"
    /\ \A c \in Client : t[c].lock # "-" => t[c].table <= tab[home[c]]
    /\ \A c, d \in Client :
          c # d /\ t[c].lock = "holds" /\ t[d].lock = "holds" /\ home[c] = home[d]
          => t[c].table # t[d].table

Inside(k) == {c \in Client : /\ k[c].op \in {"put", "delete"}
                             /\ k[c].pc \in {"find", "write", "applying"}}

LEMMA LockInvSays ==
    /\ LockInv <=> (provider = "akamai" => LocksHeld(turn, table, Inside(call)))
    /\ UNCHANGED <<provider, home>> =>
         (LockInv' <=> (provider = "akamai" => LocksHeld(turn', table', Inside(call'))))
  BY DEF LockInv, LocksHeld, Inside, Holds, Writes

(* Locks are only given up.                                                *)
LEMMA UnlockKeepsLocks ==
    ASSUME LocksOK, NEW c \in Client, Unlock(c), NEW K, NEW K2, LocksHeld(turn, table, K),
           K2 \subseteq K, c \in K2 => call'[c].pc # "idle"
    PROVE  LocksHeld(turn', table', K2)
  <1>1. table' = table /\ NoTurn.lock = "-"
    BY DEF Unlock, NoTurn
  <1>2. CASE call'[c].pc # "idle"
    <2>1. turn' = turn
      BY <1>2 DEF Unlock, LocksOK
    <2> QED
      BY <1>1, <2>1 DEF LocksHeld
  <1>3. CASE call'[c].pc = "idle"
    <2>1. turn'[c] = NoTurn /\ \A d \in Client \ {c} : turn'[d] = turn[d]
      BY <1>3 DEF Unlock, LocksOK
    <2>2. c \notin K2
      BY <1>3
    <2>3. \A d \in K2 : turn'[d].lock = "holds"
      <3>1. ASSUME NEW d \in K2 PROVE turn'[d].lock = "holds"
        <4>1. turn[d].lock = "holds"
          BY <3>1 DEF LocksHeld
        <4>2. turn'[d] = turn[d]
          BY <1>3, <2>2, <3>1 DEF Unlock, LocksOK
        <4> QED
          BY <4>1, <4>2
      <3> QED
        BY <3>1
    <2> QED
      BY <1>1, <2>1, <2>3 DEF LocksHeld
  <1> QED
    BY <1>2, <1>3

LEMMA TurnKeepsLocks ==
    ASSUME LocksOK, UNCHANGED home, NEW c \in Client, NEW n \in 0 .. table[home[c]],
           NEW state \in {"waits", "holds"}, Turn(c, state, n),
           state = "holds" => ~Taken(c, n),
           NEW K, NEW K2, LocksHeld(turn, table, K),
           K2 \ {c} \subseteq K, state = "waits" => c \notin K2, K2 \subseteq Client,
           LocksOK',
           \A b \in Object : table[b] <= table'[b]
    PROVE  LocksHeld(turn', table', K2)
  <1>1. /\ turn'[c].lock = state /\ turn'[c].table = n
        /\ \A d \in Client \ {c} : turn'[d] = turn[d]
    BY DEF Turn, LocksOK
  <1>2. /\ \A b \in Object : table[b] \in Nat /\ table'[b] \in Nat
        /\ \A d \in Client : home[d] \in Object /\ turn[d].table \in Nat
    BY DEF LocksOK
  <1>3. \A d \in K2 : turn'[d].lock = "holds"
    BY <1>1 DEF LocksHeld
  <1>4. ASSUME NEW d \in Client, turn'[d].lock # "-"
        PROVE  turn'[d].table <= table'[home[d]]
    <2>1. table[home[d]] <= table'[home[d]]
      BY <1>2
    <2>2. turn'[d].table <= table[home[d]] /\ turn'[d].table \in Nat
      <3>1. CASE d = c
        BY <1>1, <1>2, <3>1
      <3>2. CASE d # c
        BY <1>1, <1>2, <1>4, <3>2 DEF LocksHeld
      <3> QED
        BY <3>1, <3>2
    <2> QED
      BY <1>2, <2>1, <2>2
  <1>5. ASSUME NEW d \in Client, NEW e \in Client, d # e, home[d] = home[e],
               turn'[d].lock = "holds", turn'[e].lock = "holds"
        PROVE  turn'[d].table # turn'[e].table
    <2>1. CASE d # c /\ e # c
      BY <1>1, <1>5, <2>1 DEF LocksHeld
    <2>2. CASE d = c
      BY <1>1, <1>5, <2>2 DEF Taken
    <2>3. CASE e = c
      BY <1>1, <1>5, <2>3 DEF Taken
    <2> QED
      BY <2>1, <2>2, <2>3
  <1> QED
    BY <1>3, <1>4, <1>5 DEF LocksHeld

LEMMA SameTurnsKeepLocks ==
    ASSUME LocksOK, LocksOK', UNCHANGED <<home, turn>>, NEW K, NEW K2,
           LocksHeld(turn, table, K), K2 \subseteq K,
           \A b \in Object : table[b] <= table'[b]
    PROVE  LocksHeld(turn', table', K2)
  <1>1. /\ \A b \in Object : table[b] \in Nat /\ table'[b] \in Nat
        /\ \A d \in Client : home[d] \in Object /\ turn[d].table \in Nat
    BY DEF LocksOK
  <1>2. ASSUME NEW d \in Client, turn[d].lock # "-"
        PROVE  turn[d].table <= table'[home[d]]
    BY <1>1, <1>2 DEF LocksHeld
  <1> QED
    BY <1>2 DEF LocksHeld

LEMMA LockStep ==
    ASSUME BackendsAssumption, Base, LockInv, Next \/ UNCHANGED vars
    PROVE  LockInv'
  <1>1. CASE UNCHANGED vars
    BY <1>1 DEF vars, LockInv, Holds, Writes
  <1>2. CASE Next
    <2>0. UNCHANGED <<provider, home>> /\ Base'
      BY <1>2, Steps, BaseStep
    <2> SUFFICES ASSUME provider = "akamai"
                 PROVE  LocksHeld(turn', table', Inside(call'))
      BY <2>0, LockInvSays
    <2>1. /\ LocksHeld(turn, table, Inside(call)) /\ LocksOK /\ LocksOK'
          /\ Blank.op = "-" /\ \A b \in Object : table[b] \in Nat
      BY <2>0, LockInvSays DEF Base, Blank, LocksOK
    <2>2. ASSUME NEW d, call'[d] = IF Idle(d) THEN Blank ELSE call[d], d \in Inside(call')
          PROVE  d \in Inside(call)
      BY <2>1, <2>2 DEF Inside
    <2>3. ASSUME NEW c \in Client, Begun(c)
          PROVE  LocksHeld(turn', table', Inside(call'))
      <3>1. c \notin Inside(call')
        BY <2>3 DEF Begun, Inside
      <3>2. Inside(call') \subseteq Inside(call)
        BY <2>2, <2>3, <3>1 DEF Begun, Inside
      <3>3. turn' = turn /\ table' = table
        BY <2>3 DEF Begun, locks
      <3> QED
        BY <2>0, <2>1, <3>2, <3>3, SameTurnsKeepLocks
    <2>4. ASSUME NEW c \in Client, RequestStep(c)
          PROVE  LocksHeld(turn', table', Inside(call'))
      <3>1. LockRule(c) /\ \E pc, seen : Goes(c, pc, seen)
        BY <2>0, <2>4, RequestLocks DEF RequestStep, Footprint
      <3>2. Inside(call') \ {c} \subseteq Inside(call)
        BY <2>2, <3>1 DEF Goes, Inside
      <3>3. \A b \in Object : table[b] <= table'[b]
        BY <2>1, <3>1 DEF LockRule
      <3>4. (c \in Inside(call') <=> Holds(c)') /\ (c \in Inside(call) <=> Holds(c))
        BY DEF Inside, Holds, Writes
      <3>5. CASE turn' = turn /\ (Holds(c)' => Holds(c))
        <4>1. Inside(call') \subseteq Inside(call)
          BY <3>2, <3>4, <3>5
        <4> QED
          BY <2>0, <2>1, <3>3, <3>5, <4>1, SameTurnsKeepLocks
      <3>6. CASE ~Holds(c)' /\ Turn(c, "waits", table[home[c]])
        <4>1. table[home[c]] \in 0 .. table[home[c]]
          BY <2>1 DEF LocksOK
        <4>2. Inside(call') \subseteq Client
          BY DEF Inside
        <4> HIDE DEF Inside, LocksHeld
        <4> QED
          BY <2>0, <2>1, <3>2, <3>3, <3>4, <3>6, <4>1, <4>2, TurnKeepsLocks
      <3>7. CASE \E n \in 0 .. table[home[c]] : ~Taken(c, n) /\ Turn(c, "holds", n)
        <4>2. Inside(call') \subseteq Client
          BY DEF Inside
        <4> QED
          BY <2>0, <2>1, <3>2, <3>3, <3>7, <4>2, TurnKeepsLocks
      <3>8. CASE Holds(c) /\ Unlock(c)
        <4>1. Inside(call') \subseteq Inside(call)
          BY <3>2, <3>4, <3>8
        <4>2. c \in Inside(call') => call'[c].pc # "idle"
          BY DEF Inside
        <4> QED
          BY <2>1, <3>8, <4>1, <4>2, UnlockKeepsLocks
      <3> QED
        BY <3>1, <3>5, <3>6, <3>7, <3>8 DEF LockRule
    <2>5. ASSUME NEW x \in inflight, CommitStep(x)
          PROVE  LocksHeld(turn', table', Inside(call'))
      <3>1. Unlock(x.by) /\ x.by \in Client /\ (call' = call \/ Goes(x.by, "idle", call[x.by].seen))
        BY <2>5 DEF CommitStep, Committed, Pending
      <3>2. x.by \in Inside(call') => call'[x.by].pc # "idle"
        BY DEF Inside
      <3>3. Inside(call') \subseteq Inside(call)
        BY <2>2, <3>1 DEF Goes, Inside
      <3> QED
        BY <2>1, <3>1, <3>2, <3>3, UnlockKeepsLocks
    <2>6. CASE QuietStep
      <3>1. turn' = turn /\ table' = table /\ call' = call
        BY <2>6 DEF QuietStep, locks
      <3> QED
        BY <2>1, <3>1
    <2> QED
      BY <1>2, <2>3, <2>4, <2>5, <2>6, Steps
  <1> QED
    BY <1>1, <1>2

-----------------------------------------------------------------------------
(* The invariants hold, and what they give.                                *)

LEMMA IInvInit == BackendsAssumption /\ Init => IInv
  <1> SUFFICES ASSUME BackendsAssumption, Init PROVE IInv
    OBVIOUS
  <1>1. \A c \in Client : call[c].pc = "idle" /\ call[c].op = "-"
    BY DEF Init, Blank
  <1>2. inflight = {}
    BY DEF Init
  <1>3. SeenInv /\ DoomInv /\ SweepInv /\ LockInv
    <2>1. \A c \in Client : turn[c].lock = "-"
      BY DEF Init, NoTurn
    <2> QED
      BY <1>1, <1>2, <2>1 DEF SeenInv, DoomInv, SweepInv, LockInv, Writes, Holds, Idle
  <1> QED
    BY <1>3, BaseInit, IdsInit, RaceInit DEF IInv

LEMMA IInvStep == BackendsAssumption /\ IInv /\ [Next]_vars => IInv'
  <1> SUFFICES ASSUME BackendsAssumption, IInv, Next \/ UNCHANGED vars PROVE IInv'
    OBVIOUS
  <1> QED
    BY BaseStep, IdsStep, SeenStep, DoomStep, SweepStep, RaceStep, LockStep DEF IInv

LEMMA IInvHolds == Spec => []IInv
  <1>1. Init => IInv
    BY IInvInit, BackendsAssumption
  <1>2. IInv /\ [Next]_vars => IInv'
    BY IInvStep, BackendsAssumption
  <1> QED
    BY <1>1, <1>2, PTL DEF Spec

(* Whatever the providers, the callers and the requests that are lost, the  *)
(* state has the types the model gives it, and at most one change of the    *)
(* Akamai zone is in flight.                                               *)
THEOREM BackendTypes == Spec => []TypeOK
  <1>1. IInv => TypeOK
    <2> SUFFICES ASSUME IInv PROVE TypeOK
      OBVIOUS
    <2>1. Base
      BY DEF IInv
    <2>2. Cardinality(inflight) <= 1
      BY <2>1, AtMostOne DEF Base
    <2> QED
      BY <2>1, <2>2 DEF Base, TypeOK, CallOK, Pcs, Ops, Answers, Memory, LocksOK
  <1> QED
    BY <1>1, IInvHolds, PTL

(* Two records of one owner come of a race or a hidden error only; and of   *)
(* the Akamai callers of one backend object one writes at a time, or, where *)
(* a client of a past event loop was replaced among them, one for each      *)
(* table of locks the object has had (_zone_write_lock, _get_client).       *)
THEOREM CallersTakeTurns == Spec => []WritersTakeTurns
  <1>1. IInv => DuplicatesNeedARace
    <2> SUFFICES ASSUME IInv, NEW o \in Owner, o \notin raced, ~softened
                 PROVE  ~(Cardinality(At(o)) > 1)
      BY DEF DuplicatesNeedARace
    <2>1. \A r, s \in At(o) : r = s
      BY DEF IInv, IdsInv, RaceInv, OneRecordEach, Calm, At
    <2>2. At(o) = {} \/ \E r \in At(o) : At(o) = {r}
      BY <2>1
    <2> QED
      BY <2>2, AtMostOne
  <1>2. IInv => OneWriterPerTable
    <2> SUFFICES ASSUME IInv, provider = "akamai", NEW c \in Client, NEW d \in Client,
                        Holds(c), Holds(d), home[c] = home[d], c # d
                 PROVE  /\ turn[c].table # turn[d].table
                        /\ {turn[c].table, turn[d].table} \subseteq 0 .. table[home[c]]
      BY DEF OneWriterPerTable, Holds, Writes
    <2>1. /\ turn[c].lock = "holds" /\ turn[d].lock = "holds"
          /\ turn[c].table <= table[home[c]] /\ turn[d].table <= table[home[d]]
          /\ turn[c].table # turn[d].table
      BY DEF IInv, LockInv
    <2>2. turn[c].table \in Nat /\ turn[d].table \in Nat /\ table[home[c]] \in Nat
      BY DEF IInv, Base, LocksOK
    <2> QED
      BY <2>1, <2>2
  <1>3. IInv => WritersTakeTurns
    BY <1>1, <1>2 DEF WritersTakeTurns
  <1> QED
    BY <1>3, IInvHolds, PTL

-----------------------------------------------------------------------------
(* Every step is a step of one store of record sets.                       *)

Held(rs, o)  == {r.val : r \in {q \in rs : q.owner = o}}
Shelf(rs)    == [o \in Owner |-> Held(rs, o)]
Only(o)      == \A p \in Owner \ {o} : Held(recs', p) = Held(recs, p)

LEMMA ShelfIsStore ==
    /\ [o \in Owner |-> Served(o)] = Shelf(recs)
    /\ [o \in Owner |-> Served(o)]' = Shelf(recs')
  BY DEF Shelf, Held, Served, At

(* What a step does to the store, when it is one owner it is about.         *)
StoreMove(o) ==
    /\ Only(o)
    /\ LET old == Held(recs, o)  new == Held(recs', o) IN
       \/ \E v \in Value : new = {v}
       \/ ~ById /\ o \in doomed /\ new = {}
       \/ ById /\ \E v \in Value : v \in new /\ new \subseteq old \cup {v}
       \/ ById /\ o \in doomed /\ new \subseteq old
       \/ ById /\ new \subseteq old /\ new # {}

LEMMA MovesAreSteps ==
    ASSUME NEW o \in Owner, StoreMove(o), UNCHANGED provider, doomed' \in SUBSET Owner
    PROVE  Store!Next
  <1> DEFINE f == Shelf(recs)
             g == Shelf(recs')
             old == Held(recs, o)
             new == Held(recs', o)
  <1>0. f[o] = old /\ g[o] = new /\ DOMAIN f = Owner
    BY DEF Shelf
  <1>1. g = [f EXCEPT ![o] = new]
    BY DEF StoreMove, Only, Shelf
  <1>2. (~ById)' = (~ById)
    BY DEF ById, Has
  <1>3. \/ \E v \in Value : Store!Replace(o, v) \/ Store!Rewrite(o, v)
        \/ Store!Tidy(o)
        \/ Store!Delete(o)
    <2> HIDE DEF f, g, old, new
    <2>1. CASE \E v \in Value : new = {v}
      <3>1. PICK v \in Value : new = {v}
        BY <2>1
      <3>2. g = [f EXCEPT ![o] = {v}]
        BY <1>1, <3>1
      <3>3. Store!Replace(o, v)
        BY <3>2, ShelfIsStore DEF Store!Replace, f, g
      <3> QED
        BY <3>3
    <2>2. CASE o \in doomed /\ new \subseteq old /\ (~ById => new = {})
      <3>1. Store!Delete(o)
        BY <1>0, <1>1, <2>2, ShelfIsStore DEF Store!Delete, f, g
      <3> QED
        BY <3>1
    <2>3. CASE ById /\ \E v \in Value : v \in new /\ new \subseteq old \cup {v}
      <3>1. PICK v \in Value : v \in new /\ new \subseteq old \cup {v}
        BY <2>3
      <3>2. new = (f[o] \ (old \ new)) \cup {v} /\ old \ new \in SUBSET f[o]
        BY <1>0, <3>1
      <3>3. \E lost \in SUBSET f[o] : g = [f EXCEPT ![o] = (@ \ lost) \cup {v}]
        BY <1>0, <1>1, <3>2
      <3>4. Store!Rewrite(o, v)
        BY <2>3, <3>3, ShelfIsStore DEF Store!Rewrite, f, g
      <3> QED
        BY <3>4
    <2>4. CASE ById /\ new \subseteq old /\ new # {}
      <3>1. new \in (SUBSET f[o]) \ {{}}
        BY <1>0, <2>4
      <3>2. Store!Tidy(o)
        BY <1>1, <2>4, <3>1, ShelfIsStore DEF Store!Tidy, f, g
      <3> QED
        BY <3>2
    <2> QED
      BY <2>1, <2>2, <2>3, <2>4 DEF StoreMove, old, new
  <1> QED
    BY <1>2, <1>3 DEF Store!Next

LEMMA NothingMoves ==
    ASSUME BackendsAssumption, UNCHANGED <<provider, recs>>, doomed' \in SUBSET Owner
    PROVE  Store!Next
  <1>1. [o \in Owner |-> Served(o)]' = [o \in Owner |-> Served(o)]
    BY ShelfIsStore
  <1>2. (~ById)' = (~ById)
    BY DEF ById, Has
  <1>3. 1 \in Owner
    BY DEF Owner, BackendsAssumption
  <1> QED
    BY <1>1, <1>2, <1>3 DEF Store!Next

LEMMA KeyedMoves ==
    ASSUME Base, ~ById, NEW o \in Owner, NEW v,
           \/ v \in Value /\ Upsert(o, v)
           \/ o \in doomed /\ RemoveOwner(o)
    PROVE  StoreMove(o)
  <1>1. CASE v \in Value /\ Upsert(o, v)
    <2>1. Only(o)
      BY <1>1 DEF Upsert, At, Only, Held
    <2>2. Held(recs', o) = {v}
      <3> DEFINE new == [id |-> 0, owner |-> o, val |-> v]
      <3>1. new.owner = o /\ new.val = v /\ recs' = (recs \ At(o)) \cup {new}
        BY <1>1 DEF Upsert
      <3> HIDE DEF new
      <3>2. v \in Held(recs', o)
        BY <3>1 DEF Held
      <3>3. \A q \in recs' : q.owner = o => q.val = v
        BY <3>1 DEF At
      <3> QED
        BY <3>2, <3>3 DEF Held
    <2> QED
      BY <1>1, <2>1, <2>2 DEF StoreMove
  <1>2. CASE o \in doomed /\ RemoveOwner(o)
    <2>1. Only(o)
      BY <1>2 DEF RemoveOwner, At, Only, Held
    <2>2. Held(recs', o) = {}
      BY <1>2 DEF RemoveOwner, At, Held
    <2> QED
      BY <1>2, <2>1, <2>2 DEF StoreMove
  <1> QED
    BY <1>1, <1>2

LEMMA InsertMoves ==
    ASSUME ById, NEW o \in Owner, NEW v \in Value, Insert(o, v)
    PROVE  StoreMove(o)
  <1>1. Only(o)
    BY DEF Insert, Only, Held
  <1> DEFINE new == [id |-> nextId, owner |-> o, val |-> v]
  <1>2. new.owner = o /\ new.val = v /\ recs' = recs \cup {new}
    BY DEF Insert
  <1> HIDE DEF new
  <1>3. v \in Held(recs', o) /\ Held(recs', o) \subseteq Held(recs, o) \cup {v}
    BY <1>2 DEF Held
  <1> QED
    BY <1>1, <1>3 DEF StoreMove

(* A record of the owner is overwritten, by its id.                        *)
LEMMA OverwriteMoves ==
    ASSUME Base, ById, NEW o \in Owner, NEW v \in Value, NEW id, Overwrite(id, v),
           HasId(id), \A r \in recs : r.id = id => r.owner = o
    PROVE  StoreMove(o)
  <1> DEFINE new(r) == IF r.id = id THEN [r EXCEPT !.val = v] ELSE r
  <1>1. \A r \in recs : /\ new(r).owner = r.owner /\ new(r).id = r.id
                        /\ new(r).val = IF r.id = id THEN v ELSE r.val
    BY DEF Base, Records
  <1>2. recs' = {new(r) : r \in recs}
    BY DEF Overwrite
  <1> HIDE DEF new
  <1>3. ASSUME NEW p \in Owner \ {o}
        PROVE  Held(recs', p) = Held(recs, p)
    <2>1. \A r \in recs : r.owner = p => new(r).val = r.val
      BY <1>1
    <2>2. ASSUME NEW x \in Held(recs', p) PROVE x \in Held(recs, p)
      BY <1>1, <1>2, <2>1 DEF Held
    <2>3. ASSUME NEW x \in Held(recs, p) PROVE x \in Held(recs', p)
      BY <1>1, <1>2, <2>1 DEF Held
    <2> QED
      BY <2>2, <2>3
  <1>4. v \in Held(recs', o)
    <2>1. PICK r \in recs : r.id = id
      BY DEF HasId
    <2>2. new(r) \in recs' /\ new(r).owner = o /\ new(r).val = v
      BY <1>1, <1>2, <2>1
    <2> QED
      BY <2>2 DEF Held
  <1>5. ASSUME NEW x \in Held(recs', o) PROVE x \in Held(recs, o) \cup {v}
    BY <1>1, <1>2 DEF Held
  <1>6. Only(o)
    BY <1>3 DEF Only
  <1> QED
    BY <1>4, <1>5, <1>6 DEF StoreMove

LEMMA RemoveMoves ==
    ASSUME ById, NEW o \in Owner, NEW id, RemoveId(id),
           \A r \in recs : r.id = id => r.owner = o,
           o \in doomed \/ \E r \in recs : r.owner = o /\ r.id # id
    PROVE  StoreMove(o)
  <1>1. Only(o)
    BY DEF RemoveId, Only, Held
  <1>2. Held(recs', o) \subseteq Held(recs, o)
    BY DEF RemoveId, Held
  <1>3. (\E r \in recs : r.owner = o /\ r.id # id) => Held(recs', o) # {}
    BY DEF RemoveId, Held
  <1> QED
    BY <1>1, <1>2, <1>3 DEF StoreMove

LEMMA RequestMoves ==
    ASSUME IInv, NEW c \in Client, RequestStep(c)
    PROVE  UNCHANGED recs \/ StoreMove(call[c].owner)
  <1> DEFINE k == call[c]
  <1>0. /\ Base /\ ~Idle(c) /\ Change(c) /\ CallOK(k) /\ k.owner \in Owner
        /\ k.op = "put" => k.val \in Value
        /\ k.op = "delete" => k.owner \in doomed
        /\ k.seen \in SUBSET Records /\ recs \subseteq Records
        /\ k.pc = "sweep" => k.op = "put"
    BY DEF IInv, RequestStep, Footprint, Base, CallOK, DoomInv
  <1>1. \A s \in k.seen : ById /\ k.op \in {"put", "delete"} =>
            \A r \in recs : r.id = s.id => r.owner = k.owner
    BY DEF IInv, SeenInv, Writes
  <1>2. CASE ~ById /\ k.op = "put" /\ Upsert(k.owner, k.val)
    BY <1>0, <1>2, KeyedMoves
  <1>3. CASE ~ById /\ k.op = "delete" /\ RemoveOwner(k.owner)
    BY <1>0, <1>3, KeyedMoves
  <1>4. CASE ById /\ k.op = "put" /\ Insert(k.owner, k.val)
    BY <1>0, <1>4, InsertMoves
  <1>5. ASSUME ById, k.op = "put", NEW s \in k.seen, Overwrite(s.id, k.val)
        PROVE  UNCHANGED recs \/ StoreMove(k.owner)
    <2>1. CASE HasId(s.id)
      BY <1>0, <1>1, <1>5, <2>1, OverwriteMoves
    <2>2. CASE ~HasId(s.id)
      BY <1>5, <2>2 DEF Overwrite, HasId
    <2> QED
      BY <2>1, <2>2
  <1>6. ASSUME ById, k.op = "delete", NEW s \in k.seen, RemoveId(s.id)
        PROVE  StoreMove(k.owner)
    BY <1>0, <1>1, <1>6, RemoveMoves
  <1>7. ASSUME ById, k.pc = "sweep", NEW s \in k.seen, RemoveId(s.id)
        PROVE  StoreMove(k.owner)
    <2>1. \/ k.owner \in doomed
          \/ \E r \in recs : r.owner = k.owner /\ r.id < s.id
      BY <1>7 DEF IInv, SweepInv, Survivor
    <2>2. \A r \in recs : r.id \in Nat /\ s.id \in Nat
      BY <1>0, <1>7 DEF Records
    <2>3. k.owner \in doomed \/ \E r \in recs : r.owner = k.owner /\ r.id # s.id
      BY <2>1, <2>2
    <2> QED
      BY <1>0, <1>1, <1>7, <2>3, RemoveMoves
  <1> HIDE DEF k
  <1> QED
    BY <1>0, <1>2, <1>3, <1>4, <1>5, <1>6, <1>7 DEF Change, Untouched, k

(* Whatever requests a provider takes, in whatever order, its zone moves as *)
(* one store of record sets: a create never leaves its owner unserved, and  *)
(* no owner goes dark that no call is deleting.                            *)
THEOREM OneStoreOfRecordSets == Spec => StoreSpec
  <1>1. Init => Store!Init
    <2> SUFFICES ASSUME Init PROVE Store!Init
      OBVIOUS
    <2>1. recs \subseteq Records
      BY BaseInit, BackendsAssumption DEF Base
    <2>2. \A o \in Owner : Held(recs, o) \in SUBSET Value
      BY <2>1 DEF Held, Records
    <2>3. Shelf(recs) \in [Owner -> SUBSET Value]
      BY <2>2 DEF Shelf
    <2>4. (~ById) \in BOOLEAN /\ doomed = {}
      BY DEF Init
    <2> QED
      BY <2>3, <2>4, ShelfIsStore DEF Store!Init
  <1>2. IInv /\ [Next]_vars => [Store!Next]_(Store!vars)
    <2> SUFFICES ASSUME IInv, [Next]_vars PROVE [Store!Next]_(Store!vars)
      OBVIOUS
    <2>1. CASE UNCHANGED vars
      <3>1. [o \in Owner |-> Served(o)]' = [o \in Owner |-> Served(o)]
        BY <2>1, ShelfIsStore DEF vars
      <3>2. (~ById)' = (~ById) /\ doomed' = doomed
        BY <2>1 DEF vars, ById, Has
      <3> QED
        BY <3>1, <3>2 DEF Store!vars
    <2>2. CASE Next
      <3>1. UNCHANGED provider /\ Observe
        BY <2>2, Steps, BackendsAssumption DEF IInv
      <3>2. doomed' \in SUBSET Owner
        BY <3>1 DEF Observe
      <3>3. ASSUME NEW c \in Client, RequestStep(c)
            PROVE  Store!Next
        <4>1. call[c].owner \in Owner
          BY DEF IInv, Base, CallOK
        <4> QED
          BY <3>1, <3>2, <3>3, <4>1, RequestMoves, MovesAreSteps, NothingMoves,
             BackendsAssumption
      <3>4. ASSUME NEW x \in inflight, CommitStep(x)
            PROVE  Store!Next
        <4>1. x.op = "delete" => x.owner \in doomed
          BY DEF IInv, DoomInv
        <4>2. StoreMove(x.owner) /\ x.owner \in Owner
          BY <3>4, <4>1, KeyedMoves DEF CommitStep, Committed, Pending, IInv
        <4> QED
          BY <3>1, <3>2, <4>2, MovesAreSteps
      <3>5. ASSUME UNCHANGED recs
            PROVE  Store!Next
        BY <3>1, <3>2, <3>5, NothingMoves, BackendsAssumption
      <3>6. Store!Next
        BY <2>2, <3>3, <3>4, <3>5, Steps, BackendsAssumption
        DEF IInv, Begun, Untouched, QuietStep
      <3> QED
        BY <3>6
    <2> QED
      BY <2>1, <2>2
  <1> QED
    BY <1>1, <1>2, IInvHolds, PTL DEF Spec, StoreSpec, Store!Spec

=============================================================================
