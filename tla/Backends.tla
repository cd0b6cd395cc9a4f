------------------------------ MODULE Backends ------------------------------
(***************************************************************************)
(* The DNS backends, src/dns_aid/backends: one provider's zone, and callers *)
(* that create, delete, read and list its records through that provider's   *)
(* backend.  Every provider reaches the same interface (base.DNSBackend)    *)
(* by other calls of its own API:                                          *)
(*                                                                         *)
(*   route53, ddns, mock   one atomic replacement                           *)
(*   ns1                   PUT, and POST when the record set exists         *)
(*   cloud_dns             read, then one change that deletes what was read *)
(*   akamai                read, then PUT or POST, under a lock per zone and *)
(*                         backend object; a zone being written answers 409  *)
(*   cloudflare, nios      look the record id up, then PUT it or POST        *)
(*   bloxone               look the ids up, PATCH the first, DELETE others   *)
(*                                                                         *)
(* One request is one step, because another caller may run at the await.    *)
(* A request, or its reply, may be lost at most MaxFaults times.            *)
(***************************************************************************)
EXTENDS Integers, FiniteSets, FiniteSetsExt

CONSTANTS
    Provider,    \* the backends under study, a subset of AllProviders
    Client,      \* callers
    Object,      \* backend objects: the tools make one a call, the library shares one
    Homes,       \* bound: which callers share an object, a subset of [Client -> Object]
    Value,       \* what a record may hold
    Old,         \* what the records of the zone hold to begin with
    MaxOwner,    \* owners are 1..MaxOwner, in the order a listing returns them
    MaxJobs,     \* bound: operations that are started
    MaxFaults,   \* bound: requests or replies that are lost
    MaxRetries   \* _MAX_ZONE_LOCK_RETRIES, and bound of the 429 retries

AllProviders == {"route53", "ddns", "mock", "ns1", "cloud_dns", "akamai",
                 "cloudflare", "nios", "bloxone"}

NoOne == "nobody"

ASSUME BackendsAssumption ==
    /\ Provider \subseteq AllProviders /\ Old \in Value /\ NoOne \notin Client
    /\ Homes \subseteq [Client -> Object]
    /\ MaxOwner \in Nat \ {0} /\ MaxJobs \in Nat /\ MaxFaults \in Nat /\ MaxRetries \in Nat

Owner == 1 .. MaxOwner

VARIABLES
    provider,    \* the backend of this run
    home,        \* [Client -> Object]: the backend object of each caller
    recs,        \* records of the zone: [id, owner, val]
    nextId,      \* the next record id the provider hands out
    zone,        \* does the zone exist at the provider?
    cache,       \* [Object -> what the backend remembers of the zone]
    call,        \* [Client -> the call a caller is in, or has made last]
    \* Akamai: the HTTP client of an object and its table of zone locks
    link,        \* [Object -> is its client of this event loop, or of one that is past?]
    table,       \* [Object -> how often its table of locks has been emptied]
    turn,        \* [Client -> the lock a caller waits for, or holds]
    closing,     \* callers that are closing the client of a past event loop
    inflight,    \* the changes Akamai is applying to the zone, at most one
    jobs, faults,
    \* what the properties remember
    watch,       \* [Client -> what happened to the zone during its call]
    raced,       \* owners that two callers were writing at once
    softened,    \* did a look-up hide its error as an empty result?
    doomed       \* owners of which a delete, or a call that met one, is under way

locks == <<link, table, turn, closing>>

vars == <<provider, home, recs, nextId, zone, cache, call, link, table, turn, closing,
          inflight, jobs, faults, watch, raced, softened, doomed>>

\* Where the backends differ: whether the provider keys a record set by its owner
\* or hands out ids, whether the zone must be looked up by name, how listings are
\* paged, and what a caller is told when a request of get_record, or of
\* delete_record before and at its write, fails.
Raises == {"error"}

Route53    == [keyed |-> TRUE,  zoneById |-> TRUE,  paging |-> "cursor",
               getFails |-> Raises, lookupFails |-> {"false"}, deleteFails |-> {"false"}]
Ddns       == [keyed |-> TRUE,  zoneById |-> FALSE, paging |-> "none",
               getFails |-> {"none"}, lookupFails |-> Raises, deleteFails |-> {"false", "error"}]
Mock       == [keyed |-> TRUE,  zoneById |-> FALSE, paging |-> "at once",
               getFails |-> Raises, lookupFails |-> Raises, deleteFails |-> Raises]
Ns1        == [keyed |-> TRUE,  zoneById |-> TRUE,  paging |-> "each",
               getFails |-> Raises, lookupFails |-> Raises, deleteFails |-> Raises]
CloudDns   == [keyed |-> TRUE,  zoneById |-> TRUE,  paging |-> "cursor",
               getFails |-> Raises, lookupFails |-> Raises, deleteFails |-> Raises]
Akamai     == [keyed |-> TRUE,  zoneById |-> FALSE, paging |-> "number",
               getFails |-> Raises, lookupFails |-> {"false"}, deleteFails |-> {"false"}]
Cloudflare == [keyed |-> FALSE, zoneById |-> TRUE,  paging |-> "number",
               getFails |-> Raises, lookupFails |-> Raises, deleteFails |-> {"false", "error"}]
Nios       == [keyed |-> FALSE, zoneById |-> FALSE, paging |-> "at once",
               getFails |-> Raises, lookupFails |-> Raises, deleteFails |-> Raises]
Bloxone    == [keyed |-> FALSE, zoneById |-> TRUE,  paging |-> "number",
               getFails |-> {"none"}, lookupFails |-> {"false"}, deleteFails |-> {"false"}]

Traits == [route53 |-> Route53, ddns |-> Ddns, mock |-> Mock, ns1 |-> Ns1,
           cloud_dns |-> CloudDns, akamai |-> Akamai, cloudflare |-> Cloudflare,
           nios |-> Nios, bloxone |-> Bloxone]

Has(trait) == Traits[provider][trait]
ById       == ~Has("keyed")

At(o)     == {r \in recs : r.owner = o}
Served(o) == {r.val : r \in At(o)}
HasId(id) == \E r \in recs : r.id = id
Idle(c)   == call[c].pc = "idle"

\* A look-up by id takes the first result, and the API lists the oldest first.
First(rs) == IF rs = {} THEN {} ELSE {CHOOSE r \in rs : \A s \in rs : r.id <= s.id}

\* The n-th record of a listing that is paged by number.
Nth(n) == {r \in recs :
             n = Cardinality({s \in recs : \/ s.owner < r.owner
                                          \/ (s.owner = r.owner /\ s.id <= r.id)})}

-----------------------------------------------------------------------------
(* Steps of a caller. *)

In(c, p, pcs, ops) == provider = p /\ call[c].pc \in pcs /\ call[c].op \in ops

Blank == [pc |-> "idle", op |-> "-", owner |-> 1, val |-> NoOne, seen |-> {}, page |-> 0,
          tries |-> 0, res |-> "-", faulty |-> FALSE, had |-> 0]

\* The caller's call becomes k.  What an ended call answered is forgotten at the
\* next step of another caller.
Become(c, k) == call' = [d \in Client |-> IF d = c THEN k
                                         ELSE IF Idle(d) THEN Blank ELSE call[d]]

Goto(c, pc)      == Become(c, [call[c] EXCEPT !.pc = pc, !.tries = 0])
Saw(c, pc, seen) == Become(c, [call[c] EXCEPT !.pc = pc, !.tries = 0, !.seen = seen])
Return(c, res)   == Become(c, [call[c] EXCEPT !.pc = "idle", !.res = res])

\* What the caller is told when a request fails.  A failed create raises, and
\* so does a failed listing; a failed delete raises or is told as False.
FailureAnswers(c) ==
    CASE call[c].op = "exists" -> {"false"}
      [] call[c].op = "get"    -> Has("getFails")
      [] call[c].op = "delete" -> CASE call[c].pc = "find" -> Has("lookupFails")
                                    [] call[c].pc = "zone" /\ provider # "bloxone" -> Raises
                                    [] OTHER -> Has("deleteFails")
      [] OTHER -> Raises

Spend == faults < MaxFaults /\ faults' = faults + 1

Fail(c) ==
    /\ Spend
    /\ \E res \in FailureAnswers(c) :
          Become(c, [call[c] EXCEPT !.pc = "idle", !.res = res, !.faulty = TRUE])

\* What one request does to the zone.
Untouched      == UNCHANGED <<recs, nextId>>
Upsert(o, v)   == /\ recs' = (recs \ At(o)) \union {[id |-> 0, owner |-> o, val |-> v]}
                  /\ UNCHANGED nextId
Insert(o, v)   == /\ recs' = recs \union {[id |-> nextId, owner |-> o, val |-> v]}
                  /\ nextId' = nextId + 1
Overwrite(id, v) == /\ recs' = {IF r.id = id THEN [r EXCEPT !.val = v] ELSE r : r \in recs}
                    /\ UNCHANGED nextId
RemoveOwner(o) == recs' = recs \ At(o) /\ UNCHANGED nextId
RemoveId(id)   == recs' = {r \in recs : r.id # id} /\ UNCHANGED nextId

\* A request that changes the zone: it, or the reply to it, may be lost.
Request(c, change, reply) ==
    \/ change /\ reply /\ UNCHANGED faults
    \/ change /\ Fail(c)
    \/ Untouched /\ Fail(c)

Read(c, reply) == Untouched /\ ((reply /\ UNCHANGED faults) \/ Fail(c))

\* The provider refuses the request: the backend raises, or tells False.
Refused(c) == Untouched /\ UNCHANGED faults /\ \E res \in FailureAnswers(c) : Return(c, res)

\* What only the opening of a call, Akamai and a hidden error change.
Plain == UNCHANGED <<cache, locks, inflight, softened, jobs>>

-----------------------------------------------------------------------------
(* The opening of a call: the zone is looked up where the provider names it *)
(* by an id, unless the backend remembers it.                               *)

Opening(op) ==
    CASE op = "list" -> "page"
      [] op = "get"  -> "find"
      [] op \in {"put", "delete"} ->
            CASE provider = "akamai" -> "lock"
              [] provider \in {"ddns", "mock", "ns1"} -> "write"
              [] provider = "route53" -> IF op = "delete" THEN "find" ELSE "write"
              [] OTHER -> "find"

Begin(c, op, o, v) ==
    /\ Idle(c)
    /\ jobs < MaxJobs
    /\ jobs' = jobs + 1
    /\ op # "exists" => zone
    /\ Become(c,
          [pc |-> IF op = "exists" \/ (/\ Has("zoneById")
                                       /\ cache[home[c]] # "present"
                                       /\ <<provider, op>> \notin
                                            {<<"bloxone", "get">>, <<"ns1", "list">>})
                  THEN "zone" ELSE Opening(op),
           op |-> op, owner |-> o, val |-> v, seen |-> {}, page |-> 0, tries |-> 0,
           res |-> "-", faulty |-> FALSE, had |-> Cardinality(At(o))])
    /\ Untouched
    /\ UNCHANGED <<cache, locks, inflight, softened, faults>>

\* The object of caller c remembers what it found.
Remember(c, found) == cache' = [cache EXCEPT ![home[c]] = found]

\* _get_zone_id and its kin: only a zone that was found is remembered.
FindZone(c) ==
    /\ Has("zoneById")
    /\ call[c].pc = "zone"
    /\ \/ /\ zone
          /\ Untouched /\ UNCHANGED faults
          /\ Remember(c, "present")
          /\ IF call[c].op = "exists" THEN Return(c, "true")
             ELSE Goto(c, Opening(call[c].op))
       \/ cache[home[c]] # "present" /\ Untouched /\ Fail(c) /\ UNCHANGED cache
       \/ ~zone /\ Refused(c) /\ UNCHANGED cache
    /\ UNCHANGED <<locks, inflight, softened, jobs>>

\* zone_exists of Akamai remembers both answers, and no error; that of NIOS
\* remembers an error as absence.
AskForZone(c) ==
    /\ In(c, provider, {"zone"}, {"exists"})
    /\ provider \in {"akamai", "nios"}
    /\ cache[home[c]] = "unknown"
    /\ \/ /\ Remember(c, IF zone THEN "present" ELSE "absent")
          /\ Return(c, IF zone THEN "true" ELSE "false")
          /\ UNCHANGED faults
       \/ Fail(c) /\ IF provider = "nios" THEN Remember(c, "absent") ELSE UNCHANGED cache
    /\ Untouched
    /\ UNCHANGED <<locks, inflight, softened, jobs>>

RecallZone(c) ==
    /\ In(c, provider, {"zone"}, {"exists"})
    /\ provider \in {"akamai", "nios"}
    /\ cache[home[c]] # "unknown"
    /\ Return(c, IF cache[home[c]] = "present" THEN "true" ELSE "false")
    /\ Untouched /\ UNCHANGED faults
    /\ Plain

\* zone_exists of DDNS asks for the SOA every time; the mock looks at its set.
UncachedZoneExists(c) ==
    /\ provider \in {"ddns", "mock"}
    /\ call[c].pc = "zone"
    /\ \/ Return(c, IF zone THEN "true" ELSE "false") /\ UNCHANGED faults
       \/ provider = "ddns" /\ Fail(c)
    /\ Untouched /\ Plain

-----------------------------------------------------------------------------
(* Reading one record: get_record, and the look-up before a write.          *)

Looked(c, next) ==
    /\ call[c].pc = "find"
    /\ call[c].op # "list"
    /\ Read(c, next)
    /\ Plain

GetRecord(c) ==
    /\ call[c].op = "get"
    /\ Looked(c, Return(c, IF At(call[c].owner) # {} THEN "found" ELSE "none"))

-----------------------------------------------------------------------------
(* Route 53, dynamic updates and the mock: one atomic replacement.          *)

Route53Upsert(c) ==
    /\ In(c, "route53", {"write"}, {"put"})
    /\ Request(c, Upsert(call[c].owner, call[c].val), Return(c, "ok"))
    /\ Plain

\* The record set is read, and named in full when it is deleted.
Route53Delete(c) ==
    LET found == At(call[c].owner) IN
    \/ /\ In(c, "route53", {"find"}, {"delete"})
       /\ Looked(c, IF found = {} THEN Return(c, "false") ELSE Saw(c, "write", found))
    \/ /\ In(c, "route53", {"write"}, {"delete"})
       /\ IF call[c].seen = found
          THEN Request(c, RemoveOwner(call[c].owner), Return(c, "true"))
          ELSE Refused(c)
       /\ Plain

\* Mutant: the removal and the new records are two updates.
DdnsReplaceInTwo(c) ==
    /\ In(c, "ddns", {"write", "post"}, {"put"})
    /\ IF call[c].pc = "write" THEN Request(c, RemoveOwner(call[c].owner), Goto(c, "post"))
       ELSE Request(c, Upsert(call[c].owner, call[c].val), Return(c, "ok"))
    /\ Plain

\* One signed update holds the removal of the set and the new records.
DdnsReplace(c) ==
    /\ In(c, "ddns", {"write"}, {"put"})
    /\ Request(c, Upsert(call[c].owner, call[c].val), Return(c, "ok"))
    /\ Plain

\* The server does not say whether there was anything to remove.
DdnsDelete(c) ==
    /\ In(c, "ddns", {"write"}, {"delete"})
    /\ Request(c, RemoveOwner(call[c].owner), Return(c, "true"))
    /\ Plain

MockWrite(c) ==
    LET o == call[c].owner IN
    /\ In(c, "mock", {"write"}, {"put", "delete"})
    /\ IF call[c].op = "put" THEN Upsert(o, call[c].val) /\ Return(c, "ok")
       ELSE RemoveOwner(o) /\ Return(c, IF At(o) = {} THEN "false" ELSE "true")
    /\ UNCHANGED faults
    /\ Plain

-----------------------------------------------------------------------------
(* NS1: PUT creates, and answers 400 when the set exists; POST updates.     *)

Ns1Upsert(c) ==
    LET o == call[c].owner IN
    /\ In(c, "ns1", {"write", "post"}, {"put"})
    /\ \/ /\ call[c].pc = "write" /\ At(o) # {}
          /\ Read(c, Goto(c, "post"))
       \/ /\ (call[c].pc = "write") <=> (At(o) = {})
          /\ Request(c, Upsert(o, call[c].val), Return(c, "ok"))
       \/ call[c].pc = "post" /\ At(o) = {} /\ Refused(c)
    /\ Plain

Ns1Delete(c) ==
    LET o == call[c].owner IN
    /\ In(c, "ns1", {"write"}, {"delete"})
    /\ IF At(o) = {} THEN Read(c, Return(c, "false"))
       ELSE Request(c, RemoveOwner(o), Return(c, "true"))
    /\ Plain

-----------------------------------------------------------------------------
(* Cloud DNS: a change names the record set it removes, so that a change    *)
(* against a set that moved on is refused.                                  *)

CloudDnsRead(c) ==
    LET found == At(call[c].owner) IN
    /\ In(c, "cloud_dns", {"find"}, {"put", "delete"})
    /\ Looked(c, IF call[c].op = "delete" /\ found = {} THEN Return(c, "false")
                 ELSE Saw(c, "write", found))

CloudDnsChange(c) ==
    LET o == call[c].owner IN
    /\ In(c, "cloud_dns", {"write"}, {"put", "delete"})
    /\ IF call[c].seen # At(o) THEN Refused(c)
       ELSE IF call[c].op = "put"
            THEN Request(c, Upsert(o, call[c].val), Return(c, "ok"))
            ELSE Request(c, RemoveOwner(o), Return(c, "true"))
    /\ Plain

-----------------------------------------------------------------------------
(* Akamai: writes of one backend object queue on its lock of the zone.  A    *)
(* write that meets another still being applied is answered 409 and tried    *)
(* again.  The first request in a new event loop closes the client of the    *)
(* loop before, and empties the table of locks: whoever holds a lock, or     *)
(* waits for one, keeps that one, and who comes later is given another.      *)

NoTurn == [lock |-> "-", table |-> 0]

Busy(b, n)     == \E d \in Client : home[d] = b /\ turn[d].table = n /\ turn[d].lock # "-"
Taken(c, n)    == \E d \in Client \ {c} : /\ home[d] = home[c] /\ turn[d].table = n
                                          /\ turn[d].lock = "holds"
Turn(c, state, n) == turn' = [turn EXCEPT ![c] = [lock |-> state, table |-> n]]

\* The lock is given up on every way out of the block.
Unlock(c) ==
    /\ turn' = [turn EXCEPT ![c] = IF call'[c].pc = "idle" THEN NoTurn ELSE @]
    /\ UNCHANGED <<link, table, closing>>

Admitted(c) == Goto(c, IF call[c].op = "put" THEN "find" ELSE "write") /\ UNCHANGED faults

\* Mutant: nobody waits for the lock.
AkamaiLockUnguarded(c) ==
    /\ In(c, "akamai", {"lock"}, {"put", "delete"})
    /\ Admitted(c) /\ Turn(c, "holds", table[home[c]])
    /\ Untouched
    /\ UNCHANGED <<link, table, closing, cache, inflight, softened, jobs>>

\* A lock that callers of a past loop have waited for cannot be waited for here.
AkamaiLock(c) ==
    LET now == table[home[c]] IN
    /\ In(c, "akamai", {"lock"}, {"put", "delete"})
    /\ \/ turn[c].lock = "-" /\ ~Busy(home[c], now) /\ Admitted(c) /\ Turn(c, "holds", now)
       \/ /\ turn[c].lock = "-" /\ Busy(home[c], now)
          /\ IF link[home[c]] = "foreign" THEN Refused(c) /\ UNCHANGED turn
             ELSE Become(c, call[c]) /\ UNCHANGED faults /\ Turn(c, "waits", now)
       \/ /\ turn[c].lock = "waits" /\ ~Taken(c, turn[c].table)
          /\ Admitted(c) /\ Turn(c, "holds", turn[c].table)
    /\ Untouched
    /\ UNCHANGED <<link, table, closing, cache, inflight, softened, jobs>>

\* Does caller c have a client to make its next request with?
Online(c) == provider = "akamai" => link[home[c]] = "ready" /\ c \notin closing

\* _get_client: the old client is closed, at an await; then the new one is made.
AkamaiClose(c) ==
    /\ provider = "akamai" /\ link[home[c]] # "ready" /\ c \notin closing
    /\ \/ call[c].pc \in {"find", "write", "page"}
       \/ call[c].pc = "zone" /\ cache[home[c]] = "unknown"
    /\ Become(c, call[c])
    /\ closing' = closing \union {c}
    /\ Untouched
    /\ UNCHANGED <<link, table, turn, cache, inflight, softened, jobs, faults>>

AkamaiReconnect(c) ==
    /\ provider = "akamai" /\ ~Idle(c) /\ c \in closing
    /\ Become(c, call[c])
    /\ closing' = closing \ {c}
    /\ link' = [link EXCEPT ![home[c]] = "ready"]
    /\ table' = [table EXCEPT ![home[c]] = @ + 1]
    /\ Untouched
    /\ UNCHANGED <<turn, cache, inflight, softened, jobs, faults>>

AkamaiRead(c) ==
    /\ In(c, "akamai", {"find"}, {"put"})
    /\ Read(c, Saw(c, "write", At(call[c].owner)))
    /\ Unlock(c)
    /\ UNCHANGED <<cache, inflight, softened, jobs>>

\* Mutant: 409 is tried again without end.
AkamaiConflictUnbounded(c) ==
    /\ In(c, "akamai", {"write"}, {"put", "delete"})
    /\ inflight # {}
    /\ Become(c, [call[c] EXCEPT !.tries = @ + 1])
    /\ Untouched
    /\ UNCHANGED <<cache, locks, inflight, softened, jobs, faults>>

AkamaiConflict(c) ==
    /\ In(c, "akamai", {"write"}, {"put", "delete"})
    /\ inflight # {}
    /\ \/ /\ call[c].tries < MaxRetries
          /\ Become(c, [call[c] EXCEPT !.tries = @ + 1])
          /\ Untouched /\ UNCHANGED faults
       \/ call[c].tries >= MaxRetries /\ Refused(c)
    /\ Unlock(c)
    /\ UNCHANGED <<cache, inflight, softened, jobs>>

\* PUT of what is gone is refused, POST of what exists is sent again as PUT,
\* DELETE of what is gone is told as False; else the server starts the change.
AkamaiWrite(c) ==
    LET o == call[c].owner
        exists == At(o) # {}
        starts == /\ inflight' = {[by |-> c, op |-> call[c].op, owner |-> o, val |-> call[c].val]}
                  /\ Untouched
    IN
    /\ In(c, "akamai", {"write"}, {"put", "delete"})
    /\ inflight = {}
    /\ CASE call[c].op = "delete" /\ ~exists ->
                Read(c, Return(c, "false")) /\ UNCHANGED inflight
         [] call[c].op = "put" /\ call[c].seen = {} /\ exists ->
                Read(c, Saw(c, "write", At(o))) /\ UNCHANGED inflight
         [] call[c].op = "put" /\ call[c].seen # {} /\ ~exists ->
                Refused(c) /\ UNCHANGED inflight
         [] OTHER -> \/ starts /\ Goto(c, "applying") /\ UNCHANGED faults
                     \/ Untouched /\ Fail(c) /\ UNCHANGED inflight
    /\ Unlock(c)
    /\ UNCHANGED <<cache, softened, jobs>>

\* The change is in the zone; who still waits for it hears so.
AkamaiCommit ==
    \E change \in inflight :
        /\ IF change.op = "put" THEN Upsert(change.owner, change.val)
           ELSE RemoveOwner(change.owner)
        /\ IF call[change.by].pc = "applying"
           THEN Return(change.by, IF change.op = "put" THEN "ok" ELSE "true")
           ELSE UNCHANGED call
        /\ Unlock(change.by)
        /\ inflight' = {}
        /\ UNCHANGED <<cache, softened, jobs, faults>>

\* Mutant: the lock is given up on success only.
AkamaiTimeoutKeepsLock(c) ==
    /\ In(c, "akamai", {"applying"}, {"put", "delete"})
    /\ Untouched /\ Fail(c)
    /\ UNCHANGED <<cache, locks, inflight, softened, jobs>>

\* The caller's own timeout: the server goes on.
AkamaiTimeout(c) ==
    /\ In(c, "akamai", {"applying"}, {"put", "delete"})
    /\ Untouched /\ Fail(c)
    /\ Unlock(c)
    /\ UNCHANGED <<cache, inflight, softened, jobs>>

-----------------------------------------------------------------------------
(* Cloudflare: the record id is looked up, and PUT or DELETE names it.      *)

\* A request answered 429 is sent again; in the end it raises, and is never
\* taken for an empty result.
CloudflareRateLimited(c) ==
    /\ In(c, "cloudflare", {"find", "write", "post", "page"}, {"put", "delete", "get", "list"})
    /\ \/ /\ call[c].tries < MaxRetries
          /\ Become(c, [call[c] EXCEPT !.tries = @ + 1, !.faulty = TRUE])
          /\ Untouched /\ UNCHANGED faults
       \/ call[c].tries >= MaxRetries /\ Refused(c)
    /\ Plain

CloudflareLookup(c) ==
    LET found == First(At(call[c].owner)) IN
    /\ In(c, "cloudflare", {"find"}, {"put", "delete"})
    /\ Looked(c, IF call[c].op = "delete" /\ found = {} THEN Return(c, "false")
                 ELSE Saw(c, "write", found))

\* The look-up reads "result" of an answer whose "success" is false.
CloudflareHiddenError(c) ==
    /\ In(c, "cloudflare", {"find"}, {"put", "delete", "get"})
    /\ Spend
    /\ softened' = TRUE
    /\ Become(c, [call[c] EXCEPT !.faulty = TRUE,
                            !.pc = IF call[c].op = "put" THEN "write" ELSE "idle",
                            !.res = CASE call[c].op = "put" -> "-"
                                         [] call[c].op = "get" -> "none"
                                         [] OTHER -> "false"])
    /\ Untouched
    /\ UNCHANGED <<cache, locks, inflight, jobs>>

\* _write_record: a PUT of a record that is gone falls back to POST, and a POST
\* of a record the zone holds already is a success.
CloudflareWrite(c) ==
    LET o == call[c].owner
        id == (CHOOSE r \in call[c].seen : TRUE).id
        post == IF call[c].val \in Served(o) THEN Read(c, Return(c, "ok"))
                ELSE Request(c, Insert(o, call[c].val), Return(c, "ok"))
    IN
    /\ In(c, "cloudflare", {"write", "post"}, {"put"})
    /\ IF call[c].pc = "post" \/ call[c].seen = {} THEN post
       ELSE IF HasId(id) THEN Request(c, Overwrite(id, call[c].val), Return(c, "ok"))
       ELSE Read(c, Goto(c, "post"))
    /\ Plain

CloudflareDelete(c) ==
    LET id == (CHOOSE r \in call[c].seen : TRUE).id IN
    /\ In(c, "cloudflare", {"write"}, {"delete"})
    /\ IF HasId(id) THEN Request(c, RemoveId(id), Return(c, "true"))
       ELSE Untouched /\ UNCHANGED faults /\ Return(c, "error")
    /\ Plain

-----------------------------------------------------------------------------
(* NIOS: the first reference is looked up, and PUT or DELETE names it.      *)

NiosLookup(c) ==
    LET found == First(At(call[c].owner)) IN
    /\ In(c, "nios", {"find"}, {"put", "delete"})
    /\ Looked(c, IF call[c].op = "delete" /\ found = {} THEN Return(c, "false")
                 ELSE Saw(c, "write", found))

NiosWrite(c) ==
    LET id == (CHOOSE r \in call[c].seen : TRUE).id IN
    /\ In(c, "nios", {"write"}, {"put", "delete"})
    /\ IF call[c].seen = {} THEN
                Request(c, Insert(call[c].owner, call[c].val), Return(c, "ok"))
       ELSE IF ~HasId(id) THEN Refused(c)
       ELSE IF call[c].op = "put" THEN Request(c, Overwrite(id, call[c].val), Return(c, "ok"))
       ELSE Request(c, RemoveId(id), Return(c, "true"))
    /\ Plain

-----------------------------------------------------------------------------
(* BloxOne: the first record is patched, and the others of the owner are    *)
(* removed, an error of which is ignored.                                   *)

BloxoneLookup(c) ==
    LET found == At(call[c].owner) IN
    /\ In(c, "bloxone", {"find"}, {"put", "delete"})
    /\ Looked(c, IF call[c].op = "delete" /\ found = {} THEN Return(c, "false")
                 ELSE Saw(c, "write", IF call[c].op = "put" THEN found ELSE First(found)))

BloxoneUpsert(c) ==
    LET first == First(call[c].seen)
        id    == (CHOOSE r \in first : TRUE).id
        rest  == call[c].seen \ first
    IN
    /\ In(c, "bloxone", {"write"}, {"put"})
    /\ IF call[c].seen = {} THEN
                Request(c, Insert(call[c].owner, call[c].val), Return(c, "ok"))
       ELSE IF ~HasId(id) THEN Refused(c)
       ELSE Request(c, Overwrite(id, call[c].val),
                    IF rest = {} THEN Return(c, "ok") ELSE Saw(c, "sweep", rest))
    /\ Plain

BloxoneSweep(c) ==
    LET dup  == First(call[c].seen)
        id   == (CHOOSE r \in dup : TRUE).id
        rest == call[c].seen \ dup
        next == [call[c] EXCEPT !.seen = rest,
                                !.pc = IF rest = {} THEN "idle" ELSE "sweep",
                                !.res = IF rest = {} THEN "ok" ELSE @]
    IN
    /\ In(c, "bloxone", {"sweep"}, {"put"})
    /\ \/ RemoveId(id) /\ UNCHANGED faults /\ Become(c, next)
       \/ Untouched /\ Spend /\ Become(c, [next EXCEPT !.faulty = TRUE])
    /\ Plain

BloxoneDelete(c) ==
    LET id == (CHOOSE r \in call[c].seen : TRUE).id IN
    /\ In(c, "bloxone", {"write"}, {"delete"})
    /\ IF HasId(id) THEN Request(c, RemoveId(id), Return(c, "true")) ELSE Refused(c)
    /\ Plain

-----------------------------------------------------------------------------
(* Listings: list_records, one page or one request a step.                  *)

\* A page is addressed by its number, so a record removed from an earlier page
\* moves the later ones up.
PageByNumber(c) ==
    LET n == call[c].page + 1
        last == Cardinality(recs) <= n
        seen == call[c].seen \union Nth(n)
    IN
    /\ Has("paging") = "number"
    /\ call[c].pc = "page"
    /\ Read(c, Become(c, [call[c] EXCEPT !.seen = seen, !.page = n, !.tries = 0,
                          !.pc = IF Nth(n) = {} \/ (last /\ provider # "bloxone")
                                    THEN "idle" ELSE "page",
                          !.res = IF Nth(n) = {} \/ (last /\ provider # "bloxone")
                                     THEN "listed" ELSE @]))
    /\ Plain

\* Cloudflare stops at a page whose "success" is false, with what it has.
CloudflareCutListing(c) ==
    /\ In(c, "cloudflare", {"page"}, {"list"})
    /\ Spend
    /\ Become(c, [call[c] EXCEPT !.faulty = TRUE, !.pc = "idle", !.res = "listed"])
    /\ Untouched /\ Plain

\* Mutant: the cursor is one past the name that follows.
PageByCursorTooFar(c) ==
    LET later == {r \in recs : r.owner > call[c].page + 1}
        next  == {r \in later : \A s \in later : r.owner <= s.owner}
    IN
    /\ Has("paging") = "cursor"
    /\ call[c].pc = "page"
    /\ Read(c, IF later = {} THEN Return(c, "listed")
               ELSE Become(c, [call[c] EXCEPT !.seen = @ \union next,
                                 !.page = (CHOOSE r \in next : TRUE).owner]))
    /\ Plain

\* A page is addressed by the name that follows the last one.
PageByCursor(c) ==
    LET later == {r \in recs : r.owner > call[c].page}
        next  == {r \in later : \A s \in later : r.owner <= s.owner}
    IN
    /\ Has("paging") = "cursor"
    /\ call[c].pc = "page"
    /\ Read(c, IF later = {} THEN Return(c, "listed")
               ELSE Become(c, [call[c] EXCEPT !.seen = @ \union next,
                               !.page = (CHOOSE r \in next : TRUE).owner]))
    /\ Plain

\* NIOS asks for all records of a type at once; the mock reads its own memory.
ListAtOnce(c) ==
    /\ Has("paging") = "at once"
    /\ call[c].pc = "page"
    /\ \/ UNCHANGED faults /\ Become(c, [call[c] EXCEPT !.pc = "idle", !.seen = recs,
                                                   !.res = "listed"])
       \/ provider = "nios" /\ Fail(c)
    /\ Untouched /\ Plain

\* A dynamic update server has no listing: without a name nothing is yielded.
DdnsList(c) ==
    /\ In(c, "ddns", {"page"}, {"list"})
    /\ Return(c, "listed")
    /\ UNCHANGED faults /\ Untouched /\ Plain

\* NS1 reads the zone, then every record of it by itself; a record that cannot
\* be read is left out.
Ns1List(c) ==
    LET o == call[c].page
        others == {r \in call[c].seen : r.owner # o}
        step(seen) == [call[c] EXCEPT !.page = o + 1, !.seen = seen]
    IN
    /\ In(c, "ns1", {"page"}, {"list"})
    /\ IF o = 0 THEN Read(c, Become(c, step(recs)))
       ELSE IF o > MaxOwner THEN Return(c, "listed") /\ Untouched /\ UNCHANGED faults
       ELSE IF others = call[c].seen THEN Become(c, step(others)) /\ Untouched /\ UNCHANGED faults
       ELSE /\ Untouched
            /\ \/ UNCHANGED faults /\ Become(c, step(others \union At(o)))
               \/ Spend /\ Become(c, [step(others) EXCEPT !.faulty = TRUE])
    /\ Plain

-----------------------------------------------------------------------------
(* What the properties remember of each step.                               *)

\* While a caller is in a call: the owners that were served all along, whether
\* a record went away, and whether the call had the zone for itself.
Unwatched == [steady |-> {}, shrunk |-> FALSE, alone |-> FALSE]

Observe ==
    /\ watch' = [c \in Client |->
          IF Idle(c) /\ Idle(c)' THEN Unwatched
          ELSE IF call'[c].op = "list"
               THEN [Unwatched EXCEPT
                       !.steady = {o \in IF Idle(c) THEN Owner ELSE watch[c].steady : At(o)' # {}},
                       !.shrunk = \/ ~Idle(c) /\ watch[c].shrunk
                                  \/ ~Idle(c) /\ Cardinality(recs') < Cardinality(recs)]
               ELSE [Unwatched EXCEPT
                       !.alone = /\ IF Idle(c) THEN inflight = {} ELSE watch[c].alone
                                 /\ \A d \in Client \ {c} : Idle(d) /\ Idle(d)'
                                 /\ \A change \in inflight : change.by = c]]
    /\ raced' = raced \union {o \in IF ById THEN Owner ELSE {} :
                    \E c, d \in Client :
                        /\ c # d /\ ~Idle(c)' /\ ~Idle(d)'
                        /\ {call'[c].owner, call'[d].owner} = {o}
                        /\ {call'[c].op, call'[d].op} \subseteq {"put", "delete"}}
    /\ doomed' = {o \in Owner :
                    \/ \E c \in Client : /\ ~Idle(c)' /\ call'[c].owner = o
                                        /\ (call'[c].op = "delete" \/ o \in doomed)
                    \/ \E change \in inflight' : change.op = "delete" /\ change.owner = o}

\* An operator creates the zone.
ZoneIsCreated ==
    /\ ~zone
    /\ zone' = TRUE
    /\ UNCHANGED <<provider, home, recs, nextId, cache, call, locks, inflight, jobs, faults, softened>>
    /\ Observe

Requests(c) ==
    \/ AkamaiLock(c) \/ AkamaiClose(c) \/ AkamaiReconnect(c)
    \/ RecallZone(c)
    \/ /\ Online(c)
       /\ \/ FindZone(c) \/ AskForZone(c) \/ UncachedZoneExists(c)
          \/ GetRecord(c)
          \/ Route53Upsert(c) \/ Route53Delete(c)
          \/ DdnsReplace(c) \/ DdnsDelete(c) \/ DdnsList(c)
          \/ MockWrite(c)
          \/ Ns1Upsert(c) \/ Ns1Delete(c) \/ Ns1List(c)
          \/ CloudDnsRead(c) \/ CloudDnsChange(c)
          \/ AkamaiRead(c) \/ AkamaiConflict(c) \/ AkamaiWrite(c) \/ AkamaiTimeout(c)
          \/ CloudflareRateLimited(c) \/ CloudflareLookup(c) \/ CloudflareHiddenError(c)
          \/ CloudflareWrite(c) \/ CloudflareDelete(c) \/ CloudflareCutListing(c)
          \/ NiosLookup(c) \/ NiosWrite(c)
          \/ BloxoneLookup(c) \/ BloxoneUpsert(c) \/ BloxoneSweep(c) \/ BloxoneDelete(c)
          \/ PageByNumber(c) \/ PageByCursor(c) \/ ListAtOnce(c)

\* The calls a caller may make: the value matters to a create only, and the
\* owner to neither a listing nor a look-up of the zone.
Calls == [op : {"put"}, owner : Owner, val : Value]
         \union [op : {"delete", "get"}, owner : Owner, val : {NoOne}]
         \union [op : {"list", "exists"}, owner : {1}, val : {NoOne}]

Call(c) == \E k \in Calls : Begin(c, k.op, k.owner, k.val)

Step == /\ AkamaiCommit \/ \E c \in Client : Call(c) \/ Requests(c)
        /\ UNCHANGED <<provider, home, zone>>
        /\ Observe

Next == Step \/ ZoneIsCreated

Records == [id : Nat, owner : Owner, val : Value]

\* A zone that exists holds one record of each owner to begin with, or none;
\* where records have ids, perhaps one more that a race has left.  The client of
\* an Akamai object may be of an event loop that is past, in which somebody waited
\* for the lock or nobody did.  Elsewhere callers share their object, whose memory
\* of the zone is all that matters of it.
Init ==
    /\ provider \in Provider
    /\ home \in Homes
    /\ IF provider = "akamai"
       THEN /\ link \in [Object -> {"ready", "stale", "foreign"}]
            /\ \A b \in Object :
                  LET users == {c \in Client : home[c] = b} IN
                  /\ users = {} => link[b] = "ready"
                  /\ link[b] = "foreign" => \E c, d \in users : c # d
       ELSE link = [b \in Object |-> "ready"] /\ \A c, d \in Client : home[c] = home[d]
    /\ zone \in IF provider = "mock" THEN {TRUE} ELSE BOOLEAN
    /\ \E kept \in {{}, IF zone THEN Owner ELSE {}}, twice \in {{}, {1}} :
          LET r(o, n) == [id |-> IF ById THEN o + n ELSE 0,
                          owner |-> o, val |-> Old]
          IN
          /\ twice \subseteq IF ById THEN kept ELSE {}
          /\ recs = {r(o, 0) : o \in kept} \union {r(o, MaxOwner) : o \in twice}
          /\ raced = twice
    /\ nextId = 2 * MaxOwner + 1
    /\ cache = [b \in Object |-> "unknown"]
    /\ call = [c \in Client |-> Blank]
    /\ table = [b \in Object |-> 0]
    /\ turn = [c \in Client |-> NoTurn] /\ closing = {}
    /\ inflight = {}
    /\ jobs = 0 /\ faults = 0
    /\ watch = [c \in Client |-> Unwatched]
    /\ softened = FALSE /\ doomed = {}

\* A coroutine whose request was answered goes on, and the server ends what it
\* started.
Fairness == /\ \A c \in Client : WF_vars(Requests(c) /\ UNCHANGED <<provider, home, zone>> /\ Observe)
            /\ WF_vars(AkamaiCommit /\ UNCHANGED <<provider, home, zone>> /\ Observe)

Spec == Init /\ [][Next]_vars /\ Fairness

-----------------------------------------------------------------------------
(* Properties. *)

TypeOK ==
    /\ provider \in Provider
    /\ recs \subseteq Records
    /\ nextId \in Nat /\ jobs \in 0 .. MaxJobs /\ faults \in 0 .. MaxFaults
    /\ zone \in BOOLEAN /\ softened \in BOOLEAN
    /\ cache \in [Object -> {"unknown", "present", "absent"}]
    /\ \A c \in Client :
          /\ call[c].pc \in {"idle", "zone", "find", "lock", "write", "applying", "post",
                             "sweep", "page"}
          /\ call[c].op \in {"-", "put", "delete", "get", "list", "exists"}
          /\ call[c].owner \in Owner
          /\ call[c].seen \subseteq Records
          /\ call[c].tries \in 0 .. MaxRetries
          /\ call[c].res \in {"-", "ok", "true", "false", "found", "none", "listed", "error"}
    /\ home \in [Client -> Object] /\ closing \subseteq Client
    /\ link \in [Object -> {"ready", "stale", "foreign"}] /\ table \in [Object -> Nat]
    /\ turn \in [Client -> [lock : {"-", "waits", "holds"}, table : Nat]]
    /\ Cardinality(inflight) <= 1
    /\ raced \subseteq Owner

\* Every step any provider makes is a step of one store of record sets: a
\* create replaces and never leaves an owner unserved, on the way or when it
\* fails, and only an owner being deleted goes dark, for as long as the calls
\* last that overlap the delete.
Store == INSTANCE RRsetStore WITH
    store    <- [o \in Owner |-> Served(o)],
    keyed    <- ~ById,
    deleting <- doomed

StoreSpec == Store!Spec

\* A call that had the zone for itself and met no error did what it says:
\* False only of what was not there (a dynamic update cannot tell), one record
\* less where ids are deleted, and after a create the new value and, unless ids
\* are looked up one at a time, no other.
Ends(c) == ~Idle(c) /\ Idle(c)'

AloneIsAtomic ==
    [][\A c \in Client :
         (Ends(c) /\ watch'[c].alone /\ ~call'[c].faulty /\ zone)
           => LET k == call'[c]  now == {r \in recs' : r.owner = k.owner} IN
              CASE k.op = "put" -> /\ k.res = "ok"
                                   /\ k.val \in {r.val : r \in now}
                                   /\ \/ Cardinality(now) = 1
                                      \/ provider \in {"cloudflare", "nios"}
                                         /\ Cardinality(now) = k.had
                [] k.op = "delete" -> /\ (k.res = "true") <=> (k.had > 0 \/ provider = "ddns")
                                      /\ Cardinality(now) = IF k.had = 0 THEN 0 ELSE k.had - 1
                [] k.op = "get"    -> (k.res = "found") <=> (k.had > 0)
                [] OTHER -> TRUE]_vars

\* Two records of one owner come of two writers at once, or of a look-up that
\* read an error as no record: never of a rate limit, a lost reply or a retry.
DuplicatesNeedARace ==
    \A o \in Owner : Cardinality(At(o)) > 1 => o \in raced \/ softened

\* A listing that ends without an exception holds every owner that was served
\* all along, unless pages are numbered and a record was removed meanwhile, or
\* a request failed and the backend went on without it; the dynamic update
\* backend lists nothing.
ListingIsComplete ==
    [][\A c \in Client :
         (Ends(c) /\ call'[c].res = "listed" /\ provider # "ddns")
           => \/ \A o \in watch'[c].steady : \E r \in call'[c].seen : r.owner = o
              \/ Has("paging") = "number" /\ watch'[c].shrunk
              \/ provider \in {"cloudflare", "ns1"} /\ call'[c].faulty]_vars

\* Akamai: of the callers of one backend object, one at a time is between its
\* read and the end of its change, so that a 409 comes of another object or of a
\* change whose caller timed out; unless the object came from a past event loop
\* and its table was emptied among them.  Then each has a lock of another table.
OneWriterPerTable ==
    provider = "akamai" =>
        \A c, d \in {e \in Client : /\ call[e].op \in {"put", "delete"}
                                    /\ call[e].pc \in {"find", "write", "applying"}} :
            home[c] = home[d] /\ c # d => /\ turn[c].table # turn[d].table
                                          /\ {turn[c].table, turn[d].table}
                                               \subseteq 0 .. table[home[c]]

\* A failed look-up is remembered as the absence of the zone by NIOS only.
OutageIsNotAbsence ==
    [][\A b \in Object :
         cache'[b] = "absent" /\ cache[b] # "absent" => ~zone \/ provider = "nios"]_vars

\* What a call answers is what it did and what was there.
AnswersAreTrue == AloneIsAtomic /\ ListingIsComplete /\ OutageIsNotAbsence

\* What a race of two writers can do: two records of one owner need one, or a
\* hidden error, and two Akamai writers of one backend object are in their
\* changes at once only where the object came from a past event loop.
WritersTakeTurns == DuplicatesNeedARace /\ OneWriterPerTable

\* Every call ends: the lock is given up on every way out, and retries end.
EveryCallEnds == \A c \in Client : (~Idle(c)) ~> Idle(c)
=============================================================================
