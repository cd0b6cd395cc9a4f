------------------------------ MODULE JwksCache ------------------------------
(***************************************************************************)
(* Verifying record signatures against a zone's published keys:            *)
(* core/jwks.py (verify_record_signature_detailed and the caches under it).*)
(*                                                                         *)
(* Verifications are asyncio tasks on one event loop. Everything between   *)
(* two awaits is one step, so an action here runs from one suspension of a *)
(* task (the single-flight lock, the cached fetch, the forced refetch) to  *)
(* its next one. Tasks share the document cache, the negative cache, the   *)
(* refetch budget and the table of per-zone locks, all bounded by the same *)
(* constant. The publishers serve a document per tick of the clock and may *)
(* rotate keys, go down or serve something that is not a key document.     *)
(***************************************************************************)
EXTENDS Naturals, Sequences, FiniteSets, SequencesExt, Selection

CONSTANTS
    Zones,       \* publishing zones
    Tasks,       \* verifications, each of one signature
    Keys,        \* public keys
    Label,       \* Label[k]: the kid the publisher gives key k
    Signatures,  \* the signatures tasks verify: [signer, kid, lapsed]
    Docs,        \* what a zone may serve: a set of usable keys, or
    Down,        \*   nothing at any known location
    NotAJwks,    \*   a JSON object without "keys"
    Forger,      \* the signer of a signature no key verifies
    NoKid,       \* a signature that names no key
    TTL,         \* JWKS_CACHE_TTL
    NegativeTTL, \* JWKS_NEGATIVE_TTL
    FetchTime,   \* bound: ticks a fetch may take (both URLs time out)
    TableMax,    \* _JWKS_CACHE_MAX
    MaxNow,      \* bound: ticks
    MaxChanges,  \* bound: changes of what the zones serve
    MaxCancels,  \* bound: verifications given up (the aggregate budget)
    None

ASSUME JwksAssumption ==
    /\ TTL \in Nat \ {0} /\ NegativeTTL \in 1..TTL /\ FetchTime \in Nat
    /\ TableMax \in Nat \ {0}
    /\ MaxNow \in Nat /\ MaxChanges \in Nat /\ MaxCancels \in Nat
    /\ IsFiniteSet(Zones) /\ None \notin Tasks /\ Forger \notin Keys
    /\ Docs \subseteq (SUBSET Keys) \cup {Down, NotAJwks} /\ None \notin Docs
    /\ \A jws \in Signatures : jws.signer \in Keys \cup {Forger}

(* Who signs names the key it signs with, no key, or a key never published.*)
ASSUME KidAssumption ==
    \A jws \in Signatures : jws.signer \in Keys =>
        \/ jws.kid \in {NoKid, Label[jws.signer]}
        \/ \A k \in Keys : jws.kid # Label[k]

VARIABLES
    now,
    served,   \* served[z][i + 1]: what zone z served at tick i
    changes, cancels,
    cache,    \* _jwks_cache, in insertion order: <<zone, [doc, until]>>
    negative, \* _jwks_negative: <<zone, until>>
    forced,   \* _jwks_forced_refresh: <<zone, stamp>>
    locks,    \* the loop's lock table: <<zone, lock>>; a lock is named by
              \* the task that created it
    holder,   \* the task that holds each lock
    queue,    \* the tasks waiting on each lock
    seen,     \* _seen_key_sets: the last key set observed in each zone
    pc, zone, sig, lock,
    since,    \* when the task arrived
    started,  \* when the task's last fetch started
    rejected, \* rejected_by_a_real_key
    verdict,
    failedAt, refreshedAt  \* history: last failed fetch, last forced refetch

tables == <<cache, negative, forced>>
mutex == <<locks, holder, queue>>
locals == <<pc, zone, sig, lock, since, started, rejected, verdict>>
history == <<failedAt, refreshedAt>>
vars == <<now, served, changes, cancels, tables, mutex, seen, locals, history>>

Verdicts == {"none", "verified", "expired", "invalid", "no_key", "not_checked"}

IsJwks(doc) == doc \notin {Down, NotAJwks, None}

(* At most one entry per zone.                                             *)
Keyed(d) == \A i, j \in DOMAIN d :
                d[i][1] \in Zones /\ (d[i][1] = d[j][1] => i = j)

TypeOK ==
    /\ now \in 0..MaxNow
    /\ \A z \in Zones : served[z] \in Seq(Docs) /\ Len(served[z]) = now + 1
    /\ changes \in 0..MaxChanges /\ cancels \in 0..MaxCancels
    /\ Keyed(cache) /\ Keyed(negative) /\ Keyed(forced) /\ Keyed(locks)
    /\ \A e \in ToSet(cache) : e[2].doc \in Docs \ {Down}
    /\ Len(cache) <= TableMax /\ Len(negative) <= TableMax
    /\ Len(forced) <= TableMax
    /\ holder \in [Tasks -> Tasks \cup {None}]
    /\ \A t \in Tasks : queue[t] \in Seq(Tasks)
    /\ seen \in [Zones -> Docs \cup {None}]
    /\ pc \in [Tasks -> {"idle", "wait", "fetch", "refresh", "done"}]
    /\ lock \in [Tasks -> Tasks \cup {None}]
    /\ rejected \in [Tasks -> BOOLEAN]
    /\ verdict \in [Tasks -> Verdicts]
    /\ \A t \in Tasks : pc[t] = "done" <=> verdict[t] # "none"
-----------------------------------------------------------------------------
(* Insertion-ordered dictionaries with the bound the code gives them.      *)

Has(d, z) == \E e \in ToSet(d) : e[1] = z
Get(d, z) == (CHOOSE e \in ToSet(d) : e[1] = z)[2]

Without(d, z) == Pick(d, {i \in DOMAIN d : d[i][1] # z})

(* while len(d) >= MAX: drop the oldest; d[z] = v (an existing key keeps   *)
(* its place).                                                             *)
Store(d, z, v) ==
    LET kept == IF Len(d) >= TableMax THEN Tail(d) ELSE d
    IN  IF Has(kept, z)
        THEN [i \in DOMAIN kept |-> IF kept[i][1] = z THEN <<z, v>> ELSE kept[i]]
        ELSE Append(kept, <<z, v>>)

(* A plausible bug: a cached document never expires.                       *)
Fresh_ForEver(z) == Has(cache, z)

Fresh(z) == Has(cache, z) /\ now < Get(cache, z).until
Suppressed(z) == Has(negative, z) /\ now < Get(negative, z)

(* A plausible bug: the old stamp of the zone stays in the table.          *)
Stamped_Twice(z) == Append(forced, <<z, now>>)

Stamped(z) ==
    LET kept == IF Len(forced) >= TableMax THEN Tail(forced) ELSE forced
    IN  Append(Without(kept, z), <<z, now>>)

BudgetLeft(z) == Has(forced, z) => now - Get(forced, z) >= TTL
-----------------------------------------------------------------------------
(* _verify_against and the order verify_record_signature_detailed uses it. *)

Candidates(doc, kid) == {k \in doc : kid = NoKid \/ Label[k] = kid}

Against(doc, jws, kid) ==
    CASE Candidates(doc, kid) = {} -> "none"
      [] jws.signer \in Candidates(doc, kid) ->
           IF jws.lapsed THEN "expired" ELSE "verified"
      [] OTHER -> "invalid"

(* A plausible bug: a kid absent from the document ends the search.        *)
Result_Strict(doc, jws) == Against(doc, jws, jws.kid)

(* The named key, else any key that verifies the bytes.                    *)
Result(doc, jws) ==
    LET named == Against(doc, jws, jws.kid)
        any == Against(doc, jws, NoKid)
    IN  IF named # "none" THEN named
        ELSE IF any \in {"verified", "expired"} THEN any ELSE "none"

RejectedBy(doc, jws) == Against(doc, jws, NoKid) = "invalid"

Done(t, v) == /\ pc' = [pc EXCEPT ![t] = "done"]
              /\ verdict' = [verdict EXCEPT ![t] = v]

(* What a task does with the document fetch_jwks returned (None: no        *)
(* document): it concludes, or it spends the zone's budget on a refetch.   *)
Conclude(t, z, jws, doc) ==
    IF ~IsJwks(doc)
    THEN Done(t, "no_key") /\ UNCHANGED <<forced, rejected, started, refreshedAt>>
    ELSE LET r == Result(doc, jws) IN
         CASE r # "none" ->
                Done(t, r) /\ UNCHANGED <<forced, rejected, started, refreshedAt>>
           [] r = "none" /\ jws.kid # NoKid /\ BudgetLeft(z) ->
                /\ forced' = Stamped(z)
                /\ refreshedAt' = [refreshedAt EXCEPT ![z] = now]
                /\ rejected' = [rejected EXCEPT ![t] = RejectedBy(doc, jws)]
                /\ started' = [started EXCEPT ![t] = now]
                /\ pc' = [pc EXCEPT ![t] = "refresh"]
                /\ UNCHANGED verdict
           [] OTHER ->
                /\ Done(t, IF jws.kid # NoKid /\ RejectedBy(doc, jws)
                           THEN "invalid" ELSE "no_key")
                /\ UNCHANGED <<forced, rejected, started, refreshedAt>>
-----------------------------------------------------------------------------
(* The single-flight lock.                                                 *)

(* Evict unheld locks, oldest first, until one more fits (or none is left).*)
Evicted(d) ==
    LET unheld(n) == {i \in 1..n : holder[d[i][2]] = None}
        doomed == {i \in unheld(Len(d)) :
                       Cardinality(unheld(i)) + TableMax <= Len(d) + 1}
    IN  IF Len(d) < TableMax THEN d ELSE Pick(d, DOMAIN d \ doomed)

(* Inside the lock l with nothing to await yet: both caches are read again;*)
(* the lock is kept over a fetch and released otherwise.                   *)
UnderLock(t, z, jws, l) ==
    IF Fresh(z) \/ Suppressed(z)
    THEN /\ Conclude(t, z, jws, IF Fresh(z) THEN Get(cache, z).doc ELSE None)
         /\ UNCHANGED <<negative, holder>>
    ELSE /\ negative' = Without(negative, z)
         /\ holder' = [holder EXCEPT ![l] = t]
         /\ started' = [started EXCEPT ![t] = now]
         /\ pc' = [pc EXCEPT ![t] = "fetch"]
         /\ UNCHANGED <<forced, rejected, verdict, refreshedAt>>

(* A plausible bug: the locks are asked for without the lock table.        *)
LockOf_Own(t, z) == t

(* _inflight_lock: the zone's lock in the table, or a new one.             *)
LockOf(t, z) == IF Has(locks, z) THEN Get(locks, z) ELSE t

(* verify_record_signature_detailed up to its first await.                 *)
Arrive(t) ==
    /\ pc[t] = "idle"
    /\ \E z \in Zones, jws \in Signatures :
         /\ zone' = [zone EXCEPT ![t] = z]
         /\ sig' = [sig EXCEPT ![t] = jws]
         /\ since' = [since EXCEPT ![t] = now]
         /\ IF Fresh(z)
            THEN /\ Conclude(t, z, jws, Get(cache, z).doc)
                 /\ UNCHANGED <<cache, negative, mutex, lock>>
            ELSE LET l == LockOf(t, z) IN
                 /\ cache' = Without(cache, z)
                 /\ locks' = IF Has(locks, z) THEN locks
                             ELSE Append(Evicted(locks), <<z, l>>)
                 /\ lock' = [lock EXCEPT ![t] = l]
                 /\ IF holder[l] = None /\ queue[l] = <<>>
                    THEN UnderLock(t, z, jws, l) /\ UNCHANGED queue
                    ELSE /\ queue' = [queue EXCEPT ![l] = Append(@, t)]
                         /\ pc' = [pc EXCEPT ![t] = "wait"]
                         /\ UNCHANGED <<negative, forced, holder, started,
                                        rejected, verdict, refreshedAt>>
    /\ UNCHANGED <<now, served, changes, cancels, seen, failedAt>>

(* The first waiter of a released lock runs.                               *)
Woken(t) == /\ pc[t] = "wait"
            /\ holder[lock[t]] = None
            /\ Head(queue[lock[t]]) = t

Wake(t) ==
    /\ Woken(t)
    /\ queue' = [queue EXCEPT ![lock[t]] = Tail(@)]
    /\ UnderLock(t, zone[t], sig[t], lock[t])
    /\ UNCHANGED <<now, served, changes, cancels, cache, locks, seen, zone,
                   sig, lock, since, failedAt>>
-----------------------------------------------------------------------------
(* The fetches. The answer is what the zone served at some moment of the   *)
(* fetch.                                                                  *)

Answer(t, doc) == \E i \in started[t]..now : doc = served[zone[t]][i + 1]

(* A plausible bug, fixed in the code: the negative entry is stamped with  *)
(* the clock read before the fetch.                                        *)
FailedUntil_Early(t) == started[t] + NegativeTTL

(* A plausible bug: a failure is remembered as long as a document.         *)
FailedUntil_Long(t) == now + TTL

FailedUntil(t) == now + NegativeTTL

FetchDone(t) ==
    /\ pc[t] = "fetch"
    /\ \E doc \in Docs :
         /\ Answer(t, doc)
         /\ IF doc = Down
            THEN /\ negative' = Store(negative, zone[t], FailedUntil(t))
                 /\ failedAt' = [failedAt EXCEPT ![zone[t]] = now]
                 /\ Conclude(t, zone[t], sig[t], None)
                 /\ UNCHANGED <<cache, seen>>
            ELSE /\ cache' = Store(cache, zone[t], [doc |-> doc, until |-> now + TTL])
                 /\ seen' = [seen EXCEPT ![zone[t]] = doc]
                 /\ Conclude(t, zone[t], sig[t], doc)
                 /\ UNCHANGED <<negative, failedAt>>
    /\ holder' = [holder EXCEPT ![lock[t]] = None]
    /\ UNCHANGED <<now, served, changes, cancels, locks, queue, zone, sig,
                   lock, since>>

FinalVerdict(t, doc) ==
    IF IsJwks(doc) /\ Result(doc, sig[t]) # "none" THEN Result(doc, sig[t])
    ELSE IF rejected[t] \/ (IsJwks(doc) /\ RejectedBy(doc, sig[t])) THEN "invalid"
    ELSE "no_key"

(* The forced refetch goes past the cache and holds no lock; its document  *)
(* replaces the cached one.                                                *)
RefreshDone(t) ==
    /\ pc[t] = "refresh"
    /\ \E doc \in Docs :
         /\ Answer(t, doc)
         /\ cache' = IF IsJwks(doc)
                     THEN Store(cache, zone[t], [doc |-> doc, until |-> now + TTL])
                     ELSE cache
         /\ Done(t, FinalVerdict(t, doc))
    /\ UNCHANGED <<now, served, changes, cancels, negative, forced, mutex, seen,
                   zone, sig, lock, since, started, rejected, history>>

(* A plausible bug: the lock is not released when its holder is cancelled. *)
Cancel_KeepsLock(t) ==
    /\ pc[t] \in {"wait", "fetch", "refresh"}
    /\ cancels < MaxCancels
    /\ cancels' = cancels + 1
    /\ Done(t, "not_checked")
    /\ queue' = IF pc[t] = "wait"
                THEN [queue EXCEPT ![lock[t]] = Pick(@, {i \in DOMAIN @ : @[i] # t})]
                ELSE queue
    /\ UNCHANGED <<now, served, changes, tables, locks, holder, seen, zone, sig,
                   lock, since, started, rejected, history>>

(* The aggregate budget runs out and the task is cancelled at its await:   *)
(* the lock is released, a waiter leaves the queue.                        *)
Cancel(t) ==
    /\ pc[t] \in {"wait", "fetch", "refresh"}
    /\ cancels < MaxCancels
    /\ cancels' = cancels + 1
    /\ Done(t, "not_checked")
    /\ holder' = IF pc[t] = "fetch" THEN [holder EXCEPT ![lock[t]] = None]
                                    ELSE holder
    /\ queue' = IF pc[t] = "wait"
                THEN [queue EXCEPT ![lock[t]] = Pick(@, {i \in DOMAIN @ : @[i] # t})]
                ELSE queue
    /\ UNCHANGED <<now, served, changes, tables, locks, seen, zone, sig, lock,
                   since, started, rejected, history>>
-----------------------------------------------------------------------------
(* The environment.                                                        *)

(* Time passes only once the loop has run what is ready, and not past the  *)
(* timeout of a fetch. Each zone goes on serving what it served, or not.   *)
Tick ==
    /\ now < MaxNow
    /\ \E t \in Tasks : pc[t] # "done"
    /\ \A t \in Tasks : /\ ~Woken(t)
                        /\ pc[t] \in {"fetch", "refresh"} =>
                             now - started[t] < FetchTime
    /\ now' = now + 1
    /\ \E doc \in [Zones -> Docs] :
         LET changed == {z \in Zones : doc[z] # Last(served[z])} IN
         /\ changes' = changes + Cardinality(changed)
         /\ changes' <= MaxChanges
         /\ served' = [z \in Zones |-> Append(served[z], doc[z])]
    /\ UNCHANGED <<cancels, tables, mutex, seen, locals, history>>

(* Nothing is left to happen within the bounds.                            *)
Rest == (\A t \in Tasks : pc[t] = "done") /\ UNCHANGED vars

Init ==
    /\ now = 0
    /\ served \in [Zones -> {<<doc>> : doc \in Docs}]
    /\ changes = 0 /\ cancels = 0
    /\ cache = <<>> /\ negative = <<>> /\ forced = <<>> /\ locks = <<>>
    /\ holder = [t \in Tasks |-> None]
    /\ queue = [t \in Tasks |-> <<>>]
    /\ seen = [z \in Zones |-> None]
    /\ pc = [t \in Tasks |-> "idle"]
    /\ zone = [t \in Tasks |-> None]
    /\ sig = [t \in Tasks |-> None]
    /\ lock = [t \in Tasks |-> None]
    /\ since = [t \in Tasks |-> 0]
    /\ started = [t \in Tasks |-> 0]
    /\ rejected = [t \in Tasks |-> FALSE]
    /\ verdict = [t \in Tasks |-> "none"]
    /\ failedAt = [z \in Zones |-> None]
    /\ refreshedAt = [z \in Zones |-> None]

Resume(t) == Wake(t) \/ FetchDone(t) \/ RefreshDone(t)

Next == \/ \E t \in Tasks : Arrive(t) \/ Resume(t) \/ Cancel(t)
        \/ Tick \/ Rest

Spec == Init /\ [][Next]_vars

(* The loop runs what is ready, and every fetch ends by its timeout.       *)
FairSpec == Spec /\ \A t \in Tasks : WF_vars(Resume(t))
-----------------------------------------------------------------------------
(* Properties.                                                             *)

InFlight(z, step) == {t \in Tasks : pc[t] = step /\ zone[t] = z}

(* "One in-flight fetch per zone": of any number of tasks that miss the    *)
(* caches together, one fetches.                                           *)
OneFetchPerZone == \A z \in Zones : Cardinality(InFlight(z, "fetch")) <= 1

(* "One forced refresh per domain per window", whatever kids signatures    *)
(* name and however many tasks miss together.                              *)
RefreshIsDue(t) ==
    (pc[t] # "refresh" /\ pc'[t] = "refresh") =>
        LET last == refreshedAt[zone'[t]]
        IN  last = None \/ now - last >= TTL

(* "An outage should cost one timeout per zone": after a fetch failed, no  *)
(* task fetches again before the negative entry lapses.                    *)
FetchIsDue(t) ==
    (pc[t] # "fetch" /\ pc'[t] = "fetch") =>
        LET last == failedAt[zone'[t]]
        IN  last = None \/ now - last >= NegativeTTL

(* A zone is asked by one task at a time and no more often than its two    *)
(* budgets say.                                                            *)
FetchesAreFew ==
    [][OneFetchPerZone' /\ \A t \in Tasks : RefreshIsDue(t) /\ FetchIsDue(t)]_vars

(* What task t's zone served, from so many ticks before it arrived to now. *)
ServedSince(t, ago) ==
    {served[zone[t]][i + 1] : i \in {i \in 0..now : i + ago >= since[t]}}

Genuine(t) == pc[t] = "done" /\ sig[t].signer # Forger

(* A signature is reported verified (or lapsed) only by a key the zone     *)
(* served within one cache window and one fetch of the question: a retired *)
(* key stops verifying.                                                    *)
VerifiedByAServedKey ==
    \A t \in Tasks : verdict[t] \in {"verified", "expired"} =>
        \E doc \in ServedSince(t, TTL + FetchTime) :
            IsJwks(doc) /\ sig[t].signer \in doc

(* A key the zone has served for longer than a cache window and a fetch is *)
(* found, whatever rotations, outages and other tasks came before.         *)
ServedKeyIsFound ==
    \A t \in Tasks : Genuine(t) =>
        \/ verdict[t] \notin {"no_key", "invalid"}
        \/ \E doc \in ServedSince(t, TTL + FetchTime) :
               ~IsJwks(doc) \/ sig[t].signer \notin doc

(* While the zone serves usable keys a forged signature is never reported  *)
(* as "unknown": neither a bogus kid nor a spent budget buys that status.  *)
ForgeryIsNotUnknown ==
    \A t \in Tasks : pc[t] = "done" /\ sig[t].signer = Forger =>
        \/ verdict[t] \in {"invalid", "not_checked"}
        \/ verdict[t] = "no_key"
           /\ \E doc \in ServedSince(t, TTL + FetchTime) : ~IsJwks(doc) \/ doc = {}

(* Whatever came before, neither a genuine signature nor a forged one gets *)
(* the other's verdict by rotation, outage, kid or budget.                 *)
VerdictsAreRight == ServedKeyIsFound /\ ForgeryIsNotUnknown

(* An outage does "not suppress verification for a whole cache window": a  *)
(* genuine signature is unknown only while the zone is not serving its key *)
(* or for as long as a negative entry and a fetch last, because the zone   *)
(* served other keys, or for a cache window because it served something    *)
(* that is no key document.                                                *)
OutageIsShort ==
    \A t \in Tasks : Genuine(t) /\ verdict[t] = "no_key" =>
        \/ \E doc \in ServedSince(t, NegativeTTL + FetchTime) :
               ~IsJwks(doc) \/ sig[t].signer \notin doc
        \/ \E doc \in ServedSince(t, TTL + FetchTime) : doc = NotAJwks
        \/ \E doc \in ServedSince(t, MaxNow) : IsJwks(doc) /\ sig[t].signer \notin doc

(* Every verification that starts is answered: no task waits for ever on a *)
(* lock, not even one that was evicted from the table or whose holder was  *)
(* cancelled.                                                              *)
EveryTaskAnswers ==
    \A t \in Tasks : pc[t] \in {"wait", "fetch", "refresh"} ~> pc[t] = "done"
=============================================================================
