# A TLA+ verification project for dns-aid

dns-aid publishes AI agents in DNS (an SVCB record, a companion TXT record, an
optional walkable alias, and an entry in an `_index._agents` TXT record),
discovers them, checks their signatures, certificates and policies, and calls
them through an SDK, a command line and an MCP server. This directory models
the parts of it whose correctness depends on an order of events: who wrote the
zone between two calls, which task held a lock when another was cancelled, what
a cache still said when its source had changed, what a reader found half done.

Paths below are relative to the Python package, `src/dns_aid/`.

| Module | Kind | Models |
|---|---|---|
| `Publication` | detailed specification | `core/publisher.py`, `core/indexer.py`, `DNSBackend.publish_agent` |
| `AgentDirectory` | abstract specification | what an index promises its readers; implemented by `Publication` |
| `Backends` | detailed specification | the nine providers of `backends/` and the mock, request by request |
| `RRsetStore` | abstract specification | a store of record sets; implemented by `Backends` |
| `Discovery` | detailed specification | `core/discoverer.py`, `core/http_index.py` and the documents they fetch |
| `JwksCache` | detailed specification | `core/jwks.py`: verification and the caches under it |
| `SignedRecord` | detailed specification | a record from its signing to the verdict on what was read (`core/models.py`, `jwks.py`, `publisher.py`) |
| `Verification` | detailed specification | `core/validator.py` |
| `Calls` | detailed specification | `core/invoke.py`, `a2a_card.py`, `sdk/protocols/mcp.py`, `sdk/policy/guard.py`, the worker pool of `mcp/server.py` |
| `Invocation` | detailed specification | `sdk/client.py` with circuit breaker, policy cache, OAuth2 token |
| `Challenge` | detailed specification | `core/dcv.py` |
| `CatalogPointer` | detailed specification | `core/catalog_pointer.py` |
| `Policies` | operators | the policy evaluator and the compiler |
| `Enforcement` | detailed specification | enforcing and rolling back policies: `cli/main.py`, `backends/infoblox/` |
| `ServerPolicy` | detailed specification | `sdk/policy/middleware.py` |
| `MCPublication`, `MCBackends`, `MCDiscovery`, `MCJwksCache`, `MCInvocation` | TLC instances | values for the constants of the `.cfg` files |
| `MCServices` | composition and instance | `Challenge`, `CatalogPointer`, `Enforcement`, `ServerPolicy` |
| `MCEndpoints` | composition and instance | `Verification`, `Calls`, `SignedRecord` |
| `Selection` | operators | what is left of a list: comprehensions and filters of the code, a dictionary after a pop |
| `Publication_proofs` | proofs | about `Publication` |
| `Backends_proofs` | proofs | about `Backends`, and that it implements `RRsetStore` |
| `Discovery_proofs` | proofs | about `Discovery` |
| `JwksCache_proofs` | proofs | about `JwksCache` |
| `Invocation_proofs` | proofs | about `Invocation` |
| `Services_proofs` | proofs | about `Challenge`, `CatalogPointer`, `Enforcement`, `ServerPolicy` and `MCServices` |
| `Endpoints_proofs` | proofs | about `Verification`, `Calls` and `SignedRecord`, over `Selection_proofs` |
| `Selection_proofs` | proofs | lemmas about `Selection`, used by four of the above |

To check a run: `tlc -config race.cfg MCPublication`. To check the proofs:
`tlapm Publication_proofs.tla`, and the same for the other proof modules.

---

## 1. Inventory

### 1.1 Components that are modelled

**Publication** (`core/publisher.py`, `backends/base.py`).
*State:* the zone's RRsets, held by a DNS provider; per operation only locals.
*Operations:* `publish` (`zone_exists`; SVCB, with the private-use keys native
or demoted to TXT; TXT; optional AliasMode record), `unpublish` (two existence
probes, two primary deletes, three best-effort deletes, a verdict that guards
against masked failures).
*Hard:* seven to nine remote calls with no transaction and no lock, each of
which may fail, or succeed and lose its reply; deletes that answer `False`
instead of raising; operators on the same zone.
*Correct when:* a reported publish is whole; a reported unpublish is gone.

**Agent index** (`core/indexer.py`).
*State:* one TXT record per zone, rewritten whole.
*Operations:* `read_index` (errors read as an empty list), `update_index`
(read, edit, replace), `sync_index` (two listings, read, replace or not).
*Interacts with:* the MCP server and the CLI call `update_index` after a
successful publish or unpublish; discovery reads the index.
*Hard:* a read-modify-write over the network; a listing taken in two calls; a
failed read that looks like an empty index.
*Correct when:* it never names an agent that no record stood for; an update
touches one entry; after quiet and repeated syncs it equals the zone.

**Signature verification** (`core/jwks.py`).
*State:* a document cache, a negative cache, a budget of forced refetches, a
table of per-zone locks, the last key set observed in each zone.
*Operations:* `verify_record_signature_detailed` and what it calls.
*Hard:* sixteen concurrent tasks miss the caches together, are cancelled by an
aggregate budget at any `await`, and share bounded tables; publishers rotate
keys, go down and come back.
*Correct when:* a verified key was recently served; a served key is soon
found; a forgery is `invalid` rather than unknown; a zone is fetched once.

**SDK client and circuit breaker** (`sdk/client.py`, `sdk/_circuit_breaker.py`),
**protocol handlers** (`sdk/protocols/`), **OAuth2 tokens**
(`sdk/auth/oauth2.py`), **caller-side policy** (`sdk/policy/evaluator.py`).
*State:* per agent a breaker state, failure count and time of last failure;
per policy URI a cached document; one token and its expiry; one lock for
policies, one for tokens.
*Operations:* `AgentClient.invoke`: ask the breaker, fetch and judge the policy,
attach a token, send, report to the breaker.
*Hard:* calls overlap, so a call admitted before a trip reports after it;
what was checked before a wait is used after it; callers give up at any wait.
*Correct when:* a healthy agent is served; tokens and permissions in use are
alive; nothing stampedes; every call ends.

**DNS backends** (`backends/`).
*State:* the provider's records; in the process a cache of zone ids or of zones
that exist, and for Akamai a client and a table of write locks, of one event loop.
*Operations:* create, delete, `get_record`, `list_records`, `zone_exists`.
*Hard:* a write is a look-up and one to three requests; a reply may be lost;
ids go stale; pages shift; Akamai refuses overlapping changes with 409.
*Correct when:* a create never leaves its owner unserved, nothing else goes
dark, an answer is what was done, an error is not taken for absence.

**Discovery**, **HTTP index and ARD catalogs**, **capability documents and
cards** (`core/discoverer.py`, `http_index.py`, `cap_fetcher.py`, ...).
*State:* per call, the queries under way, the agents found, a trust label.
*Operations:* `discover`: names from the index, ten common names or a catalog;
queries side by side; merge; DNSSEC, cards, signatures, DANE, filters.
*Hard:* partial failures in every gather; a record that changes between two
probes; a budget that ends while signatures are being checked; several sources
for one field.
*Correct when:* every agent that is announced and untouched is returned, once
and as published; every gate asked for has been passed; each verdict is whole.

**Domain control validation** (`core/dcv.py`) and **catalog pointer**
(`core/catalog_pointer.py`).
*State:* one TXT owner shared by all challengers; an SVCB record under two labels.
*Operations:* issue, place, verify, revoke; publish, unpublish, resolve.
*Hard:* each looks, then writes the whole owner; the look may come from a cache
or fail.
*Correct when:* what verifies was placed, and nobody loses what a look could
have seen.

**Policy compilation and enforcement** (`sdk/policy/`, `cli/main.py`,
`backends/infoblox/`) and **server-side policy** (`sdk/policy/middleware.py`).
*State:* a response policy zone, named lists, a security policy, snapshot
files; per caller a window of admissions.
*Operations:* compile, enforce, roll back, bind and unbind lists; admit or
refuse a request.
*Hard:* a policy is many requests, of which one may fail, beside another
operator's; the windows are bounded in number.
*Correct when:* what is reported as enforced is in force and blocks whom the
evaluator refuses; a caller gets no more than its limit.

**Record validator** (`core/validator.py`), **MCP server, command line and
invocation helpers** (`mcp/server.py`, `cli/`, `core/invoke.py`, ...), **data
models** (`core/models.py`).
*State:* per verification the verdicts so far; per call of a tool its job on a
pool of four threads; per record its parameters and signature.
*Hard:* two connections of one verification may meet two certificates; a tool
that times out leaves its job running; a call falls back to a second transport;
a record is signed before it is written and read back after edits by others.
*Correct when:* a pass is about one certificate; no call is done twice or
misreported; a signature vouches for exactly what was signed.

### 1.2 Components that are not modelled

| Component | Files | Why |
|---|---|---|
| Other authentication | `sdk/auth/` without `oauth2.py` | stateless signing of one request (API key, SigV4, HTTP message signatures): formats and cryptography |
| Telemetry and ranking | `sdk/signals`, `sdk/ranking`, `sdk/telemetry` | an append-only list, floating-point scores, export by a third-party library |
| Directory search and mesh | `sdk/search.py`, `sdk/mesh.py` | response models of a remote service; a transport without state |
| Utilities | `utils/` | predicates on names and URLs: used as given facts ("the guard refuses this host") |

Within the components that are modelled, the parsers (catalogs, cards, TXT
strings, CEL), the text of zone files and reports, the HTTP payloads of the
providers and the prompts of the command line are left out: they keep no state,
and what they yield enters as one outcome. `PROJECT.json` lists every component
with its files, and the hazards, each at the line where it bites with the
properties that would catch it.

---

## 2. Publication

### 2.1 State and actions

The zone is five variables: `svcb` and `txt` (the RRsets of each flat owner
`{name}.{domain}`), `alias` (owners with a walkable AliasMode record), `legacy`
(draft-01 owners left by an older version) and `index`. Of an SVCB the model
keeps its alpn (`proto`) and whether the private-use keys are in it (`full`);
of a TXT, whether it carries the demoted ones. `pc[c]` names the next backend
call of operator `c` and `me[c]` holds the function's locals and its outcome.

One action is one backend call together with everything the function does
until the next one:

| Action | Code |
|---|---|
| `Start` | the tool or command is called |
| `ZoneExists` | the `zone_exists` check of `publish`, `unpublish`, `sync_index` |
| `PutNative`, `PutSvcb`, `PutTxt`, `PutAlias` | `DNSBackend.publish_agent`, `publish` |
| `ProbeSvcb`, `ProbeTxt` | the existence probes of `unpublish` |
| `DeleteSvcb`, `DeleteTxt`, `DeleteAlias`, `DeleteLegacySvcb`, `DeleteLegacyTxt` | its deletes, and the verdict after the last |
| `IndexRead`, `IndexWrite` | `update_index` |
| `ScanSvcb`, `ScanTxt`, `SyncRead`, `SyncWrite` | `sync_index` |
| `Stop` | the process ends between two calls |

A call's answer is nondeterministic. A create works, raises, or takes effect
and raises (`Created`). A delete answers True or False, or raises before or
after it took effect (`Deleted`); "silentDelete" is the answer False of
`route53.py`, `akamai_edgedns.py` and `bloxone.py` when their API failed. A read
works or raises (`Reads`). Faults are counted and bounded by `MaxFaults`.

Three history variables serve the properties: `alone[c]` (nobody else wrote since
`c` started), `touched[c]` (the names whose records somebody changed since the sync
of `c` began to list) and `announced` (every entry the zone's records ever stood
for).

### 2.2 Runs

| Run | Instance | Shows |
|---|---|---|
| `solo` | one operator, two names, two protocols, a server whose support for private keys is unknown, a draft-01 leftover; three operations, two faults (write, lost reply, crash, zone) | `PublishIsComplete`, `UnpublishIsGone`, `NoCollateralLoss` |
| `race` | two operators, two names, one protocol, a server without private keys, every fault kind; two publishes or unpublishes and any number of syncs, two faults; fair | `UnpublishTookSomething`, `SyncIsExact`, `ListsOnlyAnnounced` (refinement), `SyncHeals` (liveness) |
| `masked_delete` | violation of `UnpublishIsGone` | section 10, finding 1 |

*Bounds.* Operators differ only in what they do, so two give every pairwise
interleaving; three operations of one operator give publish, unpublish and
publish again, with a sync anywhere (syncs are not counted by `MaxOps`). Two
names separate "my entry" from "another's entry", and in `race` the name whose
records change between the listings of a sync from the one that stays as it was
listed. Two faults give a fault and a failing repair.

*What a guarantee is conditional on.* `alone[c]`, for publish and unpublish: with
another writer, nothing the code does can keep their guarantee, since it takes no
lock. `solo` and `race` differ in the faults they admit: a delete that answers False
without deleting breaks `UnpublishIsGone` (the run `masked_delete`), a failed read of
the index breaks `NoCollateralLoss`.

`SyncIsExact` needs neither: it speaks of a sync beside other operators and under
every fault, name by name. The two listings of a sync are two calls, its read of the
index a third and its write a fourth; whatever others publish, remove or write into
the index in between, the names whose records stayed as they were are listed
afterwards as the zone enumerates them. The one case in which a sync reports success
and leaves the index as it was is named in the property: its read brought nothing,
which is also what a failed read brings, and none of those names is to be listed
(section 10).

*Fairness.* `WF(Step(c))`: every client library used by the backends has a
timeout, so a call that was sent returns or raises. `WF(Start(c))` for a sync:
`SyncHeals` is about an operator who runs `sync_index` again and again (a cron
job, a pipeline); it says what that buys. Publishing and unpublishing are never
assumed.

### 2.3 Proofs (`Publication_proofs.tla`)

For all sets of operators, names and protocols, any fault kinds and any bounds,
under `PublicationAssumption` and `NoneIsNoRecord` (no record is a record):

* `PublicationTypes`: `Spec => []TypeOK`.
* `IndexIsNeverInvented`: `Spec => []IndexWasAnnounced`.
* `PublicationImplementsDirectory`: `Spec => Directory!Spec`.

`IndexWasAnnounced` is not inductive: what `update_index` writes depends on what
it read, and on the agent its publish wrote several calls earlier. `Lineage`
strengthens it with everything an operator carries towards the index: what it
read or discovered was announced, the records of the zone were announced, and
an operator past its SVCB write carries an agent that was announced. The last
part needs to know that the unpublish steps are only reached by an unpublish,
since the verdict of `DeleteLegacy` leads to the same `idxRead` step. The
refinement follows from `Lineage`: a step that writes the index writes a subset
of `announced` and leaves `announced` alone, any other step extends `announced`.

The second part of the module proves what a publish or an unpublish that reported
success, with no other writer beside it, left in the zone:

* `PublishLeavesTheWholeAgent`: `Spec => []PublishIsComplete`.
* `UnpublishTakesSomething`: `Spec => []UnpublishTookSomething`.
* `HonestUnpublishTakesTheAgent`: `Spec => []UnpublishIsGone`, if no delete answers
  False without deleting (`"silentDelete" \notin FaultKinds`).

The run `masked_delete` shows that the third needs its assumption. None of the three is
inductive: each guarantee is built by several
calls. `PublishSoFar` and `UnpublishSoFar` say, for each next call,
what the calls made so far have established (for instance: before the TXT is
written, the SVCB holds the private keys or they are due in the TXT), for a
client that is still `alone`. Two facts carry the induction: a step of the client
itself leads from one such statement to the next, one lemma per action; and every
action is `Polite`: it changes only its own client's locals, and if it changes
the zone then nobody else is alone any more.

The third part is about a sync among others:

* `SyncIsExactNameByName`: `Spec => SyncIsExact`, for any operators and any faults.

Its invariant is `SyncInv`: what a sync holds about a name nobody touched since it
began to list is what the zone says of that name, the SVCB listing after the first
call, and both listings put together from the second on. A step of another operator
that leaves a name untouched leaves all its records as they are (`BystanderSync`),
and what a listing says of a name depends on no other name's records (`NamedAt`,
`FlatAt`). `ListingsAreExact` closes the gap to the property: the two listings, put
together as `sync_index` does it, name exactly what a reader of the zone would
enumerate.

The last theorem is about what an update of the index may touch:

* `IndexUpdateTouchesItsOwn`: `Spec => NoCollateralLoss`, for one operator whose
  reads work (`"read" \notin FaultKinds`). With two operators it is false: the later
  write takes back what the other wrote since the read. A failed read is taken for an
  empty index, and the write that follows drops every other entry.

The inductive invariant is `CurrentInv`: what an operator read of the index is the
index, until it writes it back. Its induction needs that only `IndexRead` leads to
the `idxWrite` step (`OnlyTheReadLeadsToTheWrite`).

---

## 3. JwksCache

### 3.1 State and actions

The four tables are sequences of pairs in insertion order, because eviction
drops the oldest entry; `Store`, `Stamped` and `Evicted` are the three ways the
code makes room, which differ. `holder` and `queue` are the asyncio locks,
`locks` the table they are found through: an evicted lock stays alive for the
tasks that already have it. `served[z]` records what zone `z` served at each tick,
so that properties can speak of "a key the zone served within the last window".

An action runs from one `await` of a task to its next: `Arrive` (up to the lock,
the fetch, the forced refetch or the verdict), `Wake` (a released lock comes to
its first waiter), `FetchDone`, `RefreshDone`, `Cancel` (the aggregate budget of
discovery). `Tick` advances the clock once nothing is ready to run and no fetch
is past its timeout, and lets zones change what they serve.

The cryptography is one question: which key made this signature. A signature is
`[signer, kid, lapsed]`; `Forger` is a signer no key verifies. `Result` and
`FinalVerdict` reproduce the order in which the named key, the fallback over all
keys, the refetch and the final verdict are combined.

### 3.2 Runs

| Run | Instance | Shows |
|---|---|---|
| `jwks_verdicts` | one zone, two tasks, eight kinds of signature, two changes among five documents (two keys in every combination, none, down) | `VerifiedByAServedKey`; `VerdictsAreRight`: a served key is found and a forgery is not reported as unknown |
| `jwks_flight` | two zones, three tasks, an outage and a cancellation | `FetchesAreFew`: one fetch per zone at a time, one forced refetch per window, one fetch per outage window; `OutageIsShort` |
| `jwks_answers` | two zones, a lock table of one entry, two cancellations; fair | `EveryTaskAnswers` |

*Bounds.* Time windows are scaled: the document TTL is 2 to 4 ticks, the negative
TTL 1, a fetch takes up to 1, in the order (fetch <= negative < document) of the
code's two requests of 10 s, 30 s and 3600 s. `MaxNow` reaches past one whole document
window plus a fetch, so that every entry can lapse within a run. Three tasks are
a holder, a waiter and a newcomer. `jwks_answers` keeps the clock still: lock
hand-over does not depend on it, and a table of one entry makes every second
zone evict.

*Fairness.* `WF(Resume(t))`: the event loop runs what is ready and every fetch
has a timeout. Cancellation is not fair: it need not come.

### 3.3 Proofs (`JwksCache_proofs.tla`)

For any zones, tasks, keys, signatures, windows and table bounds, under
`JwksAssumption` (the negative window is no longer than the document's, every
table has room for an entry) and `KidAssumption` (who signs names its own key,
no key, or one that was never published):

* `BaseHolds`: `Spec => []Base`, from which `JwksTypes`, `RetiredKeysAreForgotten`
  (`VerifiedByAServedKey`), `NoVerdictIsSwapped` (`VerdictsAreRight`) and
  `OutagesAreForgotten` (`OutageIsShort`) follow.
* `ZonesAreSpared`: `Spec => FetchesAreFew`, if `RoomForAll`: no table has fewer
  places than there are zones. Without it TLC finds two zones and a table of one
  place in which an evicted lock lets a zone be fetched twice.

`Base` ties the present to the history: an entry of the cache is a document that its
zone served within one window and one fetch of now (`TablesInv`), and what a task
carries is accounted for in the same way from the moment it arrived (`TasksInv`).
`Just` says what a zone must have served for a verdict to be right, `Follows`
what the verdict on one document owes to that document; the proof joins them at
each place a task ends. Each of `Store`, `Stamped` and `Evicted` has a lemma that says
which entries of a table it keeps, as a dictionary (`Dict`) and not as a list.
`FlightInv` adds that a fetching task holds the lock that the table has for its
zone, that a failure is remembered while it lasts, and that a stamp is as old as
the refetch it stands for.

---

## 4. Invocation

### 4.1 State and actions

`circuits` and `cool` are the breaker of each agent (its cooldown as a
countdown), `documents` the policy cache, `token` the OAuth2 token with two
countdowns: `fresh`, until the handler stops using it, and `alive`, until the
issuer stops accepting it. The two locks are queues whose head is the holder.
`call[c]` says where a call is suspended, whom it calls and how long its current
request has been out; `doomed` holds the calls whose request will fail. `up`,
`policy`, `lapse` and `calm` are the world: who answers, what policy URIs serve,
and for how long it has been so.

| Action | Code |
|---|---|
| `Begin` | `invoke` up to its first suspension: the breaker's pre-check (`Admits`, `Probed`), the cached policy, the cached token |
| `PolicyTurn`, `PolicyAnswered` | `PolicyEvaluator.fetch` under its lock, then the verdict |
| `TokenTurn`, `TokenIssued`, `TokenFailed` | `OAuth2AuthHandler._get_token` |
| `AgentAnswers` | the handler's response and the breaker's post-update |
| `Cancel` | the caller's task is cancelled at any suspension |
| `GoesDown`, `ComesUp`, `PolicyChanges`, `Tick` | the world |

A call asks the breaker once and reports once. Which ends of a call report
nothing (a denied policy, a refused token outside MCP, a cancellation) is kept
as the code has it, since the breaker leaves `half_open` only by a report.

### 4.2 Runs

| Run | Instance | Shows |
|---|---|---|
| `invocation` | one agent, two callers, strict policy, OAuth2, threshold 2, cooldown 2, policy TTL 2, tokens of lifetime 1 and 3; two troubles (an outage of agent or issuer, a change of policy, a cancellation); fair | `CalmAgentIsServed`, `CachedTokenIsAlive`, `NoStampede`, `PermissionIsRecent`, `NothingIsStranded` (every call ends, and a circuit does not stay open on an agent that is well) |

*Bounds.* Two callers give every overlap of one call with another, including a
failure reported after the circuit was opened by the other. A threshold of two
separates the first failure from the tripping one. Lifetime 1 is a token that
is never cached (not longer than the buffer), 3 one that is. A request takes up
to one tick. The counters `calm` and `lapse` saturate at the horizon their
properties speak of. Agents share only the locks and the token.

*Fairness.* `WF(Step(c))`: every request has a timeout. `WF(Tick)`: time passes.
`SF(Begin(f))`: callers keep calling an agent; strong, because another call to it
may keep a caller busy. Without it a circuit stays open for want of a probe.

### 4.3 Proofs (`Invocation_proofs.tla`)

`CachedTokenNeverExpired`: under `InvocationAssumption`, which asks that no
request outlives the expiry buffer (`Timeout <= Buffer`), `Spec => []CachedTokenIsAlive`, for any number of agents and
callers, any lifetimes and any order of failures. The property is not
inductive. `TokenInv` adds that no request has been out for longer than its
timeout (`NoRequestIsLate`) and that the token's life at the issuer is at least
its remaining use (`TokenOutlivesItsUse`): when an answer arrives the token is at
most one request old, which the buffer covers, and from then on both countdowns
fall together. Each helper operator that moves a call has a lemma that it is on
time; the step lemma has one case per action.

`InvocationTypes` and `NothingStampedes` (`NoStampede`) come of `LockInv`: each of the two
queues holds exactly the calls that wait for its lock or work under it, once
each, and only its head works; who fetches found nothing cached, and nobody else
can fill the cache meanwhile. `CalmAgentsAreServed` (`CalmAgentIsServed`) dates
every failure: a doomed request is at least as old as its agent is calm, so that
none is left after one timeout, and the cooldown that the last of them started is
over a cooldown later (`CalmInv`). `PermissionsAreRecent` (`PermissionIsRecent`)
bounds the age of a withdrawn permission by what is left of its entry
(`PermissionInv`).

The assumption is about the network: the buffer is 30 s, and the 10 s given to
the HTTP client in `oauth2.py` limit each phase of the request (connecting,
writing, each read), so an issuer that trickles its answer for longer than the
buffer is outside the theorem.

---

## 5. Backends

### 5.1 State and actions

`recs` is the zone at the provider, each record with the id the provider gave it
(0 where record sets are keyed by owner). `call[c]` is the call a caller is in:
the operation, the request it is about to make (`pc`), what its look-up saw
(`seen`), the page of a listing. `home[c]` is the backend object the caller goes
through, its own or a shared one, and `cache` what an object remembers of the zone. One request is one step, because another task may run at each await.
`Traits` holds, per provider, what the nine share with differences: keyed or by
id, zone looked up or not, how listings are paged, what a failure is told as.
A request that changes the zone works, or raises before or after it took
effect (`Request`); failures are bounded by `MaxFaults`.

| Actions | Code |
|---|---|
| `FindZone`, `AskForZone`, `RecallZone`, `UncachedZoneExists` | `_get_zone_id` and its kin, `zone_exists` |
| `Route53Upsert`, `Route53Delete`, `DdnsReplace`, `DdnsDelete`, `MockWrite` | one request replaces the set |
| `Ns1Upsert`, `Ns1Delete` | PUT, and POST where the set exists |
| `CloudDnsRead`, `CloudDnsChange` | a change that names the set it removes |
| `AkamaiLock`, `AkamaiClose`, `AkamaiReconnect` | the lock of the zone; the client of a past event loop is closed, then replaced |
| `AkamaiRead`, `AkamaiConflict`, `AkamaiWrite`, `AkamaiTimeout`, `AkamaiCommit` | the 409 retries, the change the server applies in its own time |
| `CloudflareLookup`, `CloudflareWrite`, `CloudflareDelete`, `CloudflareRateLimited`, `CloudflareHiddenError`, `CloudflareCutListing` | look-up of an id, PUT, POST where the record is gone |
| `NiosLookup`, `NiosWrite`; `BloxoneLookup`, `BloxoneUpsert`, `BloxoneSweep`, `BloxoneDelete` | look-up, write by id, removal of surplus records |
| `GetRecord`, `PageByNumber`, `PageByCursor`, `ListAtOnce`, `DdnsList`, `Ns1List` | reads and listings |

*Akamai's lock.* The table of locks belongs to a backend object: the MCP server makes
an object per call (`mcp/server.py:229-262`), so two tools of one process share no
lock, while the callers of the library and of one command do share theirs. The first
request after a change of the event loop is made inside the block that already
holds a lock, closes the old client (an `await`), and then empties the table
(`backends/akamai_edgedns.py:200-208`): who holds or waits keeps the old lock, who
comes later gets a fresh one. `link[b]` says whether an object's client is of
the loop that runs, `table[b]` counts how often its table was emptied, `turn[c]` is the
lock a caller waits for or holds and the table it is of, `closing` are the callers
at that `await`. A lock that callers of the past loop had waited for is bound to that
loop, and waiting for it raises (`link[b] = "foreign"`).

`RRsetStore` is what the code above a backend relies on. `StoreSpec` says that
every step of every provider is a step of it: a create replaces and never
leaves an owner unserved, on the way or when it fails, and only an owner that
somebody is deleting goes dark.

### 5.2 Run

`backends`: two callers of each provider, of one backend object or two, two owners,
two operations, one fault, one retry; fair. `StoreSpec` (refinement),
`AnswersAreTrue` (a call alone does what it answers, a listing holds what was
there all along, an outage is not remembered as absence but by NIOS),
`WritersTakeTurns` (two records of one owner need two writers at once; of the
callers of one Akamai object one is in its change, and if two are, then the
object came from a past event loop and their locks are of different tables),
`EveryCallEnds`.

*Bounds.* The properties are about one call beside one other. Two owners are a
listing of two pages. In `PageByNumber` a page holds one record, so that a
removal shifts the next page. One zone with one record an owner to begin with,
or two where a race has left them. Only for Akamai does the object a caller goes
through matter; elsewhere both callers share theirs, whose memory of the zone is all of it.

*Fairness.* Weak fairness of a caller's requests: each has a timeout and each
retry loop a bound. Weak fairness of `AkamaiCommit`: the server ends the change
it began.

### 5.3 Proofs (`Backends_proofs.tla`)

For any callers, objects and ways to share them, owners, values, page sizes and numbers of faults and retries, under
`BackendsAssumption`: `BackendTypes` (`TypeOK`), `CallersTakeTurns`
(`WritersTakeTurns`) and the refinement `OneStoreOfRecordSets`, `Spec => StoreSpec`.

The twenty-odd requests are reduced first to what they may do, `Footprint`: which
operation and stage lead to which, whose records may go or come, what becomes of
the ids, the lock and the look-up. `IInv` is then carried through the footprints
alone. It says that a provider that keys record sets holds one record of an
owner, that an id names one record for good (`IdsInv`), that what a writer's
look-up saw is of its own owner (`SeenInv`), that a sweep leaves a record older
than any it removes (`SweepInv`), that an owner which no race has touched has one
record and what was read of it still holds (`RaceInv`), and that an Akamai writer
holds a lock of its object that nobody else of the same object and table holds, of a
table the object has or has had (`LockInv`). The refinement needs all of it but the
last: that an owner never goes dark in an upsert is `SweepInv`, and that a request
by id moves no other owner is `IdsInv` with `SeenInv`.

---

## 6. Discovery

### 6.1 State and actions

A behaviour is one call of `discover`. `phase` is the await it stands at,
`tasks` the queries of the gather in its order, `agents` what they brought.
`zone`, `index` and `world` are what is published; the operator may change a
record or the index while the call runs (`Republish`, `EditIndex`), and requests
may go unanswered. `disturbed` collects the names that either has touched.

| Actions | Code |
|---|---|
| `AskForOne`, `ReadIndex` | where names come from: arguments, the index read by DNS, ten common names |
| `FollowPointer`, `FetchCatalog` | the catalog pointer, the cascade, the trust they give |
| `Resolve`, `ResolveLegacy`, `FollowAlias`, `Describe`, `ReadText`, `ReadArdCard` | one query: SVCB, draft-01 owner, alias, descriptor under its pin, TXT, card |
| `Gather` | `_collect_agent_results` |
| `CheckDnssec`, `EnrichCards`, `VerifyOne`, `SignatureBudgetEnds`, `StartDane`, `CheckDane`, `DaneBudgetEnds`, `Filter` | `_apply_post_discovery` |

### 6.2 Runs

`discovery`: eighteen scenes (an index, none, one that fills its TXT string; plain,
pinned, aliased, signed, forged and stale records, one with an empty signature;
catalogs on and off the domain) under each mix of the trust arguments, with one change by the operator
and up to two unanswered requests; fair. `DiscoveryIsExact`: what is announced
and undisturbed is found once, with its protocol, and nothing else is.
`VerdictsAreWhole`: an agent leaves with the verdict its check reached or as not
checked. `TrustIsEarned`: an agent that passes a gate has what the gate asks
for, and a pinned agent lists the capabilities of the pinned document.
`EveryDiscoveryEnds`.

`required_dnssec`: violation of `RequiredDnssecHolds`, section 10, finding 2.

*Bounds.* Two names separate "this agent" from "another"; two protocols give
the probes of one name. One change reaches each pair of awaits, since it may
come at any of them. *Fairness.* `WF(Progress)`: every request has a timeout.

### 6.3 Proofs (`Discovery_proofs.tla`)

For any names, scenes, arguments, republished records, changes and lost requests,
under `DiscoveryAssumption` and `ScenesAssumption` (the scenes are well-formed):

* `DiscoveryTypes`, `EveryVerdictIsWhole` and `NothingIsVouchedUnchecked`
  (`TrustIsEarned`), from `CallInv`. `TypeInv` says what queries and agents are at
  each await; `Gates` says what an agent that is still in the list has passed so
  far (`Sound`, `Decided`), and `Pins` that capabilities vouched for by a digest
  are of a source nothing replaces.
* `DiscoveriesAreExact`: `[]DiscoveryIsExact` if `IndexesFit`, that is, if every
  index fits in the first string of its TXT record. Where one does not, an
  operator who takes out an entry brings another, of a name it never touched, into
  the part that is read; with `Capacity = 1` TLC finds that. `ExactInv` follows
  the gather: every undisturbed name has a query under way that stands at the
  place where the zone would still lead it (`Covers`), or is done with what the
  zone publishes, until the merge makes agents of them (`Exact`).

Trying to prove the last theorem showed the model wrong: a name that is the alias
of another, both inside the domain, is disturbed when the other is republished
(`LeadTo`), since its query follows the alias.

---

## 7. Services that look before they write

`MCServices` holds one instance of each; they share no state, so a behaviour
runs one of them.

**`Challenge`.** `owner` is the TXT record set at `_agents-challenge`, `cached` what a
resolver in between still answers. `place` replaces the set, `revoke` is
`RevokeCheck` (a verification) and `RevokeDelete` (of the whole set). History:
`recent` (when the owner last held a record) and `last` (per challenge, the
placement nothing has excused losing). A verification passes, refuses, or raises: on a
record whose text or token does not decode, and on an expiry without an offset
(`Raises`), unless an earlier record of the answer has been accepted.

**`CatalogPointer`.** `pointer` is the record under each of two labels. `Look` reads the
index label, `Write` comes later; a look that fails lets the write pass.
`edition` counts the writes of the index label.

**`Policies`, `Enforcement`.** `Policies` holds the evaluator (sixteen rules at
three layers, CEL comparisons), the compiler with its scope guard, and what a
response policy zone answers. `Enforcement` runs `enforce`, `rollback`,
`publish_rpz_zone`, `bind_named_list_to_policy` and `unbind_...` request by request
for several operators, on NIOS (`EnsureZone`, `LookRecord`, `PutRecord`,
`RecordFails`, `PushEnds`) and on Threat Defense (`ReadLists`, `WriteList`,
`ReadPolicy`, `WritePolicy`, `ReadForUnbind`, `WriteUnbound`).

**`ServerPolicy`.** A dispatch awaits only the policy document, so limiter and
verdict are one step. `windows` forgets the least recent caller over
`MaxCallers`; `streak` is what a caller was really admitted since it could
last have been forgotten.

Run `services`: `VerifiedWasPlaced`; `NothingForeignIsLost` (a placed challenge is
accepted unless a revocation that was checked earlier took it; an unforced
publication takes no foreign pointer that its look could see; a reported
binding stays until a write prepared before it; a list is bound once);
`EnforcedIsInForce` (what is reported without an error is in the store, and
a zone filled from it blocks exactly the callers the evaluator refuses, for documents
a zone can say, `Expressible`: the scope guard drops nothing of them, their CEL rules
are negated ones, no allowed name lies within a denied one; the document `torn` of the
run is not one of them, and its stores are compared all the same); `LimitHolds`.

*Bounds.* Two parties at every service. The clock of `Challenge` outlasts one
expiry and one cached answer; three writes are place, replace, revoke. Three
callers and room for two force an eviction. The rate limits are reached within
the six requests of a run. *Fairness.* None: these are safety properties.

*Proofs.* All five invariants are proved, in `Services_proofs.tla`; section 11 says how.

---

## 8. Endpoints

`MCEndpoints` holds what is done with one agent, one part a behaviour.

**`Verification`.** `verify` step by step: SVCB (a failed query finds nothing), DNSSEC
(the AD flag of the TXT answer where there is no SVCB record), TLSA, the certificate for DANE, its
second connection where the usage asks for PKIX, the TLS and endpoint checks,
the score. Meanwhile an address may change what it presents and the owner may
roll the certificate over. `met` lists the certificates the verification saw.

**`Calls`.** A tool of the server is a job on the pool of `Workers` threads and a wait
with a timeout; when the wait ends the job stays. A job runs `Guard`, `Resolve_`,
`Judge_`, and then `Initialize`, `CallTool` and, where the modern transport is not
spoken, `PostLegacy`, or for a message `PostMessage`; the commands run it without a
pool. That is also the branch of `_run_async` for a thread without an event loop
(`mcp/server.py:225-226`): it waits without a timeout, and `EveryToolAnswers` is about
the other. `executed` counts how often the agent did what a call asked.

**`SignedRecord`.** `Build` signs what it is given; `PutWhole`, `PutStandard` write it, natively
or demoted; `Edit` is another tool that moves, changes or copies the record;
`Query` and `Judge` are the discoverer. A signature is the payload it covers. Four
of the nine covered parameters are enough for the ways they are treated: kept as given
(`cap`, `realm`), lowered (`connect-class`), refused where empty and deciding
the protocol (`bap`). A value that is not ASCII is read as the resolver escapes it, and its
record is dropped (`QueryDrops`).

Run `endpoints`: `VerificationIsSound` (a pass rests on one certificate; a mismatch is
reported exactly when every usable association was refused; a rollover done in
order never yields one; a rating is earned), `CallsAreHonest` (at most once, an
answer tells what happened, but that A2A takes a refusal under status 200, or the page
of a host that is no agent, for success; a call nothing disturbs is done), `SignatureIsExact`
(what a signature vouches for was signed, and a publisher's own record is never
taken for a lifted one), `EveryToolAnswers`.

*Bounds.* Two addresses and two TLSA records compared at most, with sets of up to
three, so that the limit bites. One worker and two tools: the second finds the
pool taken by the job the first abandoned. Policies are strict and permissive. Two
publications and one edit, one argument that is not ASCII.

*Fairness.* Of `Expire` only: the wait for a future ends by the clock. Nothing is
assumed of the network or of the jobs.

---

## 9. What is abstracted, and why it does not matter here

*Everywhere:* validation of arguments, logging, telemetry, formatting. A value
is a model value; a record's content is what the properties tell apart.

*Publication:* a listing is one atomic snapshot (`Backends` pages it); agent names
contain no dot; every agent has at least one private-use key, the interesting
case for demotion; `index_target` is never passed by the tools; an operator who
asks for no index update is a `Stop` before `idxRead`; reads of the index by
discovery have no effect on it.

*JwksCache:* the pair of candidate URLs is one answer; the semaphore of sixteen
is the number of tasks; wall clock and monotonic clock are one clock; a
cancellation is delivered at once. `TableMax` is at least the number of zones in
the runs that check the budgets: with more zones than the tables hold, an evicted
stamp takes its budget with it, and the code promises nothing.

*Invocation:* the sixteen policy rules are one verdict (`Policies` has them); the
MCP session handshake and its legacy fallback are one request (`Calls` has
them); OIDC discovery is part of the token request; a failed request is a
failure whatever its classification; failures are counted up to the threshold,
beyond which the code makes no difference; a free lock is taken in the step that
asks for it.

*Backends:* one zone, one record type, record sets of one record but for
duplicates; a request is answered once it has taken effect, but for Akamai;
credentials and sessions are left out. One object is in one running event loop at a
time: two at once would need the process-wide default backend of the DCV tools and a
job left running by a timeout, and asyncio's objects promise nothing then. The
waiters of a lock come to it in any order.

*Discovery:* slots of the semaphores delay tasks and nothing else; a document is
what its host serves, whole or not at all; the text filters and the order of the
result are left out; cryptography is `SignedRecord`'s and `JwksCache`'s.

*Services:* a domain is the sequence of its labels; a policy's rule other than a
list of domains is told apart by what the context says of it. `EnforcedIsInForce`
compares the zone with the evaluator for the documents that `Expressible` admits;
section 10 says what becomes of the others.

*Endpoints:* digests are equality of certificates and keys; one host stands for
target and port; the evaluation of a policy is admission of a method.

---

## 10. Findings

Each is a run that TLC ends with a counterexample; the quoted promise is in
`PROJECT.json`.

1. **A refused delete is masked** (`masked_delete`). `unpublish` accepts either
   primary delete; an SVCB delete that answers False followed by a TXT delete
   that answers True is reported as success although the SVCB is still served.
   `UnpublishTookSomething` states what the guard does ensure.
2. **A DNSSEC verdict goes by name** (`required_dnssec`). A record that names no
   protocol, asked for under two, makes two agents of one name; the verdicts are
   kept under that name, so the validated one hides the other, and
   `require_dnssec` lets both pass.

Seen while modelling and given no run. In publication and the index:

* Two protocols of one name replace each other at the flat owner while the index
  lists both; either unpublish takes both (`core/models.py:645`,
  `backends/base.py:304`).
* A sync whose read of the index fails, in a zone without agents, reports
  success and leaves stale entries (`core/indexer.py:549`).
* An index of more than 255 octets loses entries when it is read by DNS, string
  by string (`core/indexer.py:186`): the reader takes the first one. That is why
  `DiscoveryIsExact` is proved for indexes that fit.
* What is demoted to TXT "without data loss" (`backends/base.py:232`) is read by
  nothing.
* A parameter that is not ASCII passes the publisher's check
  (`utils/validation.py:745`), comes back from the resolver with backslashes, and
  `AgentRecord` refuses those: the record is published and never discovered
  (`core/discoverer.py:1067-1099`, `core/models.py:951-975`).
* A publication whose `bap` names another protocol than its `alpn` is discovered
  under the former, and its own signature then reads as unbound
  (`core/discoverer.py:1169`).

In signatures and keys:

* A JSON object without `keys`, served with status 200, is kept for the whole
  cache window (`core/jwks.py:828`); a forced refetch is not observed for key
  continuity (line 1086).
* A lock evicted from a full table between its holder's release and its waiter's
  wake-up lets two tasks of one zone fetch at once. `jwks_answers` shows that
  even so every task is answered.
* A catalog entry with an empty signature gets neither a verdict nor `not_signed`:
  one place asks whether there is one (`core/discoverer.py:2076`), the other whether it is
  `None` (line 2083). No gate lets it pass.
* With the refetch budget spent, a genuine signature by a key just rolled in is
  `invalid`. `VerdictsAreRight` states for how long that can last.

In calls:

* An MCP handler turns a cancellation into a failure that counts against the
  agent (`sdk/protocols/mcp.py:289`; `sdk/client.py:107` says that it
  propagates). A success that was under way when the circuit opened closes it
  without a probe; `half_open` admits any number of probes.
* A token endpoint that cannot be reached counts as a failure of the agent, one
  that refuses does not (except over MCP). A token that lives no longer than the
  buffer is never cached, so queued callers request their own one by one.
* The command line and the server make a client for each call, so their circuits
  never open. With a discovered record the client calls the record's endpoint
  while the report names the resolved one (`core/invoke.py:486`). The guard asks
  about `tools/call:<tool>`, the client about `tools/call`.
* A tool that timed out may still take effect afterwards.
* A2A reports success for every status below 400 (`sdk/protocols/a2a.py:174-203`): for a
  JSON-RPC error of the agent, and for whatever a host that is no agent serves.

In backends:

* Dynamic updates list nothing without a name. Cloudflare's look-up reads an
  answer with `success: false` as no record. NIOS remembers a failed zone look-up
  as absence. BloxOne's delete takes the first of several records.
* Akamai's lock spares the writers of one backend object each other, not "our own
  concurrent writes" (`backends/akamai_edgedns.py:220-227`): each call of the MCP
  server makes an object of its own, and after a change of the event loop two writers
  of one object can be inside at once, under locks of different tables. The
  409 retries absorb these as well, up to their bound.

In policies and services:

* The scope guard drops the `*.partner.org` directives of an allow list and keeps
  its catch-all, so that the allowed callers are blocked too
  (`sdk/policy/compiler.py:456-507`). CEL forms without a negation compile to the
  opposite of what the evaluator enforces (lines 377-394). A name that is allowed within a
  denied subtree passes the zone, the closest owner deciding, and not the evaluator.
* `policy rollback` pushes the snapshot that the last enforcement itself saved
  (`cli/main.py:2657`); two enforcements in one second share a snapshot file. A
  push removes no owner of an earlier policy. NIOS zones answer NXDOMAIN where
  NODATA or DROP was asked. Binding a list is a read-modify-write of the whole
  security policy.
* The middleware never sets the caller's country, so a rule on it always denies
  there; a policy that cannot be fetched lets requests pass.
* `verify` promises `verified=False` for a malformed expiry (`core/dcv.py`, its
  docstring). One without an offset parses, and comparing it raises `TypeError` (line 467);
  text that is not UTF-8 (line 438) or a token that is not ASCII (line 443) raises too. One
  such record at the shared owner keeps every verification from its answer.
* A revocation checked on a cached answer may delete a later challenger's record.
* The catalog pointer compares a host that was not lower-cased.

In verification:

* `dane_note` says that no TLSA record is configured for every unknown outcome;
  the TLS check dials the first address only, the endpoint check all; a rejected
  handshake goes on to the next address (`core/validator.py:936`).

---

## 11. What is proved, what is model-checked, what is neither

| | Proved for all constants | Model-checked only |
|---|---|---|
| Publication | `TypeOK`, `IndexWasAnnounced`, `ListsOnlyAnnounced`, `PublishIsComplete`, `UnpublishTookSomething`, `SyncIsExact`, `UnpublishIsGone` (if deletes answer honestly), `NoCollateralLoss` (one operator, reads work) | `SyncHeals` |
| Backends | `TypeOK`, `WritersTakeTurns`, `StoreSpec` | `AnswersAreTrue`, `EveryCallEnds` |
| Discovery | `TypeOK`, `VerdictsAreWhole`, `TrustIsEarned`, `DiscoveryIsExact` (if every index fits in its TXT string) | `EveryDiscoveryEnds` |
| JwksCache | `TypeOK`, `VerifiedByAServedKey`, `VerdictsAreRight`, `OutageIsShort`, `FetchesAreFew` (if the tables have room for every zone) | `EveryTaskAnswers` |
| Invocation | `TypeOK`, `CachedTokenIsAlive`, `NoStampede`, `CalmAgentIsServed`, `PermissionIsRecent` | `NothingIsStranded` |
| Services | `ServicesTypeOK`, `VerifiedWasPlaced`, `NothingForeignIsLost`, `EnforcedIsInForce`, `LimitHolds` | |
| Endpoints | `EndpointsTypeOK`, `VerificationIsSound`, `CallsAreHonest`, `SignatureIsExact` | `EveryToolAnswers` |

The proofs about `Backends`, `Discovery`, `JwksCache` and `Invocation` are described with
their components (sections 2.3 to 6.3).

### Lists that lose some of their places (`Selection_proofs.tla`)

Dictionaries in insertion order, the merge of discovery, the rules of a security
policy and the windows of the limiter are all lists from which places are taken.
`Pick(s, kept)` is such a list, told by where each place goes (its rank among the
kept ones) and not by recursion over the list, so that it can be reasoned about: every place
of the result is one of `kept`, and every one of `kept` is there once, in the order of
the list (`PickIs`, `PickKeeps`).

### Proofs about the services (`Services_proofs.tla`)

Under `ChallengeAssumption` (the life of a cached answer and the spans are natural
numbers, at least one record is looked at) and `ByHandAreRecords`:

* `AcceptedWasPlaced`: `chSpec => []VerifiedWasPlaced`. `RecentIsDated` dates every
  record the owner lately held, `MemoryIsRecent` says that the resolver forgets an
  answer at most `CacheTTL` after its records were there; a verdict is over an
  answer, and an answer is one or the other.
* `PlacedIsAccepted`: `chSpec => []PlacedIsVerified`. The owner's versions order
  everything: a placement nothing has excused losing is the only record of the
  owner and of every answer since, and no other claimant is about to revoke on
  such an answer, since it would have been refused (`PlacementsHold`).
* `IndexIsOverwrittenKnowingly`: `cpSpec => []IndexIsGuarded`, with no assumption.
  `LookIsTrue`: a publisher that has looked, and whose edition of the index label
  is still the current one, found its own host or none.
* `BindingsAreKept`: `enSpec => [](RulesAreKept /\ BoundOnce)`, under
  `EnforcementAssumption`. The policy is written whole, so `PolicyInv` gives it
  versions: what an operator is about to write back was read at a version, holds
  every binding reported up to it, and is the policy itself if the version is
  still the current one (`ReadWhole`).
* `WhatIsReportedHolds`: `enSpec => []EnforcedIsInForce`. `InForce` says, for an
  operator nobody disturbs, how far it has come: a push without errors has settled
  the directives up to its place, the last one of an owner winning (`Settled`,
  `Pushed`); a bound list holds what it was written with. That a zone so filled
  refuses whom the evaluator refuses is proved for every document that is
  `Expressible`, under `EnforcementAssumption` (documents and callers are made of
  names): the compiler's list, filtered and deduplicated, says as a set what the
  rules say (`CompiledSays`); the last directive of an owner is the only one, so the
  zone says it too (`SettledSpeaks`); of the patterns that a name fits, the closest
  lies inside all others (`CloserIsInside`), so a denied name never meets an allowed
  pattern first (`ZoneRefuses`, `EvaluatorRefuses`).
* `LimitsHold`: `spSpec => []LimitHolds`, under `ServerPolicyAssumption`. `Accounts`
  says that the window kept for a caller covers, one for one (`Covered`), what the
  caller was admitted for since it could last have been forgotten; that a window is
  dropped only when `MaxCallers` others were admitted later needs a count of the
  callers in it.
* `ForeignWorkIsKept`, `ServicesTypes`, `ServicesHold`: the same of `MCServices`, where a
  step is a step of one service and a stutter of the others (`OneServiceSteps`),
  from `ServicesInv`.

### Proofs about verification, calls and signed records (`Endpoints_proofs.tla`)

* `EveryCallIsHonest`: `caSpec => []CallsAreHonest`, under `CallsAssumption` (what
  lives somewhere, and what is asked for, has a host and a path; the calls are
  finitely many, the pool and the bound are natural numbers). `CallInv` says
  that a job which still runs has done nothing, so that the second transport may be
  tried, and that an answer which claims something ended its job: what abandoned
  jobs do later comes after the answer "timeout", which claims nothing. A success
  for which nothing was done is a message's, and a trouble or a wrong place accounts for
  it (`Earned_`). `OnTheWay`
  follows a call that nothing has disturbed: it was admitted under both of its
  method names, resolved to where the agent lives, and goes to the transport the
  agent speaks; `CalmStep` reduces every step to the call whose step it is.
* `SignaturesAreExact`: `srSpec => []SignatureIsExact`, under `SignedRecordAssumption`
  (the validity and the bounds are natural numbers, arguments say whether the payload claims the
  parameters and give all of them). `SigsAreGenuine`: signatures are only moved,
  dropped or copied, by puts, demotions and edits alike. `IsOwn`: a record written
  whole and not edited carries its publisher's arguments, and by `ParamsComeBack`
  what is read back, in lower case and without its empty values, covers exactly
  what was signed.
* `VerificationSound`: `vfSpec => []VerificationIsSound`, under
  `VerificationAssumption` (certificates and associations are what they are called,
  the certificates of a rollover are among them, the limits are natural numbers).
  `Compared` is the loop invariant of the comparison: the place `k` it has reached
  in the kept associations, that what is left is what follows, and what
  the two counters owe to the `k` before it: none unevaluated means that
  every one of them refuted the certificate, some unevaluated that one of them, or
  one cut off by the limit, did not. `Presented` keeps the certificate of
  the first connection apart from that of the second, which passed PKIX;
  `Concludes` is what a verdict, before and after the gate on the agent's own name,
  rests on. `RolloverInv` says which RRset and which certificate each stage of
  a rollover has, which earlier answers may still be in use, and that the
  certificate that was met is pinned by the answer in use (`PinsServe`). The rating
  is arithmetic on top of `Concludes`.
* `EndpointsAreTyped`: `epSpec => []EndpointsTypeOK`, under the three assumptions, with
  the count of running jobs: only `Take` lets one more run (`TakeIsTyped`,
  `NoMoreRun`).

### What stays with TLC

Liveness under fairness (`SyncHeals`, `EveryTaskAnswers`, `NothingIsStranded`,
`EveryCallEnds`, `EveryDiscoveryEnds`, `EveryToolAnswers`) is outside what the
proof system handles. `AnswersAreTrue` counts the pages and records of a listing;
it is checked and not proved yet.

---

## 12. Plan

1. `Backends`: `AnswersAreTrue`; the part about single answers first, listings by
   what has been there since the first page was asked for.
2. `Publication` over `RRsetStore` instead of atomic calls, so that the composition of
   publication, backend and discovery is one behaviour.
