----------------------------- MODULE Invocation -----------------------------
(***************************************************************************)
(* Calling agents through the SDK: sdk/client.py (invoke, _invoke_inner)   *)
(* with the three things every call of one AgentClient shares: the circuit *)
(* breaker (sdk/_circuit_breaker.py), the policy evaluator's documents     *)
(* (sdk/policy/evaluator.py) and an OAuth2 handler's token                 *)
(* (sdk/auth/oauth2.py).                                                   *)
(*                                                                         *)
(* Calls are asyncio tasks on one event loop, so an action runs from one   *)
(* suspension of a call to the next: the wait for the evaluator's lock, the*)
(* policy request, the wait for the token lock, the token request, the     *)
(* request to the agent. A call asks the breaker once, before the first of *)
(* them, and reports to it once, after the last.                           *)
(*                                                                         *)
(* The clock is kept as countdowns (time left until a circuit may be       *)
(* probed, until an entry is stale), so that nothing counts upwards.       *)
(***************************************************************************)
EXTENDS Naturals, Sequences, FiniteSets, SequencesExt

CONSTANTS
    Agents,
    Calls,        \* concurrent callers of the client
    McpAgents,    \* the agents called through MCPProtocolHandler
    Issuer,       \* the token endpoint
    PolicyMode,   \* config.policy_mode
    TokenAuth,    \* calls carry a token of one shared OAuth2AuthHandler
    Threshold,    \* circuit_breaker_threshold
    Cooldown,     \* circuit_breaker_cooldown, in ticks
    PolicyTTL,    \* policy_cache_ttl
    Lifetimes,    \* what the issuer may answer as expires_in
    Buffer,       \* _EXPIRY_BUFFER_SECONDS
    Timeout,      \* bound: ticks any one request may take
    MaxTrouble,   \* bound: outages, policy changes and cancellations
    None

ASSUME InvocationAssumption ==
    /\ McpAgents \subseteq Agents /\ Issuer \notin Agents
    /\ PolicyMode \in {"disabled", "permissive", "strict"}
    /\ TokenAuth \in BOOLEAN
    /\ Threshold \in Nat \ {0} /\ Cooldown \in Nat \ {0}
    /\ PolicyTTL \in Nat \ {0} /\ Lifetimes \subseteq Nat
    /\ Timeout \in Nat /\ Buffer \in Nat /\ Timeout <= Buffer
    /\ MaxTrouble \in Nat

VARIABLES
    circuits,    \* _circuits: state and consecutive failures of each agent
    cool,        \* ticks until an open circuit may be probed
    call,        \* where each call stands, whom it calls, and for how many
                 \* ticks its current request has been out
    doomed,      \* calls whose current request will fail
    documents,   \* _cache: the policy of each agent and how long it is fresh
    policyQueue, \* the evaluator's one lock: its holder, then its waiters
    token,       \* fresh: until _expires_at; alive: until the issuer's expiry
    tokenQueue,  \* the handler's lock: its holder, then its waiters
    up,          \* the agents, and the issuer, that answer
    policy,      \* what each agent's policy_uri serves
    lapse,       \* ticks since it last served the other document
    calm,        \* ticks since the agent or the issuer last failed
    trouble

shared == <<circuits, cool, documents, policyQueue, token, tokenQueue>>
locals == <<call, doomed>>
world == <<up, policy, lapse, calm, trouble>>
vars == <<shared, locals, world>>

Verdict == {"allow", "deny"}
Requests == {"policyFetch", "tokenFetch", "sent"}
Stages == {"policyWait", "tokenWait"} \cup Requests
Idle == [at |-> "idle", agent |-> None, age |-> 0]
At(c, stages) == call[c].at \in stages
NoDocument == [says |-> "allow", fresh |-> 0]
NoToken == [fresh |-> 0, alive |-> 0]
Horizon == Timeout + Cooldown
Staleness == PolicyTTL + Timeout

TypeOK ==
    /\ circuits \in [Agents -> [state : {"closed", "open", "half_open"},
                                failures : 0..Threshold]]
    /\ cool \in [Agents -> 0..Cooldown]
    /\ \A c \in Calls :
          call[c] \in {Idle} \cup [at : Stages, agent : Agents, age : 0..Timeout]
    /\ doomed \subseteq {c \in Calls : At(c, {"tokenFetch", "sent"})}
    /\ documents \in [Agents -> [says : Verdict, fresh : 0..PolicyTTL]]
    /\ policyQueue \in Seq(Calls) /\ tokenQueue \in Seq(Calls)
    /\ ToSet(policyQueue) = {c \in Calls : At(c, {"policyWait", "policyFetch"})}
    /\ ToSet(tokenQueue) = {c \in Calls : At(c, {"tokenWait", "tokenFetch"})}
    /\ \E l \in Lifetimes \cup {0} : token \in [fresh : 0..l, alive : 0..l]
    /\ up \subseteq Agents \cup {Issuer}
    /\ policy \in [Agents -> Verdict]
    /\ lapse \in [Agents -> 0..Staleness]
    /\ calm \in [Agents -> 0..Horizon]
    /\ trouble \in 0..MaxTrouble

Less(n) == IF n = 0 THEN 0 ELSE n - 1
More(n, most) == IF n = most THEN n ELSE n + 1
-----------------------------------------------------------------------------
(* The circuit breaker.                                                    *)

(* A plausible bug: an open circuit stays open.                            *)
Admits_Never(f) == circuits[f].state # "open"

(* get_state answers "open".                                               *)
Admits(f) == circuits[f].state = "open" => cool[f] = 0

(* get_state once the cooldown has passed.                                 *)
Probed(f) ==
    IF circuits[f].state = "open"
    THEN [circuits EXCEPT ![f].state = "half_open"] ELSE circuits

(* A plausible bug: a success resets the count and not the state.          *)
RecordSuccess_KeepsState(f) ==
    /\ circuits' = [circuits EXCEPT ![f].failures = 0]
    /\ UNCHANGED cool

(* record_success.                                                         *)
RecordSuccess(f) ==
    /\ circuits' = [circuits EXCEPT ![f] = [state |-> "closed", failures |-> 0]]
    /\ cool' = [cool EXCEPT ![f] = 0]

(* record_failure. Only whether the failures reach the threshold matters   *)
(* and only a success lowers them, so they are counted up to it; the time  *)
(* of the last failure is read only while the circuit is open.             *)
RecordFailure(f) ==
    LET failures == More(circuits[f].failures, Threshold)
        opens == failures = Threshold
    IN  /\ circuits' = [circuits EXCEPT
                ![f] = [state |-> IF opens THEN "open" ELSE @.state,
                        failures |-> failures]]
        /\ cool' = [cool EXCEPT ![f] = IF opens THEN Cooldown ELSE @]

RecordNothing == UNCHANGED <<circuits, cool>>
-----------------------------------------------------------------------------
(* Where a call stands.                                                    *)

Goes(c, f, stage) ==
    call' = [call EXCEPT ![c] = [at |-> stage, agent |-> f, age |-> 0]]

(* Sending a request to s: it will fail if s does not answer.              *)
Asks(c, f, stage, s) ==
    /\ Goes(c, f, stage)
    /\ doomed' = IF s \in up THEN doomed \ {c} ELSE doomed \cup {c}

Ends(c) ==
    /\ call' = [call EXCEPT ![c] = Idle]
    /\ doomed' = doomed \ {c}

(* A lock's queue once c has left it; a call is in it at most once.        *)
Without(queue, c) ==
    LET places == {i \in DOMAIN queue : queue[i] = c}
    IN  IF places = {} THEN queue
        ELSE RemoveAt(queue, CHOOSE i \in places : TRUE)

Fresh(f) == documents[f].fresh > 0

(* handler.invoke once a token, if any, is attached.                       *)
Sends(c, f) ==
    /\ Asks(c, f, "sent", f)
    /\ tokenQueue' = Without(tokenQueue, c)

(* handler.invoke up to its first suspension: the fast path of _get_token, *)
(* the token request if the lock is free, else the wait for the lock.      *)
Invokes(c, f) ==
    IF ~TokenAuth \/ token.fresh > 0
    THEN Sends(c, f)
    ELSE /\ tokenQueue' = Append(tokenQueue, c)
         /\ IF tokenQueue = <<>>
            THEN Asks(c, f, "tokenFetch", Issuer)
            ELSE Goes(c, f, "tokenWait") /\ UNCHANGED doomed

(* The verdict of a policy document: strict mode raises                    *)
(* PolicyViolationError, permissive mode only logs.                        *)
Judged(c, f, says) ==
    IF says = "deny" /\ PolicyMode = "strict"
    THEN Ends(c) /\ UNCHANGED tokenQueue
    ELSE Invokes(c, f)
-----------------------------------------------------------------------------
(* invoke: the breaker's pre-check, then the policy, then the handler.     *)

Begin(c, f) ==
    /\ call[c].at = "idle" /\ Admits(f)
    /\ circuits' = Probed(f)
    /\ \/ /\ PolicyMode = "disabled"
          /\ Invokes(c, f) /\ UNCHANGED policyQueue
       \/ /\ PolicyMode # "disabled" /\ Fresh(f)
          /\ Judged(c, f, documents[f].says) /\ UNCHANGED policyQueue
       \/ /\ PolicyMode # "disabled" /\ ~Fresh(f)
          /\ policyQueue' = Append(policyQueue, c)
          /\ Goes(c, f, IF policyQueue = <<>> THEN "policyFetch" ELSE "policyWait")
          /\ UNCHANGED <<doomed, tokenQueue>>
    /\ UNCHANGED <<cool, documents, token, world>>

(* The lock of PolicyEvaluator.fetch comes to c: the double check.         *)
PolicyTurn(c) ==
    LET f == call[c].agent IN
    /\ call[c].at = "policyWait" /\ Head(policyQueue) = c
    /\ IF Fresh(f)
       THEN /\ Judged(c, f, documents[f].says)
            /\ policyQueue' = Tail(policyQueue)
       ELSE /\ Goes(c, f, "policyFetch")
            /\ UNCHANGED <<doomed, policyQueue, tokenQueue>>
    /\ UNCHANGED <<circuits, cool, documents, token, world>>

Stored(f, says) ==
    [documents EXCEPT ![f] = [says |-> says, fresh |-> PolicyTTL]]

(* The policy request ends: a document served at some point of it, or an   *)
(* error of any kind, which lets the call go on without a policy.          *)
PolicyAnswered(c) ==
    LET f == call[c].agent
        served == {policy[f]} \cup (IF lapse[f] <= call[c].age THEN Verdict ELSE {})
    IN  /\ call[c].at = "policyFetch"
        /\ policyQueue' = Without(policyQueue, c)
        /\ \/ \E says \in served :
                /\ documents' = Stored(f, says)
                /\ Judged(c, f, says)
           \/ /\ Invokes(c, f)
              /\ UNCHANGED documents
        /\ UNCHANGED <<circuits, cool, token, world>>
-----------------------------------------------------------------------------
(* OAuth2AuthHandler._get_token.                                           *)

(* A plausible bug: no second look at the token under the lock.            *)
TokenTurn_NoDoubleCheck(c) ==
    /\ call[c].at = "tokenWait" /\ Head(tokenQueue) = c
    /\ Asks(c, call[c].agent, "tokenFetch", Issuer) /\ UNCHANGED tokenQueue
    /\ UNCHANGED <<circuits, cool, documents, policyQueue, token, world>>

(* The lock comes to c: the double check.                                  *)
TokenTurn(c) ==
    /\ call[c].at = "tokenWait" /\ Head(tokenQueue) = c
    /\ IF token.fresh > 0
       THEN Sends(c, call[c].agent)
       ELSE Asks(c, call[c].agent, "tokenFetch", Issuer) /\ UNCHANGED tokenQueue
    /\ UNCHANGED <<circuits, cool, documents, policyQueue, token, world>>

(* A plausible bug: the token is used up to its very expiry.               *)
Kept_NoBuffer(lifetime) == lifetime

(* _expires_at - now once a token of this lifetime has arrived.            *)
Kept(lifetime) == IF lifetime > Buffer THEN lifetime - Buffer ELSE 0

(* A token past _expires_at is not read again.                             *)
Held(fresh, alive) ==
    IF fresh = 0 THEN NoToken ELSE [fresh |-> fresh, alive |-> alive]

(* The issuer answers; the token was issued at some point of the request.  *)
TokenIssued(c) ==
    /\ call[c].at = "tokenFetch" /\ c \notin doomed
    /\ \E lifetime \in Lifetimes, since \in 0..call[c].age :
           token' = Held(Kept(lifetime),
                         IF since < lifetime THEN lifetime - since ELSE 0)
    /\ Sends(c, call[c].agent)
    /\ UNCHANGED <<circuits, cool, documents, policyQueue, world>>

(* A plausible bug: a failed request for a token leaves the lock held.     *)
TokenFailed_KeepsLock(c) ==
    /\ call[c].at = "tokenFetch" /\ c \in doomed
    /\ Ends(c) /\ RecordNothing
    /\ UNCHANGED <<documents, policyQueue, token, tokenQueue, world>>

(* It does not. An unreachable issuer is an httpx error, which every       *)
(* handler turns into a failed response of the agent; a refusal is an      *)
(* OAuth2TokenError, which only MCPProtocolHandler catches.                *)
TokenFailed(c) ==
    LET f == call[c].agent IN
    /\ call[c].at = "tokenFetch" /\ c \in doomed
    /\ Ends(c) /\ tokenQueue' = Without(tokenQueue, c)
    /\ RecordFailure(f) \/ (f \notin McpAgents /\ RecordNothing)
    /\ UNCHANGED <<documents, policyQueue, token, world>>
-----------------------------------------------------------------------------
(* The agent's answer, or the timeout, and the breaker's post-update.      *)
AgentAnswers(c) ==
    LET f == call[c].agent IN
    /\ call[c].at = "sent"
    /\ Ends(c)
    /\ IF c \in doomed THEN RecordFailure(f) ELSE RecordSuccess(f)
    /\ UNCHANGED <<documents, policyQueue, token, tokenQueue, world>>

(* A plausible bug: a call that is given up leaves its lock held.          *)
Cancel_KeepsLock(c) ==
    /\ call[c].at # "idle" /\ trouble < MaxTrouble
    /\ Ends(c) /\ RecordNothing
    /\ trouble' = trouble + 1
    /\ UNCHANGED <<documents, policyQueue, token, tokenQueue,
                   up, policy, lapse, calm>>

(* The caller gives up. Locks are released on the way out.                 *)
(* MCPProtocolHandler.invoke catches BaseException, so in it the           *)
(* cancellation ends as a failed response; elsewhere it propagates and     *)
(* nothing is recorded.                                                    *)
Cancel(c) ==
    LET f == call[c].agent
        swallowed == f \in McpAgents /\ At(c, {"tokenWait", "tokenFetch", "sent"})
    IN  /\ call[c].at # "idle" /\ trouble < MaxTrouble
        /\ Ends(c)
        /\ policyQueue' = Without(policyQueue, c)
        /\ tokenQueue' = Without(tokenQueue, c)
        /\ IF swallowed THEN RecordFailure(f) ELSE RecordNothing
        /\ trouble' = trouble + 1
        /\ UNCHANGED <<documents, token, up, policy, lapse, calm>>
-----------------------------------------------------------------------------
(* The world: agents and the issuer fail and recover, policies change,     *)
(* time passes.                                                            *)

Uses(c, s) ==
    IF s = Issuer THEN call[c].at = "tokenFetch" ELSE call[c].at = "sent" /\ call[c].agent = s

(* s stops answering: any of the requests it is working on may fail too.   *)
GoesDown(s) ==
    /\ s \in up /\ trouble < MaxTrouble
    /\ \E lost \in SUBSET {c \in Calls : Uses(c, s)} : doomed' = doomed \cup lost
    /\ up' = up \ {s}
    /\ calm' = [f \in Agents |-> IF s \in {f, Issuer} THEN 0 ELSE calm[f]]
    /\ trouble' = trouble + 1
    /\ UNCHANGED <<shared, call, policy, lapse>>

ComesUp(s) ==
    /\ s \notin up
    /\ up' = up \cup {s}
    /\ UNCHANGED <<shared, locals, policy, lapse, calm, trouble>>

PolicyChanges(f) ==
    /\ PolicyMode # "disabled" /\ trouble < MaxTrouble
    /\ policy' = [policy EXCEPT ![f] = IF @ = "allow" THEN "deny" ELSE "allow"]
    /\ lapse' = [lapse EXCEPT ![f] = 0]
    /\ trouble' = trouble + 1
    /\ UNCHANGED <<shared, locals, up, calm>>

(* A plausible bug: policy documents do not age.                           *)
Aged_Never(f) == documents[f]

(* An expired entry is not read again.                                     *)
Aged(f) == IF documents[f].fresh <= 1 THEN NoDocument
           ELSE [documents[f] EXCEPT !.fresh = @ - 1]

(* No request outlives its timeout.                                        *)
Tick ==
    /\ \A c \in Calls : At(c, Requests) => call[c].age < Timeout
    /\ call' = [c \in Calls |-> IF At(c, Requests)
                              THEN [call[c] EXCEPT !.age = @ + 1] ELSE call[c]]
    /\ cool' = [f \in Agents |-> Less(cool[f])]
    /\ documents' = [f \in Agents |-> Aged(f)]
    /\ token' = Held(Less(token.fresh), Less(token.alive))
    /\ lapse' = [f \in Agents |-> More(lapse[f], Staleness)]
    /\ calm' = [f \in Agents |-> IF {f, Issuer} \subseteq up
                                 THEN More(calm[f], Horizon) ELSE 0]
    /\ UNCHANGED <<circuits, policyQueue, tokenQueue, doomed, up, policy, trouble>>
-----------------------------------------------------------------------------
Init ==
    /\ circuits = [f \in Agents |-> [state |-> "closed", failures |-> 0]]
    /\ cool = [f \in Agents |-> 0]
    /\ call = [c \in Calls |-> Idle]
    /\ doomed = {}
    /\ documents = [f \in Agents |-> NoDocument]
    /\ policyQueue = <<>>
    /\ token = NoToken
    /\ tokenQueue = <<>>
    /\ up = Agents \cup {Issuer}
    /\ policy \in [Agents -> Verdict]
    /\ lapse = [f \in Agents |-> Staleness]
    /\ calm = [f \in Agents |-> Horizon]
    /\ trouble = 0

Step(c) ==
    \/ PolicyTurn(c) \/ PolicyAnswered(c)
    \/ TokenTurn(c) \/ TokenIssued(c) \/ TokenFailed(c)
    \/ AgentAnswers(c)

Next ==
    \/ \E c \in Calls, f \in Agents : Begin(c, f)
    \/ \E c \in Calls : Step(c) \/ Cancel(c)
    \/ \E s \in Agents \cup {Issuer} : GoesDown(s) \/ ComesUp(s)
    \/ \E f \in Agents : PolicyChanges(f)
    \/ Tick

Spec == Init /\ [][Next]_vars

(* The loop runs a call whose wait is over, every request ends (they all   *)
(* have timeouts), and time passes. The program keeps calling its agents.  *)
FairSpec ==
    /\ Spec
    /\ \A c \in Calls : WF_vars(Step(c))
    /\ WF_vars(Tick)
    /\ \A f \in Agents : SF_vars(\E c \in Calls : Begin(c, f))
-----------------------------------------------------------------------------
(* Correctness.                                                            *)

(* A call is refused as "circuit_open" only if its agent, or the issuer of *)
(* its token, failed recently: once both have answered for the longest     *)
(* request plus one cooldown, the circuit admits calls again, whatever     *)
(* late failures were still on their way when they recovered.              *)
CalmAgentIsServed ==
    \A f \in Agents \ McpAgents : ~Admits(f) => calm[f] < Horizon

(* In strict mode a call goes past its policy only if the request for the  *)
(* policy failed just then, or some document it could have been shown      *)
(* within the cache's lifetime and one request allowed it: a withdrawn     *)
(* permission stops being used, however calls and refreshes overlap.       *)
PastPolicy(c) ==
    /\ At(c, {"idle", "policyWait", "policyFetch"})
    /\ At(c, {"tokenWait", "tokenFetch", "sent"})'

PolicyFailed(c) == At(c, {"policyFetch"}) /\ documents[call[c].agent].fresh = 0
                   /\ documents' = documents

PermissionIsRecent ==
    [][\A c \in Calls :
         LET f == call'[c].agent IN
         /\ PolicyMode = "strict" /\ PastPolicy(c) /\ ~PolicyFailed(c)
         /\ policy[f] = "deny"
         => lapse[f] < Staleness]_vars

(* A cached token that calls may still attach has not expired at the       *)
(* issuer, however long the answer that carried it took.                   *)
CachedTokenIsAlive == token.fresh > 0 => token.alive > 0

(* "Concurrent apply() calls will not stampede the token endpoint" and     *)
(* "double-check locking to prevent stampede": one request at a time for   *)
(* a token and for a policy, and none for what is cached and fresh.        *)
NoStampede ==
    /\ Cardinality({c \in Calls : At(c, {"tokenFetch"})}) <= 1
    /\ Cardinality({c \in Calls : At(c, {"policyFetch"})}) <= 1
    /\ \A c \in Calls :
          /\ At(c, {"tokenFetch"}) => token.fresh = 0
          /\ At(c, {"policyFetch"}) => ~Fresh(call[c].agent)

(* Every call ends: no order of waiting, failing and giving up leaves a    *)
(* lock held or a waiter behind.                                           *)
EveryCallEnds ==
    \A c \in Calls : call[c].at # "idle" ~> call[c].at = "idle"

(* An agent that answers, with an issuer that answers and a policy that    *)
(* allows, ends up with a closed circuit that stays closed: it is not left *)
(* open or half open by calls that ended without a report.                 *)
CircuitCloses ==
    \A f \in Agents :
        <>[]({f, Issuer} \subseteq up /\ policy[f] = "allow")
            => <>[](circuits[f].state = "closed")

(* Nothing stays broken: neither a call nor the circuit of an agent that   *)
(* works again is left waiting for something that will not come.           *)
NothingIsStranded == EveryCallEnds /\ CircuitCloses
=============================================================================
