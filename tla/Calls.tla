-------------------------------- MODULE Calls --------------------------------
(***************************************************************************)
(* Calling an agent from the command line and from the MCP server: the     *)
(* bridge of the server's tools to a pool of worker threads                *)
(* (mcp/server.py), the policy guard (sdk/policy/guard.py), the resolution *)
(* of the endpoint (core/invoke.py, core/a2a_card.py) and the two          *)
(* transports of the MCP handler (sdk/protocols/mcp.py).  A tool that      *)
(* waits longer than its timeout answers; its job is not cancelled.        *)
(***************************************************************************)
EXTENDS Naturals, Sequences, FiniteSets

CONSTANTS
  Tools,       \* the calls made, in turn: 1 .. n
  Workers,     \* threads of the pool
  Requests,    \* what may be asked for
  Agents,      \* what the other side may be like
  MaxTroubles  \* bound: requests that fail or whose answer is lost

VARIABLES
  agent,     \* the agent and its policy
  call,      \* per call, what was asked for and what was answered
  job,       \* per call, the coroutine that runs for it
  contacted, \* per call, the URL the request was sent to
  executed,  \* (ghost) per call, how often the agent did what was asked
  troubles   \* (ghost) per call, the requests that went wrong

caVars == <<agent, call, job, contacted, executed, troubles>>

NoUrl == [host |-> "", path |-> ""]
Url(host, path) == [host |-> host, path |-> path]
IsUrl(url) == url = Url(url.host, url.path)

ASSUME CallsAssumption ==
  /\ \A a \in Agents : IsUrl(a.lives)
  /\ \A request \in Requests : IsUrl(request.endpoint)
  /\ IsFiniteSet(Tools) /\ {Workers, MaxTroubles} \subseteq Nat

NoRequest == [kind |-> "", front |-> "", endpoint |-> NoUrl, named |-> FALSE, policy |-> FALSE]
NoJob == [what |-> "", stage |-> "over", target |-> NoUrl, record |-> FALSE]

Queued(what) == [NoJob EXCEPT !.what = what, !.stage = "queued"]
Invoking == [NoJob EXCEPT !.what = "call", !.stage = "resolve"]

caInit ==
  /\ agent \in Agents
  /\ call = [c \in Tools |-> [request |-> NoRequest, answer |-> "none"]]
  /\ job = [c \in Tools |-> NoJob]
  /\ contacted = [c \in Tools |-> NoUrl]
  /\ executed = [c \in Tools |-> 0]
  /\ troubles = [c \in Tools |-> 0]

Asked_(c) == call[c].request
Waits(c) == Asked_(c) # NoRequest /\ call[c].answer = "none"
Running == {c \in Tools : job[c].stage \notin {"queued", "over"} /\ Asked_(c).front = "server"}
TroubleLeft(c) == troubles[c] < MaxTroubles
Troubled(c) == TroubleLeft(c) /\ troubles' = [troubles EXCEPT ![c] = @ + 1]
Calm == UNCHANGED troubles

\* A job that ends answers its call, unless that call has been answered.
Over(c, answer) ==
  /\ job' = [job EXCEPT ![c] = NoJob]
  /\ call' = IF Waits(c) THEN [call EXCEPT ![c].answer = answer] ELSE call
Goes_(c, stage) == job' = [job EXCEPT ![c].stage = stage] /\ UNCHANGED call
Executes(c) == executed' = [executed EXCEPT ![c] = @ + 1]
Executed0 == UNCHANGED executed

(* One call after another: the server runs one tool at a time.             *)
Starts(c, request, first) ==
  /\ Asked_(c) = NoRequest
  /\ \A d \in Tools : d < c => call[d].answer # "none"
  /\ call' = [call EXCEPT ![c].request = request]
  /\ job' = [job EXCEPT ![c] = first]
  /\ Calm /\ Executed0 /\ UNCHANGED <<agent, contacted>>

(* A message needs an endpoint, or a domain and a name.                    *)
Refuses(c, request) ==
  /\ Asked_(c) = NoRequest /\ request.kind = "message"
  /\ \A d \in Tools : d < c => call[d].answer # "none"
  /\ request.endpoint = NoUrl /\ ~ request.named
  /\ call' = [call EXCEPT ![c] = [request |-> request, answer |-> "failure"]]
  /\ Calm /\ Executed0 /\ UNCHANGED <<agent, job, contacted>>
Addressed(request) == request.endpoint # NoUrl \/ request.named

(* The server's tools: guard and call are two jobs; the list has no guard. *)
SendMessage(c, request) ==
  /\ request.front = "server" /\ request.kind = "message"
  /\ Refuses(c, request) \/ (Addressed(request) /\ Starts(c, request, Queued("guard")))
CallAgentTool(c, request) ==
  request.front = "server" /\ request.kind = "call" /\ Starts(c, request, Queued("guard"))
ListAgentTools(c, request) ==
  request.front = "server" /\ request.kind = "list" /\ Starts(c, request, Queued("call"))

(* The commands run the coroutine themselves, with no guard before it.     *)
MessageCommand(c, request) ==
  /\ request.front = "cli" /\ request.kind = "message"
  /\ Refuses(c, request) \/ (Addressed(request) /\ Starts(c, request, Invoking))
ToolCommand(c, request) ==
  request.front = "cli" /\ request.kind # "message" /\ Starts(c, request, Invoking)

(* _run_async: the job waits for a worker, the tool for the job; a tool    *)
(* whose time is over answers, and leaves its job in the pool.  FastMCP    *)
(* runs a tool inside its event loop, so the branch for a thread without   *)
(* one, which runs the coroutine there and has no timeout, is that of the  *)
(* front "cli".                                                            *)
HasFreeWorker_OneMore == Cardinality(Running) <= Workers
HasFreeWorker == Cardinality(Running) < Workers

Take(c) ==
  /\ job[c].stage = "queued"
  /\ HasFreeWorker
  /\ Goes_(c, IF job[c].what = "guard" THEN "guard" ELSE "resolve")
  /\ Calm /\ Executed0 /\ UNCHANGED <<agent, contacted>>

Expires_Running(c) == job[c].stage # "queued"
Expires(c) == TRUE

Expire(c) ==
  /\ Waits(c) /\ Asked_(c).front = "server" /\ job[c].stage # "over"
  /\ Expires(c)
  /\ call' = [call EXCEPT ![c].answer = "timeout"]
  /\ Calm /\ Executed0 /\ UNCHANGED <<agent, job, contacted>>

(* check_target_policy: a fetch that fails lets pass; a denial ends the    *)
(* tool in strict mode only.  The server names the tool in the method.     *)
GuardMethod(c) == IF Asked_(c).kind = "call" THEN "tools/call:tool" ELSE "message/send"
ClientMethod(c) == CASE Asked_(c).kind = "call" -> "tools/call"
                     [] Asked_(c).kind = "list" -> "tools/list"
                     [] OTHER -> "message/send"
Admitted(method) == agent.methods = {} \/ method \in agent.methods

Guard(c) ==
  LET denied == Asked_(c).policy /\ ~ Admitted(GuardMethod(c)) IN
  /\ job[c].stage = "guard"
  /\ \/ /\ denied /\ agent.strict
        /\ Over(c, "denied") /\ Calm
     \/ /\ ~ (denied /\ agent.strict)
        /\ Calm /\ UNCHANGED call
        /\ job' = [job EXCEPT ![c] = IF Waits(c) THEN Queued("call") ELSE NoJob]
     \/ /\ Asked_(c).policy /\ Troubled(c) /\ UNCHANGED call
        /\ job' = [job EXCEPT ![c] = IF Waits(c) THEN Queued("call") ELSE NoJob]
  /\ Executed0 /\ UNCHANGED <<agent, contacted>>

(* resolve_mcp_endpoint: a path is kept; agent.json names one; otherwise   *)
(* the convention.                                                         *)
McpEndpoint(url, answered) ==
  IF url.path # "" THEN url
  ELSE Url(url.host, IF answered /\ agent.json # "" THEN agent.json ELSE "mcp")

(* resolve_a2a_endpoint: discovery, then the agent card, whose URL counts  *)
(* on the host it was fetched from only; then the endpoint as given.       *)
CardUrl(url, answered) ==
  IF answered /\ agent.card.host = url.host THEN agent.card ELSE url

Resolve_(c) ==
  LET request == Asked_(c)
      found == request.kind = "message" /\ request.named /\ agent.listed
      Resolved(target, record) ==
        /\ job' = [job EXCEPT ![c] = [@ EXCEPT !.stage = "policy", !.target = target,
                                               !.record = record]]
        /\ UNCHANGED call
      From(url, answered, record) ==
        Resolved(IF request.kind = "message" THEN CardUrl(url, answered)
                 ELSE McpEndpoint(url, answered), record)
  IN
  /\ job[c].stage = "resolve"
  /\ \/ found /\ From(agent.at, TRUE, TRUE) /\ Calm
     \/ found /\ From(agent.at, FALSE, TRUE) /\ Troubled(c)
     \/ /\ request.endpoint # NoUrl /\ ~ found
        /\ From(request.endpoint, TRUE, FALSE) /\ Calm
     \/ /\ request.endpoint # NoUrl /\ ~ found
        /\ From(request.endpoint, FALSE, FALSE) /\ Troubled(c)
     \/ /\ found /\ Troubled(c)  \* the discovery fails
        /\ IF request.endpoint = NoUrl THEN Over(c, "failure")
           ELSE From(request.endpoint, TRUE, FALSE)
     \/ request.endpoint = NoUrl /\ ~ found /\ Over(c, "failure") /\ Calm
  /\ Executed0 /\ UNCHANGED <<agent, contacted>>

(* _invoke_via_sdk: the discovered record is called where it was found,    *)
(* anything else where it was resolved; AgentClient evaluates the policy   *)
(* of the record or of the request.                                        *)
Contact(c) == IF job[c].record THEN agent.at ELSE job[c].target

Judge_(c) ==
  LET denied == (job[c].record \/ Asked_(c).policy) /\ ~ Admitted(ClientMethod(c)) IN
  /\ job[c].stage = "policy"
  /\ \/ denied /\ agent.strict /\ Over(c, "denied") /\ Calm /\ UNCHANGED contacted
     \/ /\ contacted' = [contacted EXCEPT ![c] = Contact(c)]
        /\ Goes_(c, IF Asked_(c).kind = "message" THEN "post" ELSE "initialize")
        /\ \/ ~ (denied /\ agent.strict) /\ Calm
           \/ (job[c].record \/ Asked_(c).policy) /\ Troubled(c)
  /\ Executed0 /\ UNCHANGED agent

(* _classify_transport_failure: 405, 406 and an unknown method say that    *)
(* the transport is not spoken; every other failure is final.              *)
Mismatches_Timeout(failure) == failure \in {"405", "406", "-32601", "timeout"}
Mismatches(failure) == failure \in {"405", "406", "-32601"}

Failed(c, failure) ==
  IF Mismatches(failure) THEN Goes_(c, "post") ELSE Over(c, "failure")

Serves(c) == contacted[c] = agent.lives
Refusals == {"405", "406", "-32601"}

Initialize(c) ==
  /\ job[c].stage = "initialize"
  /\ \/ Serves(c) /\ agent.modern /\ Goes_(c, "request") /\ Calm
     \/ Serves(c) /\ ~ agent.modern /\ Calm /\ \E r \in Refusals : Failed(c, r)
     \/ ~ Serves(c) /\ Failed(c, "404") /\ Calm
     \/ Troubled(c) /\ \E f \in {"timeout", "connect"} : Failed(c, f)
  /\ Executed0 /\ UNCHANGED <<agent, contacted>>

(* The request of a session and the plain POST of the legacy transport:    *)
(* done and answered, done and not answered, not done.                     *)
Outcome(c, isError) == IF isError THEN "failure" ELSE "success"

CallTool(c) ==
  /\ job[c].stage = "request"
  /\ \/ Executes(c) /\ Calm /\ \E isError \in BOOLEAN :
          /\ isError => Asked_(c).kind = "call"
          /\ Over(c, Outcome(c, isError))
     \/ Executes(c) /\ Troubled(c) /\ Failed(c, "timeout")
     \/ Executed0 /\ Troubled(c) /\ \E f \in {"timeout", "connect", "-32601"} : Failed(c, f)
  /\ UNCHANGED <<agent, contacted>>

PostLegacy(c) ==
  /\ job[c].stage = "post" /\ Asked_(c).kind # "message"
  /\ \/ Serves(c) /\ Executes(c) /\ Calm /\ Over(c, "success")
     \/ Serves(c) /\ Executes(c) /\ Troubled(c) /\ Over(c, "failure")
     \/ Executed0 /\ Troubled(c) /\ Over(c, "failure")
     \/ (~ Serves(c) \/ agent.modern) /\ Executed0 /\ Calm /\ Over(c, "failure")
  /\ UNCHANGED <<agent, contacted>>

(* A2A takes every answer below 400 for success: a JSON-RPC error of the   *)
(* agent, and whatever a host that is no agent serves at that path.        *)
PostMessage(c) ==
  /\ job[c].stage = "post" /\ Asked_(c).kind = "message"
  /\ \/ Serves(c) /\ Executes(c) /\ Calm /\ Over(c, "success")
     \/ Serves(c) /\ Executes(c) /\ Troubled(c) /\ Over(c, "failure")
     \/ Executed0 /\ Troubled(c) /\ Over(c, "failure")
     \/ Serves(c) /\ Executed0 /\ Troubled(c) /\ Over(c, "success")
     \/ /\ ~ Serves(c) /\ Executed0 /\ Calm
        /\ \E answer \in {"failure", "success"} : Over(c, answer)
  /\ UNCHANGED <<agent, contacted>>

Step_(c) ==
  \/ Guard(c) \/ Resolve_(c) \/ Judge_(c) \/ Initialize(c) \/ CallTool(c)
  \/ PostLegacy(c) \/ PostMessage(c)

caNext ==
  \E c \in Tools :
    \/ \E request \in Requests :
         \/ SendMessage(c, request) \/ CallAgentTool(c, request) \/ ListAgentTools(c, request)
         \/ MessageCommand(c, request) \/ ToolCommand(c, request)
    \/ Take(c)
    \/ Expire(c)
    \/ Step_(c)

(* A future's wait ends by the clock; nothing is assumed of the network. *)
caFair == \A c \in Tools : WF_caVars(Expire(c))
caSpec == caInit /\ [][caNext]_caVars /\ caFair

-----------------------------------------------------------------------------
caTypeOK ==
  /\ \A c \in Tools : call[c].answer \in {"none", "success", "failure", "denied", "timeout"}
  /\ \A c \in Tools : troubles[c] \in 0 .. MaxTroubles
  /\ Cardinality(Running) <= Workers

(* A tool is not run twice for one call, although the handler falls back   *)
(* to a second transport (protocols/mcp.py:279-312) and answers get lost.  *)
AtMostOnce == \A c \in Tools : executed[c] <= 1

(* A call answered with success was done and one denied by a policy was    *)
(* not, whatever the abandoned jobs of earlier calls still do.  An A2A     *)
(* message that is not done is answered with success only if the agent     *)
(* refused it in an answer that says 200, or where no agent lives          *)
(* (sdk/protocols/a2a.py:167-203 looks at the status only).                *)
AnswersAreHonest ==
  \A c \in Tools :
    /\ call[c].answer = "success" =>
         \/ executed[c] = 1
         \/ Asked_(c).kind = "message" /\ (troubles[c] > 0 \/ contacted[c] # agent.lives)
    /\ call[c].answer = "denied" => executed[c] = 0

(* A call during which nothing went wrong succeeds where the policy admits *)
(* it under both names and the agent lives where its agent.json, the /mcp  *)
(* convention, the given path or its card says (core/invoke.py:186-230,    *)
(* 551-566), over either transport; a tool may still report its own error. *)
Published(c) ==
  LET request == Asked_(c) IN
  IF request.kind = "message"
  THEN ~ (request.named /\ agent.listed)
       /\ agent.lives = IF agent.card.host = request.endpoint.host THEN agent.card
                        ELSE request.endpoint
  ELSE agent.lives.host = request.endpoint.host
       /\ agent.lives.path \in (IF request.endpoint.path # "" THEN {request.endpoint.path}
                                ELSE {IF agent.json = "" THEN "mcp" ELSE agent.json})

CalmCallIsDone ==
  \A c \in Tools :
    (/\ call[c].answer \in {"failure", "denied"} /\ troubles[c] = 0
     /\ Asked_(c).endpoint # NoUrl /\ Published(c)
     /\ agent.methods = {} \/ {"tools/call", "tools/call:tool", "tools/list", "message/send"}
                                \subseteq agent.methods)
      => executed[c] = 1

CallsAreHonest == AtMostOnce /\ AnswersAreHonest /\ CalmCallIsDone

(* Every tool of the server answers, with every worker hanging and the     *)
(* job still in the queue (mcp/server.py:219-224).                         *)
EveryToolAnswers ==
  \A c \in Tools : (Waits(c) /\ Asked_(c).front = "server") ~> call[c].answer # "none"

=============================================================================
