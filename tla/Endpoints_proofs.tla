-------------------------- MODULE Endpoints_proofs ---------------------------
(***************************************************************************)
(* Proofs about what is done with one agent, whatever the number of calls, *)
(* workers, addresses, certificates, associations, names and troubles.     *)
(* Calls: no tool runs twice and no answer is a lie.  A job that still     *)
(* runs has done nothing yet: the second transport is tried only by a job  *)
(* whose first request was refused, and what an abandoned job does comes   *)
(* after an answer that claims nothing.                                    *)
(* Signed records: what a verified record shows was signed, whoever edits  *)
(* or copies records; signatures are only moved.                           *)
(* Verification: a verdict rests on the certificate that was met.  The     *)
(* invariant keeps the place of the comparison in the kept associations    *)
(* and what the counters owe to those before it, and, of a rollover, which *)
(* answers may still be in use at which stage.                             *)
(***************************************************************************)
EXTENDS MCEndpoints, Selection_proofs

-----------------------------------------------------------------------------
(* Calls.                                                                  *)

Stages == {"queued", "over", "guard", "resolve", "policy", "initialize", "request", "post"}

(* The fields of a call and of a job are where the steps change them.      *)
IsCall(k) == DOMAIN k = {"request", "answer"}
IsJob(j) == DOMAIN j = {"what", "stage", "target", "record"} /\ j.stage \in Stages

Shapes ==
  /\ call = [c \in Tools |-> call[c]] /\ job = [c \in Tools |-> job[c]]
  /\ executed = [c \in Tools |-> executed[c]]
  /\ \A c \in Tools : IsCall(call[c]) /\ IsJob(job[c])

(* A call that was not made has no job; a job that runs has done nothing.  *)
Untouched(c) ==
  /\ call[c].request = NoRequest => job[c].stage = "over" /\ call[c].answer = "none"
  /\ job[c].stage # "over" \/ call[c].request = NoRequest => executed[c] = 0

(* An answer that claims something is the end of its job.                  *)
Final(c) ==
  /\ executed[c] \in {0, 1}
  /\ call[c].answer = "success" =>
       job[c].stage = "over" /\ (executed[c] = 1 \/ call[c].request.kind = "message")
  /\ call[c].answer = "denied" => job[c].stage = "over" /\ executed[c] = 0

CallInv == Shapes /\ \A c \in Tools : Untouched(c) /\ Final(c)

(* What the requests that a tool starts have in common.                    *)
LEMMA NoRequestHasNoFront ==
  ASSUME NEW r, r.front \in {"server", "cli"}
  PROVE  r # NoRequest
  <1>1. NoRequest.front = ""
    BY DEF NoRequest
  <1> QED
    BY <1>1

LEMMA JobShapes ==
  /\ IsJob(NoJob) /\ NoJob.stage = "over"
  /\ \A what \in {"guard", "call"} : IsJob(Queued(what)) /\ Queued(what).stage = "queued"
  /\ IsJob(Invoking) /\ Invoking.stage = "resolve"
  BY DEF IsJob, NoJob, Queued, Invoking, Stages

(* A job that goes on, or begins, leaves a record of nothing done.         *)
LEMMA GoingOn ==
  ASSUME CallInv, NEW c \in Tools, NEW stage \in Stages \ {"over"},
         job[c].stage # "over", Goes_(c, stage), UNCHANGED executed
  PROVE  CallInv'
  <1>1. call' = call /\ job' = [job EXCEPT ![c].stage = stage] /\ executed' = executed
    BY DEF Goes_
  <1>2. /\ IsJob(job'[c]) /\ job'[c].stage = stage
        /\ \A d \in Tools : d # c => job'[d] = job[d]
        /\ job' = [d \in Tools |-> job'[d]]
    BY <1>1 DEF CallInv, Shapes, IsJob
  <1>3. Shapes'
    BY <1>1, <1>2 DEF CallInv, Shapes, IsCall, IsJob
  <1>4. ASSUME NEW d \in Tools PROVE (Untouched(d) /\ Final(d))'
    BY <1>1, <1>2 DEF CallInv, Untouched, Final
  <1> QED
    BY <1>3, <1>4 DEF CallInv

(* So does one that is replaced by another, as a guard by its call.        *)
LEMMA Replaced ==
  ASSUME CallInv, NEW c \in Tools, NEW new, IsJob(new), job[c].stage # "over",
         job' = [job EXCEPT ![c] = new], UNCHANGED <<call, executed>>
  PROVE  CallInv'
  <1>1. /\ job'[c] = new /\ \A d \in Tools : d # c => job'[d] = job[d]
        /\ job' = [d \in Tools |-> job'[d]]
    BY DEF CallInv, Shapes
  <1>2. Shapes'
    BY <1>1 DEF CallInv, Shapes, IsCall, IsJob
  <1>3. ASSUME NEW d \in Tools PROVE (Untouched(d) /\ Final(d))'
    BY <1>1 DEF CallInv, Untouched, Final
  <1> QED
    BY <1>2, <1>3 DEF CallInv

(* A job that ends has done what its answer claims.                        *)
LEMMA Ending ==
  ASSUME CallInv, NEW c \in Tools, NEW answer, answer # "none", job[c].stage # "over",
         Over(c, answer), executed' = executed \/ Executes(c),
         answer = "success" => Executes(c) \/ Asked_(c).kind = "message",
         answer = "denied" => executed' = executed
  PROVE  CallInv'
  <1>1. /\ job' = [job EXCEPT ![c] = NoJob]
        /\ \/ call' = call /\ call[c].answer # "none"
           \/ call' = [call EXCEPT ![c].answer = answer]
    BY DEF Over, Waits, Asked_, CallInv, Untouched
  <1>2. /\ job'[c].stage = "over" /\ IsJob(job'[c])
        /\ \A d \in Tools : d # c => job'[d] = job[d]
        /\ job' = [d \in Tools |-> job'[d]]
    BY <1>1, JobShapes DEF CallInv, Shapes
  <1>3. executed[c] = 0 /\ executed'[c] \in {0, 1}
        /\ (Executes(c) => executed'[c] = 1) /\ (executed' = executed => executed'[c] = 0)
        /\ \A d \in Tools : d # c => executed'[d] = executed[d]
    BY DEF CallInv, Shapes, Untouched, Executes
  <1>4. /\ call'[c].request = call[c].request /\ IsCall(call'[c])
        /\ call'[c].answer = answer \/ call'[c].answer = call[c].answer
        /\ \A d \in Tools : d # c => call'[d] = call[d]
        /\ call' = [d \in Tools |-> call'[d]]
    BY <1>1 DEF CallInv, Shapes, IsCall
  <1>5. call[c].request # NoRequest /\ call[c].answer \notin {"success", "denied"}
    BY DEF CallInv, Untouched, Final
  <1>6. Shapes'
    <2>1. ASSUME NEW d \in Tools PROVE IsCall(call'[d]) /\ IsJob(job'[d])
      BY <1>2, <1>4 DEF CallInv, Shapes
    <2>2. (\A d \in Tools : IsCall(call[d]) /\ IsJob(job[d]))'
      BY <2>1 DEF IsCall, IsJob
    <2>3. (call = [d \in Tools |-> call[d]] /\ job = [d \in Tools |-> job[d]])'
      BY <1>2, <1>4
    <2>4. (executed = [d \in Tools |-> executed[d]])'
      BY DEF CallInv, Shapes, Executes
    <2> QED
      BY <2>2, <2>3, <2>4 DEF Shapes
  <1>7. (Untouched(c) /\ Final(c))'
    BY <1>2, <1>3, <1>4, <1>5 DEF Untouched, Final, Asked_
  <1>8. ASSUME NEW d \in Tools, d # c PROVE (Untouched(d) /\ Final(d))'
    BY <1>2, <1>3, <1>4, <1>8 DEF CallInv, Untouched, Final
  <1> QED
    BY <1>6, <1>7, <1>8 DEF CallInv

(* A call is made with a job, or refused without one.                      *)
LEMMA Making ==
  ASSUME CallInv, NEW c \in Tools, NEW r, r.front \in {"server", "cli"},
         NEW first, IsJob(first), first.stage # "over", Starts(c, r, first)
  PROVE  CallInv'
  <1>1. /\ call' = [call EXCEPT ![c].request = r] /\ job' = [job EXCEPT ![c] = first]
        /\ executed' = executed /\ call[c].request = NoRequest
    BY DEF Starts, Executed0, Asked_
  <1>2. /\ call'[c].request = r /\ call'[c].answer = "none" /\ IsCall(call'[c])
        /\ job'[c] = first /\ executed[c] = 0
    BY <1>1 DEF CallInv, Shapes, IsCall, Untouched
  <1>3. \A d \in Tools : d # c => call'[d] = call[d] /\ job'[d] = job[d]
    BY <1>1 DEF CallInv, Shapes
  <1>4. call' = [d \in Tools |-> call'[d]] /\ job' = [d \in Tools |-> job'[d]]
    BY <1>1 DEF CallInv, Shapes
  <1>5. Shapes'
    BY <1>1, <1>2, <1>3, <1>4 DEF CallInv, Shapes
  <1>6. ASSUME NEW d \in Tools PROVE (Untouched(d) /\ Final(d))'
    BY <1>1, <1>2, <1>3, NoRequestHasNoFront DEF CallInv, Untouched, Final
  <1> QED
    BY <1>5, <1>6 DEF CallInv

LEMMA Refusing ==
  ASSUME CallInv, NEW c \in Tools, NEW r, r.front \in {"server", "cli"}, Refuses(c, r)
  PROVE  CallInv'
  <1>1. /\ call' = [call EXCEPT ![c] = [request |-> r, answer |-> "failure"]]
        /\ job' = job /\ executed' = executed /\ call[c].request = NoRequest
    BY DEF Refuses, Executed0, Asked_
  <1>2. /\ call'[c].request = r /\ call'[c].answer = "failure" /\ IsCall(call'[c])
        /\ \A d \in Tools : d # c => call'[d] = call[d]
        /\ call' = [d \in Tools |-> call'[d]]
    BY <1>1 DEF CallInv, Shapes, IsCall
  <1>3. Shapes'
    BY <1>1, <1>2 DEF CallInv, Shapes
  <1>4. ASSUME NEW d \in Tools PROVE (Untouched(d) /\ Final(d))'
    BY <1>1, <1>2, NoRequestHasNoFront DEF CallInv, Untouched, Final
  <1> QED
    BY <1>3, <1>4 DEF CallInv

-----------------------------------------------------------------------------
(* One lemma per handler.                                                  *)

LEMMA GuardKeeps == ASSUME CallInv, NEW c \in Tools, Guard(c) PROVE CallInv'
  <1> DEFINE next == IF Waits(c) THEN Queued("call") ELSE NoJob
  <1>1. job[c].stage = "guard" /\ executed' = executed
    BY DEF Guard, Executed0
  <1>2. CASE Over(c, "denied")
    BY <1>1, <1>2, Ending
  <1>3. CASE UNCHANGED call /\ job' = [job EXCEPT ![c] = next]
    <2>1. IsJob(next)
      BY JobShapes
    <2> HIDE DEF next
    <2> QED
      BY <1>1, <1>3, <2>1, Replaced
  <1> QED
    BY <1>2, <1>3 DEF Guard

(* A failure of the transport goes on to the second one or ends the call.  *)
LEMMA FailedKeeps ==
  ASSUME CallInv, NEW c \in Tools, NEW failure, Failed(c, failure), job[c].stage # "over",
         executed' = executed
  PROVE  CallInv'
  <1>1. CASE Goes_(c, "post")
    BY <1>1, GoingOn DEF Stages
  <1>2. CASE Over(c, "failure")
    BY <1>2, Ending
  <1> QED
    BY <1>1, <1>2 DEF Failed

LEMMA InitializeKeeps == ASSUME CallInv, NEW c \in Tools, Initialize(c) PROVE CallInv'
  <1>1. job[c].stage = "initialize" /\ executed' = executed
    BY DEF Initialize, Executed0
  <1>2. CASE Goes_(c, "request")
    BY <1>1, <1>2, GoingOn DEF Stages
  <1>3. ASSUME NEW f, Failed(c, f) PROVE CallInv'
    BY <1>1, <1>3, FailedKeeps
  <1> QED
    BY <1>2, <1>3 DEF Initialize

(* A request that was done is not tried again: its time-out is final.      *)
LEMMA CallToolKeeps == ASSUME CallInv, NEW c \in Tools, CallTool(c) PROVE CallInv'
  <1>1. job[c].stage = "request"
    BY DEF CallTool
  <1>2. ASSUME Executes(c), NEW isError \in BOOLEAN, Over(c, Outcome(c, isError)) PROVE CallInv'
    <2>1. Outcome(c, isError) \in {"failure", "success"}
      BY DEF Outcome
    <2> QED
      BY <1>1, <1>2, <2>1, Ending
  <1>3. CASE Executes(c) /\ Failed(c, "timeout")
    <2>1. Over(c, "failure")
      BY <1>3 DEF Failed, Mismatches
    <2> QED
      BY <1>1, <1>3, <2>1, Ending
  <1>4. ASSUME Executed0, NEW f, Failed(c, f) PROVE CallInv'
    BY <1>1, <1>4, FailedKeeps DEF Executed0
  <1> QED
    BY <1>2, <1>3, <1>4 DEF CallTool

LEMMA PostLegacyKeeps == ASSUME CallInv, NEW c \in Tools, PostLegacy(c) PROVE CallInv'
  <1>1. job[c].stage = "post"
    BY DEF PostLegacy
  <1>2. CASE Executes(c) /\ Over(c, "success")
    BY <1>1, <1>2, Ending
  <1>3. CASE Executes(c) /\ Over(c, "failure")
    BY <1>1, <1>3, Ending
  <1>4. CASE Executed0 /\ Over(c, "failure")
    BY <1>1, <1>4, Ending DEF Executed0
  <1> QED
    BY <1>2, <1>3, <1>4 DEF PostLegacy

LEMMA PostMessageKeeps == ASSUME CallInv, NEW c \in Tools, PostMessage(c) PROVE CallInv'
  <1>1. job[c].stage = "post" /\ Asked_(c).kind = "message"
    BY DEF PostMessage
  <1>2. ASSUME NEW answer \in {"failure", "success"}, Over(c, answer),
               Executes(c) \/ Executed0
        PROVE  CallInv'
    BY <1>1, <1>2, Ending DEF Executed0
  <1> QED
    BY <1>2 DEF PostMessage

LEMMA JudgeKeeps == ASSUME CallInv, NEW c \in Tools, Judge_(c) PROVE CallInv'
  <1>1. job[c].stage = "policy" /\ executed' = executed
    BY DEF Judge_, Executed0
  <1>2. CASE Over(c, "denied")
    BY <1>1, <1>2, Ending
  <1>3. CASE Goes_(c, IF Asked_(c).kind = "message" THEN "post" ELSE "initialize")
    BY <1>1, <1>3, GoingOn DEF Stages
  <1> QED
    BY <1>2, <1>3 DEF Judge_

LEMMA ResolveKeeps == ASSUME CallInv, NEW c \in Tools, Resolve_(c) PROVE CallInv'
  <1> DEFINE Resolved(target, record) ==
        [job[c] EXCEPT !.stage = "policy", !.target = target, !.record = record]
  <1>1. job[c].stage = "resolve" /\ executed' = executed
    BY DEF Resolve_, Executed0
  <1>2. CASE Over(c, "failure")
    BY <1>1, <1>2, Ending
  <1>3. ASSUME NEW target, NEW record, UNCHANGED call,
               job' = [job EXCEPT ![c] = Resolved(target, record)]
        PROVE  CallInv'
    <2>1. IsJob(Resolved(target, record))
      BY DEF CallInv, Shapes, IsJob, Stages
    <2> HIDE DEF Resolved
    <2> QED
      BY <1>1, <1>3, <2>1, Replaced
  <1>4. Over(c, "failure") \/ \E target, record :
          UNCHANGED call /\ job' = [job EXCEPT ![c] = Resolved(target, record)]
    BY DEF Resolve_, CallInv, Shapes
  <1> QED
    BY <1>2, <1>3, <1>4

LEMMA CallInit == ASSUME caInit PROVE CallInv
  <1>1. Shapes
    BY JobShapes DEF caInit, Shapes, IsCall
  <1>2. ASSUME NEW c \in Tools PROVE Untouched(c) /\ Final(c)
    BY JobShapes DEF caInit, Untouched, Final
  <1> QED
    BY <1>1, <1>2 DEF CallInv

LEMMA CallNext == ASSUME CallInv, [caNext]_caVars PROVE CallInv'
  <1>1. ASSUME NEW c \in Tools, NEW r \in Requests,
               \/ SendMessage(c, r) \/ CallAgentTool(c, r) \/ ListAgentTools(c, r)
               \/ MessageCommand(c, r) \/ ToolCommand(c, r)
        PROVE  CallInv'
    <2>1. r.front \in {"server", "cli"}
      BY <1>1 DEF SendMessage, CallAgentTool, ListAgentTools, MessageCommand, ToolCommand
    <2>2. CASE Refuses(c, r)
      BY <2>1, <2>2, Refusing
    <2>3. ASSUME NEW what \in {"guard", "call"}, Starts(c, r, Queued(what)) PROVE CallInv'
      <3>1. IsJob(Queued(what)) /\ Queued(what).stage # "over"
        BY JobShapes
      <3> QED
        BY <2>1, <2>3, <3>1, Making
    <2>4. CASE Starts(c, r, Invoking)
      <3>1. IsJob(Invoking) /\ Invoking.stage # "over"
        BY JobShapes
      <3> QED
        BY <2>1, <2>4, <3>1, Making
    <2> QED
      BY <1>1, <2>2, <2>3, <2>4
         DEF SendMessage, CallAgentTool, ListAgentTools, MessageCommand, ToolCommand
  <1>2. ASSUME NEW c \in Tools, Take(c) PROVE CallInv'
    <2>1. PICK stage \in {"guard", "resolve"} : Goes_(c, stage)
      BY <1>2 DEF Take
    <2> QED
      BY <1>2, <2>1, GoingOn DEF Take, Executed0, Stages
  <1>3. ASSUME NEW c \in Tools, Expire(c) PROVE CallInv'
    <2>1. /\ call' = [call EXCEPT ![c].answer = "timeout"] /\ job' = job
          /\ executed' = executed /\ call[c].request # NoRequest
      BY <1>3 DEF Expire, Executed0, Waits, Asked_
    <2>2. /\ call'[c].request = call[c].request /\ call'[c].answer = "timeout"
          /\ IsCall(call'[c]) /\ \A d \in Tools : d # c => call'[d] = call[d]
          /\ call' = [d \in Tools |-> call'[d]]
      BY <2>1 DEF CallInv, Shapes, IsCall
    <2>3. Shapes'
      BY <2>1, <2>2 DEF CallInv, Shapes, IsCall, IsJob
    <2>4. ASSUME NEW d \in Tools PROVE (Untouched(d) /\ Final(d))'
      BY <2>1, <2>2 DEF CallInv, Untouched, Final
    <2> QED
      BY <2>3, <2>4 DEF CallInv
  <1>4. ASSUME NEW c \in Tools, Step_(c) PROVE CallInv'
    BY <1>4, GuardKeeps, ResolveKeeps, JudgeKeeps, InitializeKeeps, CallToolKeeps,
       PostLegacyKeeps, PostMessageKeeps DEF Step_
  <1>5. CASE UNCHANGED caVars
    BY <1>5 DEF caVars, CallInv, Shapes, Untouched, Final, IsCall, IsJob
  <1> QED
    BY <1>1, <1>2, <1>3, <1>4, <1>5 DEF caNext

-----------------------------------------------------------------------------
(* A call during which nothing goes wrong is done.                         *)

(* A call that is answered with success by right.                          *)
Undisturbed(c) ==
  /\ troubles[c] = 0 /\ Asked_(c).endpoint # NoUrl /\ Published(c)
  /\ agent.methods = {} \/ {"tools/call", "tools/call:tool", "tools/list", "message/send"}
                              \subseteq agent.methods

(* Where its job is: it was resolved to where the agent lives, and it goes *)
(* to the transport the agent speaks.                                      *)
OnTheWay(c) ==
  /\ call[c].answer \in {"failure", "denied"} => executed[c] = 1
  /\ job[c].stage = "policy" => job[c].target = agent.lives /\ ~ job[c].record
  /\ job[c].stage \in {"initialize", "request", "post"} => contacted[c] = agent.lives
  /\ job[c].stage \in {"initialize", "request"} => Asked_(c).kind # "message"
  /\ job[c].stage = "request" => agent.modern
  /\ job[c].stage = "post" => Asked_(c).kind = "message" \/ ~ agent.modern

Ranges ==
  /\ agent \in Agents
  /\ contacted = [c \in Tools |-> contacted[c]] /\ troubles = [c \in Tools |-> troubles[c]]
  /\ \A c \in Tools : troubles[c] \in Nat
  /\ \A c \in Tools : Asked_(c) = NoRequest \/ Asked_(c) \in Requests

(* A success that nothing was done for is a message's, and something went  *)
(* wrong or it was sent where the agent does not live.                     *)
Earned_(c) ==
  call[c].answer = "success" =>
    executed[c] = 1 \/ troubles[c] > 0 \/ contacted[c] # agent.lives

CalmInv ==
  CallInv /\ Ranges /\ \A c \in Tools : (Undisturbed(c) => OnTheWay(c)) /\ Earned_(c)

(* A step of c is nobody else's; troubles only grow.                       *)
Own(c) ==
  /\ agent' = agent
  /\ \A d \in Tools : d # c => /\ call'[d] = call[d] /\ job'[d] = job[d]
                                /\ executed'[d] = executed[d] /\ contacted'[d] = contacted[d]
                                /\ troubles'[d] = troubles[d]
  /\ contacted' = [d \in Tools |-> contacted'[d]] /\ troubles' = [d \in Tools |-> troubles'[d]]
  /\ troubles'[c] = troubles[c] \/ troubles'[c] = troubles[c] + 1

LEMMA TroublesGrow ==
  ASSUME CalmInv, NEW c \in Tools, Calm \/ Troubled(c)
  PROVE  /\ troubles' = [d \in Tools |-> troubles'[d]]
         /\ \A d \in Tools : d # c => troubles'[d] = troubles[d]
         /\ troubles'[c] = troubles[c] \/ troubles'[c] = troubles[c] + 1
  BY DEF CalmInv, Ranges, Calm, Troubled

LEMMA UndisturbedBefore ==
  ASSUME CalmInv, NEW c \in Tools, agent' = agent, call'[c].request = call[c].request,
         troubles'[c] = troubles[c] \/ troubles'[c] = troubles[c] + 1, Undisturbed(c)'
  PROVE  Undisturbed(c) /\ troubles'[c] = troubles[c] /\ ~ Troubled(c)
  <1>1. troubles'[c] = troubles[c] /\ troubles[c] = 0 /\ ~ Troubled(c)
    BY DEF CalmInv, Ranges, Undisturbed, Troubled
  <1>2. Undisturbed(c)
    BY <1>1 DEF Undisturbed, Published, Asked_
  <1> QED
    BY <1>1, <1>2

(* It is enough to look at the call whose step it is.                      *)
LEMMA CalmStep ==
  ASSUME CalmInv, CallInv', NEW c \in Tools, Own(c), call'[c].request = call[c].request,
         Undisturbed(c) /\ ~ Troubled(c) => OnTheWay(c)', Earned_(c)'
  PROVE  CalmInv'
  <1>1. Ranges'
    <2>1. agent' \in Agents
      BY DEF CalmInv, Ranges, Own
    <2>2. \A d \in Tools : troubles'[d] \in Nat
      BY DEF CalmInv, Ranges, Own
    <2>3. \A d \in Tools : call'[d].request = NoRequest \/ call'[d].request \in Requests
      BY DEF CalmInv, Ranges, Own, Asked_
    <2> QED
      BY <2>1, <2>2, <2>3 DEF Ranges, Own, Asked_
  <1>2. ASSUME NEW d \in Tools, Undisturbed(d)' PROVE OnTheWay(d)'
    <2>1. CASE d = c
      <3>1. Undisturbed(c) /\ ~ Troubled(c)
        BY <1>2, <2>1, UndisturbedBefore DEF Own
      <3> QED
        BY <2>1, <3>1
    <2>2. CASE d # c
      <3>1. Undisturbed(d)
        BY <1>2, <2>2 DEF Undisturbed, Published, Asked_, Own
      <3>2. OnTheWay(d)
        BY <3>1 DEF CalmInv
      <3> QED
        BY <2>2, <3>2 DEF OnTheWay, Asked_, Own
    <2> QED
      BY <2>1, <2>2
  <1>3. ASSUME NEW d \in Tools PROVE Earned_(d)'
    <2>1. CASE d = c
      BY <2>1
    <2>2. CASE d # c
      BY <2>2 DEF CalmInv, Earned_, Own
    <2> QED
      BY <2>1, <2>2
  <1> QED
    BY <1>1, <1>2, <1>3 DEF CalmInv

(* A job that runs has not succeeded, and does so only where it says so.   *)
LEMMA NotYetEarned ==
  ASSUME CalmInv, NEW c \in Tools, job[c].stage # "over",
         call'[c].answer = call[c].answer \/ call'[c].answer # "success"
  PROVE  Earned_(c)'
  BY DEF CalmInv, CallInv, Final, Earned_

(* What ends, goes on or is replaced, in terms of the call's own state.    *)
LEMMA OverSays ==
  ASSUME CalmInv, NEW c \in Tools, NEW answer, Over(c, answer)
  PROVE  /\ job'[c].stage = "over" /\ call'[c].request = call[c].request
         /\ call'[c].answer \in {answer, call[c].answer}
         /\ \A d \in Tools : d # c => call'[d] = call[d] /\ job'[d] = job[d]
  BY JobShapes DEF CalmInv, CallInv, Shapes, IsCall, Over

LEMMA GoesSays ==
  ASSUME CalmInv, NEW c \in Tools, NEW stage, Goes_(c, stage)
  PROVE  /\ job'[c].stage = stage /\ call' = call
         /\ \A d \in Tools : d # c => job'[d] = job[d]
  BY DEF CalmInv, CallInv, Shapes, IsJob, Goes_

LEMMA ExecutesSays ==
  ASSUME CalmInv, NEW c \in Tools, Executes(c) \/ Executed0
  PROVE  /\ \A d \in Tools : d # c => executed'[d] = executed[d]
         /\ (Executes(c) /\ job[c].stage # "over") => executed'[c] = 1
         /\ Executed0 => executed' = executed
  BY DEF CalmInv, CallInv, Shapes, Untouched, Executes, Executed0

(* An undisturbed call is admitted under every name it has.                *)
LEMMA UndisturbedIsAdmitted ==
  ASSUME NEW c \in Tools, Undisturbed(c)
  PROVE  Admitted(GuardMethod(c)) /\ Admitted(ClientMethod(c))
  BY DEF Undisturbed, Admitted, GuardMethod, ClientMethod

(* A call that is not answered with failure or denial yet.                 *)
LEMMA RunningIsOpen ==
  ASSUME CalmInv, NEW c \in Tools, Undisturbed(c), job[c].stage # "over"
  PROVE  OnTheWay(c) /\ call[c].answer \notin {"failure", "denied"}
  BY DEF CalmInv, CallInv, Untouched, OnTheWay

LEMMA GuardIsCalm == ASSUME CalmInv, NEW c \in Tools, Guard(c) PROVE CalmInv'
  <1> DEFINE next == IF Waits(c) THEN Queued("call") ELSE NoJob
             replaced == UNCHANGED call /\ job' = [job EXCEPT ![c] = next]
  <1>1. CallInv'
    BY GuardKeeps DEF CalmInv
  <1>2. /\ job[c].stage = "guard" /\ executed' = executed /\ agent' = agent
        /\ contacted' = contacted /\ (Calm \/ Troubled(c)) /\ (Over(c, "denied") \/ replaced)
        /\ replaced \/ ~ Admitted(GuardMethod(c))
    BY DEF Guard, Executed0
  <1>3. next.stage \in {"queued", "over"}
    BY JobShapes
  <1> HIDE DEF next
  <1>4. replaced => /\ call' = call /\ job'[c] = next
                    /\ \A d \in Tools : d # c => job'[d] = job[d]
    BY DEF CalmInv, CallInv, Shapes
  <1>5. Own(c) /\ call'[c].request = call[c].request
    BY <1>2, <1>4, OverSays, TroublesGrow DEF Own, CalmInv, Ranges
  <1>6. ASSUME Undisturbed(c), ~ Troubled(c) PROVE OnTheWay(c)'
    <2>1. replaced
      BY <1>2, <1>6, UndisturbedIsAdmitted
    <2> QED
      BY <1>2, <1>3, <1>4, <1>6, <2>1, RunningIsOpen DEF OnTheWay, Asked_
  <1>7. Earned_(c)'
    BY <1>2, <1>4, OverSays, NotYetEarned
  <1> QED
    BY <1>1, <1>5, <1>6, <1>7, CalmStep

LEMMA JudgeIsCalm == ASSUME CalmInv, NEW c \in Tools, Judge_(c) PROVE CalmInv'
  <1> DEFINE stage == IF Asked_(c).kind = "message" THEN "post" ELSE "initialize"
             goes == contacted' = [contacted EXCEPT ![c] = Contact(c)] /\ Goes_(c, stage)
  <1>1. CallInv'
    BY JudgeKeeps DEF CalmInv
  <1>2. /\ job[c].stage = "policy" /\ executed' = executed /\ agent' = agent
        /\ (Calm \/ Troubled(c)) /\ (goes \/ (Over(c, "denied") /\ contacted' = contacted))
        /\ goes \/ ~ Admitted(ClientMethod(c))
    BY DEF Judge_, Executed0
  <1>3. goes => /\ call' = call /\ job'[c].stage = stage /\ contacted'[c] = Contact(c)
                /\ contacted' = [d \in Tools |-> contacted'[d]]
                /\ \A d \in Tools : d # c => job'[d] = job[d] /\ contacted'[d] = contacted[d]
    BY GoesSays DEF CalmInv, Ranges
  <1>4. Own(c) /\ call'[c].request = call[c].request
    BY <1>2, <1>3, OverSays, TroublesGrow DEF Own, CalmInv, Ranges
  <1>5. ASSUME Undisturbed(c), ~ Troubled(c) PROVE OnTheWay(c)'
    <2>1. goes
      BY <1>2, <1>5, UndisturbedIsAdmitted
    <2>2. Contact(c) = agent.lives
      BY <1>2, <1>5, RunningIsOpen DEF OnTheWay, Contact
    <2>3. stage = "post" => Asked_(c).kind = "message"
      OBVIOUS
    <2>4. stage = "initialize" => Asked_(c).kind # "message"
      OBVIOUS
    <2>5. stage \in {"post", "initialize"}
      OBVIOUS
    <2> HIDE DEF stage
    <2> QED
      BY <1>2, <1>3, <1>5, <2>1, <2>2, <2>3, <2>4, <2>5, RunningIsOpen DEF OnTheWay, Asked_
  <1>6. Earned_(c)'
    BY <1>2, <1>3, OverSays, NotYetEarned
  <1> QED
    BY <1>1, <1>4, <1>5, <1>6, CalmStep

LEMMA FailedSays ==
  ASSUME CalmInv, NEW c \in Tools, NEW failure, Failed(c, failure)
  PROVE  /\ call'[c].request = call[c].request
         /\ call'[c].answer \in {"failure", call[c].answer}
         /\ \A d \in Tools : d # c => call'[d] = call[d] /\ job'[d] = job[d]
         /\ failure \in Refusals => call' = call /\ job'[c].stage = "post"
  <1>1. CASE Goes_(c, "post")
    BY <1>1, GoesSays
  <1>2. CASE ~ Mismatches(failure) /\ Over(c, "failure")
    BY <1>2, OverSays DEF Mismatches, Refusals
  <1> QED
    BY <1>1, <1>2 DEF Failed

LEMMA InitializeIsCalm == ASSUME CalmInv, NEW c \in Tools, Initialize(c) PROVE CalmInv'
  <1>1. CallInv'
    BY InitializeKeeps DEF CalmInv
  <1>2. /\ job[c].stage = "initialize" /\ executed' = executed /\ agent' = agent
        /\ contacted' = contacted /\ (Calm \/ Troubled(c))
        /\ Goes_(c, "request") \/ \E f : Failed(c, f)
    BY DEF Initialize, Executed0
  <1>3. /\ call'[c].request = call[c].request
        /\ call'[c].answer \in {"failure", call[c].answer}
        /\ \A d \in Tools : d # c => call'[d] = call[d] /\ job'[d] = job[d]
    BY <1>2, GoesSays, FailedSays
  <1>4. Own(c)
    BY <1>2, <1>3, TroublesGrow DEF Own, CalmInv, Ranges
  <1>5. ASSUME Undisturbed(c), ~ Troubled(c) PROVE OnTheWay(c)'
    <2>1. OnTheWay(c) /\ Serves(c) /\ call[c].answer \notin {"failure", "denied"}
      BY <1>2, <1>5, RunningIsOpen DEF OnTheWay, Serves
    <2>2. CASE agent.modern /\ Goes_(c, "request")
      BY <1>2, <2>1, <2>2, GoesSays DEF OnTheWay, Asked_
    <2>3. ASSUME ~ agent.modern, NEW r \in Refusals, Failed(c, r) PROVE OnTheWay(c)'
      BY <1>2, <2>1, <2>3, FailedSays DEF OnTheWay, Asked_
    <2> QED
      BY <1>5, <2>1, <2>2, <2>3 DEF Initialize
  <1>6. Earned_(c)'
    BY <1>2, <1>3, NotYetEarned
  <1> QED
    BY <1>1, <1>3, <1>4, <1>5, <1>6, CalmStep

LEMMA CallToolIsCalm == ASSUME CalmInv, NEW c \in Tools, CallTool(c) PROVE CalmInv'
  <1>1. CallInv'
    BY CallToolKeeps DEF CalmInv
  <1>2. /\ job[c].stage = "request" /\ agent' = agent /\ contacted' = contacted
        /\ (Calm \/ Troubled(c)) /\ (Executes(c) \/ Executed0)
        /\ (\E answer : Over(c, answer)) \/ (\E f : Failed(c, f))
    BY DEF CallTool
  <1>3. /\ call'[c].request = call[c].request
        /\ \A d \in Tools : d # c => call'[d] = call[d] /\ job'[d] = job[d]
    BY <1>2, OverSays, FailedSays
  <1>4. Own(c)
    BY <1>2, <1>3, TroublesGrow, ExecutesSays DEF Own, CalmInv, Ranges
  <1>5. ASSUME Undisturbed(c), ~ Troubled(c) PROVE OnTheWay(c)'
    <2>1. Executes(c) /\ \E answer : Over(c, answer)
      BY <1>5 DEF CallTool
    <2>2. executed'[c] = 1 /\ job'[c].stage = "over"
      BY <1>2, <2>1, ExecutesSays, OverSays
    <2> QED
      BY <2>2 DEF OnTheWay
  <1>6. Earned_(c)'
    <2>1. CASE Executes(c)
      BY <1>2, <2>1, ExecutesSays DEF Earned_
    <2>2. ASSUME NEW f, Failed(c, f) PROVE Earned_(c)'
      BY <1>2, <2>2, FailedSays, NotYetEarned
    <2> QED
      BY <2>1, <2>2 DEF CallTool
  <1> QED
    BY <1>1, <1>3, <1>4, <1>5, <1>6, CalmStep

(* The one request of a job without a session.                             *)
Post(c) == PostLegacy(c) \/ PostMessage(c)

LEMMA PostIsCalm == ASSUME CalmInv, NEW c \in Tools, Post(c) PROVE CalmInv'
  <1>1. CallInv'
    BY PostLegacyKeeps, PostMessageKeeps DEF CalmInv, Post
  <1>2. /\ job[c].stage = "post" /\ agent' = agent /\ contacted' = contacted
        /\ (Calm \/ Troubled(c)) /\ (Executes(c) \/ Executed0)
        /\ \E answer : Over(c, answer)
    BY DEF Post, PostLegacy, PostMessage
  <1>3. /\ call'[c].request = call[c].request /\ job'[c].stage = "over"
        /\ \A d \in Tools : d # c => call'[d] = call[d] /\ job'[d] = job[d]
    BY <1>2, OverSays
  <1>4. Own(c)
    BY <1>2, <1>3, TroublesGrow, ExecutesSays DEF Own, CalmInv, Ranges
  <1>5. ASSUME Undisturbed(c), ~ Troubled(c) PROVE OnTheWay(c)'
    <2>1. Serves(c) /\ ~ (agent.modern /\ Asked_(c).kind # "message")
      BY <1>2, <1>5, RunningIsOpen DEF OnTheWay, Serves
    <2>2. Executes(c)
      BY <1>5, <2>1 DEF Post, PostLegacy, PostMessage
    <2>3. executed'[c] = 1
      BY <1>2, <2>2, ExecutesSays
    <2> QED
      BY <1>3, <2>3 DEF OnTheWay
  <1>6. Earned_(c)'
    <2>1. CASE Executes(c)
      BY <1>2, <2>1, ExecutesSays DEF Earned_
    <2>2. CASE Over(c, "failure")
      BY <1>2, <2>2, OverSays, NotYetEarned
    <2>3. CASE Troubled(c)
      <3>1. troubles[c] \in Nat /\ troubles'[c] = troubles[c] + 1
        BY <2>3 DEF Troubled, CalmInv, Ranges
      <3> QED
        BY <3>1 DEF Earned_
    <2>4. CASE ~ Serves(c)
      BY <1>2, <2>4 DEF Earned_, Serves
    <2> QED
      BY <2>1, <2>2, <2>3, <2>4 DEF Post, PostLegacy, PostMessage
  <1> QED
    BY <1>1, <1>3, <1>4, <1>5, <1>6, CalmStep

(* What agent.json, the convention or the card says is where it lives.     *)
LEMMA ResolvedWhereItLives ==
  ASSUME CallsAssumption, CalmInv, NEW c \in Tools, Undisturbed(c),
         Asked_(c) \in Requests
  PROVE  agent.lives = IF Asked_(c).kind = "message" THEN CardUrl(Asked_(c).endpoint, TRUE)
                       ELSE McpEndpoint(Asked_(c).endpoint, TRUE)
  <1>1. CASE Asked_(c).kind = "message"
    BY <1>1 DEF Undisturbed, Published, CardUrl
  <1>2. CASE Asked_(c).kind # "message"
    <2> DEFINE url == Asked_(c).endpoint
    <2>1. IsUrl(agent.lives) /\ IsUrl(url)
      BY DEF CallsAssumption, CalmInv, Ranges
    <2>2. /\ agent.lives.host = url.host
          /\ agent.lives.path = IF url.path # "" THEN url.path
                                ELSE IF agent.json = "" THEN "mcp" ELSE agent.json
      BY <1>2 DEF Undisturbed, Published
    <2>3. agent.lives = McpEndpoint(url, TRUE)
      <3>1. CASE url.path # ""
        BY <2>1, <2>2, <3>1 DEF McpEndpoint, IsUrl
      <3>2. CASE url.path = ""
        BY <2>1, <2>2, <3>2 DEF McpEndpoint, IsUrl
      <3> QED
        BY <3>1, <3>2
    <2> QED
      BY <1>2, <2>3
  <1> QED
    BY <1>1, <1>2

LEMMA ResolveIsCalm ==
  ASSUME CallsAssumption, CalmInv, NEW c \in Tools, Resolve_(c) PROVE CalmInv'
  <1> DEFINE Found == Asked_(c).kind = "message" /\ Asked_(c).named /\ agent.listed
             Resolved(target, record) ==
               /\ UNCHANGED call
               /\ job' = [job EXCEPT ![c] = [@ EXCEPT !.stage = "policy", !.target = target,
                                                      !.record = record]]
             lives == IF Asked_(c).kind = "message" THEN CardUrl(Asked_(c).endpoint, TRUE)
                      ELSE McpEndpoint(Asked_(c).endpoint, TRUE)
  <1>1. CallInv'
    BY ResolveKeeps DEF CalmInv
  <1>2. /\ job[c].stage = "resolve" /\ executed' = executed /\ agent' = agent
        /\ contacted' = contacted /\ (Calm \/ Troubled(c))
        /\ Over(c, "failure") \/ \E target, record : Resolved(target, record)
    BY DEF Resolve_, Executed0
  <1>3. (~ Found /\ Asked_(c).endpoint # NoUrl /\ ~ Troubled(c)) => Resolved(lives, FALSE)
    BY DEF Resolve_
  <1>4. \A target, record : Resolved(target, record) =>
          /\ call' = call /\ job'[c].stage = "policy" /\ job'[c].target = target
          /\ job'[c].record = record
          /\ \A d \in Tools : d # c => job'[d] = job[d]
    BY DEF CalmInv, CallInv, Shapes, IsJob
  <1> HIDE DEF Resolved
  <1>5. Own(c) /\ call'[c].request = call[c].request
    BY <1>2, <1>4, OverSays, TroublesGrow DEF Own, CalmInv, Ranges
  <1>6. ASSUME Undisturbed(c), ~ Troubled(c) PROVE OnTheWay(c)'
    <2>1. Asked_(c) \in Requests
      BY <1>2 DEF CalmInv, CallInv, Untouched, Ranges, Asked_
    <2>2. ~ Found /\ Asked_(c).endpoint # NoUrl
      BY <1>6 DEF Undisturbed, Published
    <2>3. Resolved(lives, FALSE)
      BY <1>3, <1>6, <2>2
    <2>4. agent.lives = lives
      BY <1>6, <2>1, ResolvedWhereItLives
    <2> HIDE DEF lives
    <2> QED
      BY <1>2, <1>4, <1>6, <2>3, <2>4, RunningIsOpen DEF OnTheWay, Asked_
  <1>7. Earned_(c)'
    BY <1>2, <1>4, OverSays, NotYetEarned
  <1> QED
    BY <1>1, <1>5, <1>6, <1>7, CalmStep

LEMMA CalmInit == ASSUME caInit PROVE CalmInv
  <1>1. CallInv
    BY CallInit
  <1>2. Ranges
    BY DEF caInit, Ranges, Asked_
  <1>3. ASSUME NEW c \in Tools PROVE OnTheWay(c) /\ Earned_(c)
    BY JobShapes DEF caInit, OnTheWay, Earned_
  <1> QED
    BY <1>1, <1>2, <1>3 DEF CalmInv

(* A new call has neither an answer nor a place to go; a refused one had   *)
(* no endpoint.                                                            *)
LEMMA MakingIsCalm ==
  ASSUME CalmInv, CallInv', NEW c \in Tools, NEW r \in Requests, NEW first,
         first.stage \in {"queued", "resolve"},
         Starts(c, r, first) \/ Refuses(c, r)
  PROVE  CalmInv'
  <1>1. /\ agent' = agent /\ contacted' = contacted /\ troubles' = troubles
        /\ executed' = executed /\ call[c].request = NoRequest
    BY DEF Starts, Refuses, Calm, Executed0, Asked_
  <1>2. /\ call'[c].request = r
        /\ \A d \in Tools : d # c => call'[d] = call[d] /\ job'[d] = job[d]
    BY DEF Starts, Refuses, CalmInv, CallInv, Shapes, IsCall
  <1>3. \/ call'[c].answer = "none" /\ job'[c].stage \in {"queued", "resolve"}
        \/ r.endpoint = NoUrl
    <2>1. CASE Starts(c, r, first)
      BY <1>1, <2>1 DEF Starts, CalmInv, CallInv, Shapes, IsCall, Untouched
    <2>2. CASE Refuses(c, r)
      BY <2>2 DEF Refuses
    <2> QED
      BY <2>1, <2>2
  <1>4. Ranges'
    BY <1>1, <1>2 DEF CalmInv, Ranges, Asked_
  <1>5. ASSUME NEW d \in Tools, Undisturbed(d)' PROVE OnTheWay(d)'
    <2>1. CASE d = c
      BY <1>2, <1>3, <1>5, <2>1 DEF Undisturbed, OnTheWay, Asked_
    <2>2. CASE d # c
      <3>1. Undisturbed(d)
        BY <1>1, <1>2, <1>5, <2>2 DEF Undisturbed, Published, Asked_
      <3>2. OnTheWay(d)
        BY <3>1 DEF CalmInv
      <3> QED
        BY <1>1, <1>2, <2>2, <3>2 DEF OnTheWay, Asked_
    <2> QED
      BY <2>1, <2>2
  <1>6. call'[c].answer \in {"none", "failure"}
    BY DEF Starts, Refuses, CalmInv, CallInv, Shapes, IsCall, Untouched, Asked_
  <1>7. ASSUME NEW d \in Tools PROVE Earned_(d)'
    BY <1>1, <1>2, <1>6 DEF CalmInv, Earned_
  <1> QED
    BY <1>4, <1>5, <1>7 DEF CalmInv

LEMMA CalmNext ==
  ASSUME CallsAssumption, CalmInv, [caNext]_caVars PROVE CalmInv'
  <1>0. CallInv'
    BY CallNext DEF CalmInv
  <1>1. ASSUME NEW c \in Tools, NEW r \in Requests,
               \/ SendMessage(c, r) \/ CallAgentTool(c, r) \/ ListAgentTools(c, r)
               \/ MessageCommand(c, r) \/ ToolCommand(c, r)
        PROVE  CalmInv'
    <2>1. PICK first \in {Queued("guard"), Queued("call"), Invoking} :
            Starts(c, r, first) \/ Refuses(c, r)
      BY <1>1 DEF SendMessage, CallAgentTool, ListAgentTools, MessageCommand, ToolCommand
    <2>2. first.stage \in {"queued", "resolve"}
      BY JobShapes
    <2> QED
      BY <1>0, <2>1, <2>2, MakingIsCalm
  <1>2. ASSUME NEW c \in Tools, Take(c) PROVE CalmInv'
    <2>1. PICK stage \in {"guard", "resolve"} : Goes_(c, stage)
      BY <1>2 DEF Take
    <2>2. /\ job[c].stage = "queued" /\ executed' = executed /\ agent' = agent
          /\ contacted' = contacted /\ Calm
      BY <1>2 DEF Take, Executed0
    <2>3. Own(c) /\ call'[c].request = call[c].request
      BY <2>1, <2>2, GoesSays, TroublesGrow DEF Own, CalmInv, Ranges
    <2>4. ASSUME Undisturbed(c) PROVE OnTheWay(c)'
      BY <2>1, <2>2, <2>4, GoesSays, RunningIsOpen DEF OnTheWay, Asked_
    <2>5. Earned_(c)'
      BY <2>1, <2>2, GoesSays, NotYetEarned
    <2> QED
      BY <1>0, <2>3, <2>4, <2>5, CalmStep
  <1>3. ASSUME NEW c \in Tools, Expire(c) PROVE CalmInv'
    <2>1. /\ call' = [call EXCEPT ![c].answer = "timeout"] /\ job' = job
          /\ executed' = executed /\ agent' = agent /\ contacted' = contacted /\ Calm
      BY <1>3 DEF Expire, Executed0
    <2>2. /\ call'[c].request = call[c].request /\ call'[c].answer = "timeout"
          /\ \A d \in Tools : d # c => call'[d] = call[d]
      BY <2>1 DEF CalmInv, CallInv, Shapes, IsCall
    <2>3. Own(c)
      BY <2>1, <2>2, TroublesGrow DEF Own, CalmInv, Ranges
    <2>4. ASSUME Undisturbed(c) PROVE OnTheWay(c)'
      BY <2>1, <2>2, <2>4 DEF CalmInv, OnTheWay, Asked_
    <2>5. Earned_(c)'
      BY <2>2 DEF Earned_
    <2> QED
      BY <1>0, <2>2, <2>3, <2>4, <2>5, CalmStep
  <1>4. ASSUME NEW c \in Tools, Step_(c) PROVE CalmInv'
    BY <1>4, GuardIsCalm, ResolveIsCalm, JudgeIsCalm, InitializeIsCalm, CallToolIsCalm,
       PostIsCalm DEF Step_, Post
  <1>5. CASE UNCHANGED caVars
    <2>1. Ranges'
      BY <1>5 DEF caVars, CalmInv, Ranges, Asked_
    <2>2. ASSUME NEW c \in Tools, Undisturbed(c)' PROVE OnTheWay(c)'
      <3>1. Undisturbed(c)
        BY <1>5, <2>2 DEF caVars, Undisturbed, Published, Asked_
      <3> QED
        BY <1>5, <3>1 DEF caVars, CalmInv, OnTheWay, Asked_
    <2>3. ASSUME NEW c \in Tools PROVE Earned_(c)'
      BY <1>5 DEF caVars, CalmInv, Earned_
    <2> QED
      BY <1>0, <2>1, <2>2, <2>3 DEF CalmInv
  <1> QED
    BY <1>1, <1>2, <1>3, <1>4, <1>5 DEF caNext

(* A tool runs at most once for one call, although the handler falls back  *)
(* to a second transport and answers get lost (protocols/mcp.py:279-312);  *)
(* an answer of success or denial is true for ever; and a call that nothing*)
(* disturbs is done where the agent lives, over the transport it speaks.   *)
THEOREM EveryCallIsHonest ==
  ASSUME CallsAssumption PROVE caSpec => []CallsAreHonest
  <1>1. CalmInv => AtMostOnce /\ AnswersAreHonest
    <2>1. CalmInv => AtMostOnce
      BY DEF CalmInv, CallInv, Final, AtMostOnce
    <2>2. ASSUME CalmInv, NEW c \in Tools, call[c].answer = "success", executed[c] # 1
          PROVE  Asked_(c).kind = "message" /\ (troubles[c] > 0 \/ contacted[c] # agent.lives)
      BY <2>2 DEF CalmInv, CallInv, Final, Earned_, Asked_
    <2>3. ASSUME CalmInv, NEW c \in Tools, call[c].answer = "denied" PROVE executed[c] = 0
      BY <2>3 DEF CalmInv, CallInv, Final
    <2> QED
      BY <2>1, <2>2, <2>3 DEF AnswersAreHonest
  <1>2. CalmInv => CalmCallIsDone
    <2> SUFFICES ASSUME CalmInv, NEW c \in Tools, call[c].answer \in {"failure", "denied"},
                        Undisturbed(c)
                 PROVE  executed[c] = 1
      BY DEF CalmCallIsDone, Undisturbed
    <2> QED
      BY DEF CalmInv, OnTheWay
  <1>3. CalmInv => CallsAreHonest
    BY <1>1, <1>2 DEF CallsAreHonest
  <1> QED
    BY <1>3, CalmInit, CalmNext, PTL DEF caSpec

-----------------------------------------------------------------------------
(* Signed records.                                                         *)

Genuine(s) == s = NoSig \/ s \in signed

(* The fields of the records that steps change one by one.                 *)
IsRecord(r) == DOMAIN r = {"target", "alpn", "params", "sig", "of"}
IsAgent(a) == DOMAIN a = {"name", "protocol", "target", "params", "sig"}
IsReading(r) ==
  DOMAIN r = {"at", "agent", "of", "status", "covers", "expires"}

(* Every signature found anywhere is one the zone's key made.              *)
SigsAreGenuine ==
  /\ now \in Nat
  /\ \A s \in signed : s.claim \in BOOLEAN /\ s.exp \in Nat
  /\ DOMAIN publisher = {"stage", "agent"} /\ Genuine(publisher.agent.sig)
  /\ svcb = [n \in AgentNames |-> svcb[n]]
  /\ \A n \in AgentNames : IsRecord(svcb[n]) /\ Genuine(svcb[n].sig)
  /\ IsReading(reading) /\ Genuine(reading.agent.sig)

SignInv == SigsAreGenuine /\ VouchedWasSigned

LEMMA ConstantShapes ==
  /\ IsRecord(NoRecord) /\ NoRecord.sig = NoSig
  /\ IsAgent(NoAgent) /\ NoAgent.sig = NoSig
  /\ IsReading(Unread) /\ Unread.agent = NoAgent /\ Unread.status = Absence
  /\ DOMAIN Idle = {"stage", "agent"} /\ Idle.agent = NoAgent
  BY DEF IsRecord, IsAgent, IsReading, NoRecord, NoAgent, Unread, Idle

LEMMA AgentShape ==
  ASSUME NEW n, NEW p, NEW t, NEW params
  PROVE  IsAgent(Agent(n, p, t, params)) /\ Agent(n, p, t, params).sig = NoSig
  BY ConstantShapes DEF Agent, IsAgent

LEMMA SignInit == ASSUME srInit PROVE SignInv
  <1>1. SigsAreGenuine
    BY ConstantShapes DEF srInit, SigsAreGenuine, Genuine
  <1>2. VouchedWasSigned
    BY ConstantShapes DEF srInit, VouchedWasSigned, Good, Absence
  <1> QED
    BY <1>1, <1>2 DEF SignInv

(* What was signed stays signed: a reading keeps what vouches for it.      *)
LEMMA VouchedStays ==
  ASSUME SignInv, UNCHANGED reading, signed \subseteq signed'
  PROVE  VouchedWasSigned' /\ Genuine(reading.agent.sig)' /\ IsReading(reading)'
  BY DEF SignInv, SigsAreGenuine, VouchedWasSigned, Genuine, IsReading

(* A put moves the signature of the publisher's agent, or drops it.        *)
LEMMA PutKeeps ==
  ASSUME SignInv, NEW r, Put(r), IsRecord(r), Genuine(r.sig),
         DOMAIN publisher' = {"stage", "agent"}, Genuine(publisher'.agent.sig),
         UNCHANGED <<reading, now, signed>>
  PROVE  SignInv'
  <1>1. /\ svcb' = [n \in AgentNames |-> svcb'[n]]
        /\ \A n \in AgentNames : svcb'[n] = svcb[n] \/ svcb'[n] = r
    BY DEF Put, SignInv, SigsAreGenuine
  <1>2. \A n \in AgentNames : IsRecord(svcb'[n]) /\ Genuine(svcb'[n].sig)
    BY <1>1 DEF SignInv, SigsAreGenuine
  <1>3. VouchedWasSigned' /\ Genuine(reading.agent.sig)' /\ IsReading(reading)'
    BY VouchedStays
  <1>4. SigsAreGenuine'
    BY <1>1, <1>2, <1>3 DEF SignInv, SigsAreGenuine, Genuine, IsRecord, IsReading
  <1> QED
    BY <1>3, <1>4 DEF SignInv

LEMMA RecordShapes ==
  ASSUME NEW a
  PROVE  /\ IsRecord(Whole(a)) /\ Whole(a).sig = a.sig
         /\ IsRecord(Standard(a)) /\ Standard(a).sig = NoSig
  <1>1. IsRecord(Whole(a)) /\ Whole(a).sig = a.sig
    BY DEF IsRecord, Whole
  <1>2. IsRecord(Standard(a)) /\ Standard(a).sig = NoSig
    BY <1>1 DEF IsRecord, Standard
  <1> QED
    BY <1>1, <1>2

LEMMA BuildKeeps ==
  ASSUME SignedRecordAssumption, SignInv, NEW args \in Arguments, Build(args)
  PROVE  SignInv'
  <1> DEFINE made == Agent(args.name, args.protocol, args.target, args.params)
             sig == IF args.sign THEN Payload(made, args.claim) ELSE NoSig
             agentSigned == [made EXCEPT !.sig = sig]
  <1>1. /\ publisher' = [stage |-> "svcb", agent |-> agentSigned]
        /\ signed' = signed \cup ({sig} \ {NoSig})
        /\ UNCHANGED <<svcb, reading, now>>
    BY DEF Build
  <1>2. agentSigned.sig = sig
    BY AgentShape DEF IsAgent
  <1>3. sig # NoSig => sig.claim \in BOOLEAN /\ sig.exp \in Nat
    <2>1. Payload(made, args.claim).claim = args.claim
      BY DEF Payload
    <2>2. Payload(made, args.claim).exp = now + Validity
      BY DEF Payload
    <2> QED
      BY <2>1, <2>2 DEF SignedRecordAssumption, SignInv, SigsAreGenuine
  <1> HIDE DEF made, sig, agentSigned
  <1>4. VouchedWasSigned' /\ Genuine(reading.agent.sig)' /\ IsReading(reading)'
    BY <1>1, VouchedStays
  <1>5. SigsAreGenuine'
    BY <1>1, <1>2, <1>3, <1>4 DEF SignInv, SigsAreGenuine, Genuine, IsRecord
  <1> QED
    BY <1>4, <1>5 DEF SignInv

LEMMA PutWholeKeeps == ASSUME SignInv, PutWhole PROVE SignInv'
  <1>1. UNCHANGED <<reading, now, signed>>
    BY DEF PutWhole
  <1>2. /\ DOMAIN publisher' = {"stage", "agent"}
        /\ publisher'.agent.sig = NoSig \/ publisher'.agent = publisher.agent
    BY ConstantShapes DEF PutWhole, SignInv, SigsAreGenuine
  <1>3. Genuine(publisher'.agent.sig)
    BY <1>2 DEF Genuine, SignInv, SigsAreGenuine
  <1>4. CASE Put(Whole(publisher.agent))
    BY <1>1, <1>2, <1>3, <1>4, RecordShapes, PutKeeps DEF SignInv, SigsAreGenuine
  <1>5. CASE UNCHANGED svcb
    <2>1. VouchedWasSigned' /\ Genuine(reading.agent.sig)' /\ IsReading(reading)'
      BY <1>1, VouchedStays
    <2> QED
      BY <1>1, <1>2, <1>3, <1>5, <2>1 DEF SignInv, SigsAreGenuine, Genuine, IsRecord
  <1> QED
    BY <1>4, <1>5 DEF PutWhole

LEMMA PutStandardKeeps == ASSUME SignInv, PutStandard PROVE SignInv'
  <1>1. Put(Standard(publisher.agent)) /\ publisher' = Idle /\ UNCHANGED <<reading, now, signed>>
    BY DEF PutStandard
  <1>2. Genuine(NoSig)
    BY DEF Genuine
  <1> QED
    BY <1>1, <1>2, ConstantShapes, RecordShapes, PutKeeps

(* An edit leaves the signature as it was, on this name or another.        *)
LEMMA EditKeeps == ASSUME SignInv, Edit PROVE SignInv'
  <1>1. UNCHANGED <<publisher, reading, now, signed>>
    BY DEF Edit
  <1>2. PICK n \in AgentNames, args \in Arguments :
          \E m, r : /\ svcb' = [svcb EXCEPT ![m] = r]
                    /\ IsRecord(r) /\ r.sig = svcb[n].sig
    <2>1. PICK n \in AgentNames, args \in Arguments :
            \/ svcb' = [svcb EXCEPT ![n] =
                          [[svcb[n] EXCEPT !.of = NoAgent] EXCEPT !.target = args.target]]
            \/ \E k \in Keys :
                 svcb' = [svcb EXCEPT ![n] =
                   [[svcb[n] EXCEPT !.of = NoAgent] EXCEPT !.params[k] = args.params[k]]]
            \/ svcb' = [svcb EXCEPT ![args.name] = [svcb[n] EXCEPT !.of = NoAgent]]
      BY DEF Edit
    <2>2. IsRecord(svcb[n])
      BY DEF SignInv, SigsAreGenuine
    <2> DEFINE record == [svcb[n] EXCEPT !.of = NoAgent]
    <2>3. IsRecord(record) /\ record.sig = svcb[n].sig
      BY <2>2 DEF IsRecord
    <2>4. \A t : IsRecord([record EXCEPT !.target = t])
                 /\ [record EXCEPT !.target = t].sig = svcb[n].sig
      BY <2>3 DEF IsRecord
    <2>5. \A k, v : IsRecord([record EXCEPT !.params[k] = v])
                    /\ [record EXCEPT !.params[k] = v].sig = svcb[n].sig
      BY <2>3 DEF IsRecord
    <2> HIDE DEF record
    <2>6. CASE svcb' = [svcb EXCEPT ![n] = [record EXCEPT !.target = args.target]]
      BY <2>4, <2>6
    <2>7. ASSUME NEW k \in Keys,
                 svcb' = [svcb EXCEPT ![n] = [record EXCEPT !.params[k] = args.params[k]]]
          PROVE  \E m, r : svcb' = [svcb EXCEPT ![m] = r] /\ IsRecord(r) /\ r.sig = svcb[n].sig
      BY <2>5, <2>7
    <2>8. CASE svcb' = [svcb EXCEPT ![args.name] = record]
      BY <2>3, <2>8
    <2> QED
      BY <2>1, <2>6, <2>7, <2>8 DEF record
  <1>3. PICK m, r : svcb' = [svcb EXCEPT ![m] = r] /\ IsRecord(r) /\ r.sig = svcb[n].sig
    BY <1>2
  <1>4. /\ svcb' = [k \in AgentNames |-> svcb'[k]]
        /\ \A k \in AgentNames : svcb'[k] = svcb[k] \/ svcb'[k] = r
    BY <1>3 DEF SignInv, SigsAreGenuine
  <1>5. \A k \in AgentNames : IsRecord(svcb'[k]) /\ Genuine(svcb'[k].sig)
    BY <1>3, <1>4 DEF SignInv, SigsAreGenuine
  <1>6. VouchedWasSigned' /\ Genuine(reading.agent.sig)' /\ IsReading(reading)'
    BY <1>1, VouchedStays
  <1>7. SigsAreGenuine'
    BY <1>1, <1>4, <1>5, <1>6 DEF SignInv, SigsAreGenuine, Genuine, IsRecord
  <1> QED
    BY <1>6, <1>7 DEF SignInv

LEMMA QueryKeeps == ASSUME SignInv, NEW n \in AgentNames, Query(n) PROVE SignInv'
  <1> DEFINE record == svcb[n]
             made == Agent(n, ReconcileProtocol(record.params["bap"], record.alpn),
                            record.target, record.params)
             read == [made EXCEPT !.sig = record.sig]
  <1>1. /\ UNCHANGED <<publisher, svcb, now, signed>>
        /\ reading' = [Unread EXCEPT !.at = "read", !.of = record.of, !.agent = read]
    BY DEF Query
  <1>2. read.sig = record.sig
    BY AgentShape DEF IsAgent
  <1> HIDE DEF record, made, read
  <1>3. IsReading(reading') /\ reading'.agent = read /\ reading'.status = Absence
    BY <1>1, ConstantShapes DEF IsReading
  <1>4. SigsAreGenuine'
    BY <1>1, <1>2, <1>3 DEF SignInv, SigsAreGenuine, Genuine, IsRecord, IsReading, record
  <1>5. VouchedWasSigned'
    BY <1>3 DEF VouchedWasSigned, Good, Absence
  <1> QED
    BY <1>4, <1>5 DEF SignInv

(* A query that yields no agent leaves nothing to vouch for.               *)
LEMMA QueryDropsKeeps ==
  ASSUME SignInv, NEW n \in AgentNames, QueryDrops(n) PROVE SignInv'
  <1>1. UNCHANGED <<publisher, svcb, now, signed>> /\ reading' = Unread
    BY DEF QueryDrops
  <1>2. /\ IsReading(reading') /\ reading'.agent.sig = NoSig /\ reading'.status = Absence
    BY <1>1, ConstantShapes
  <1>3. SigsAreGenuine'
    BY <1>1, <1>2 DEF SignInv, SigsAreGenuine, Genuine, IsRecord, IsReading
  <1>4. VouchedWasSigned'
    BY <1>2 DEF VouchedWasSigned, Good, Absence
  <1> QED
    BY <1>3, <1>4 DEF SignInv

(* A good status is that of a signature that binds what was read.          *)
LEMMA GoodBinds ==
  ASSUME SignInv, NEW s, Genuine(s), NEW made, Status(s, made) \in Good
  PROVE  /\ s \in signed /\ Binds(s, made)
         /\ Status(s, made) = "verified" <=> s.claim
  <1>1. s # NoSig
    BY DEF Status, Good
  <1>2. s \in signed /\ s.exp \in Nat /\ now \in Nat /\ s.claim \in BOOLEAN
    BY <1>1 DEF Genuine, SignInv, SigsAreGenuine
  <1>3. s.exp >= now
    BY <1>1, <1>2 DEF Status, Good
  <1>4. Binds(s, made)
    BY <1>1, <1>2, <1>3 DEF Status, Good
  <1>5. Status(s, made) = IF s.claim THEN "verified" ELSE "verified_endpoint_only"
    BY <1>1, <1>2, <1>3, <1>4 DEF Status
  <1> QED
    BY <1>2, <1>4, <1>5

LEMMA JudgeSigKeeps == ASSUME SignInv, Judge PROVE SignInv'
  <1> DEFINE s == reading.agent.sig
             status == Status(s, reading.agent)
  <1>1. /\ UNCHANGED <<publisher, svcb, now, signed>>
        /\ reading' = [reading EXCEPT !.at = "judged", !.status = status,
                                      !.covers = status = "verified",
                                      !.expires = IF status \in Good THEN s.exp ELSE 0]
    BY DEF Judge
  <1> HIDE DEF status
  <1>2. /\ IsReading(reading') /\ reading'.agent = reading.agent /\ reading'.status = status
        /\ reading'.covers = (status = "verified")
        /\ status \in Good => reading'.expires = s.exp
    BY <1>1 DEF SignInv, SigsAreGenuine, IsReading
  <1>3. SigsAreGenuine'
    BY <1>1, <1>2 DEF SignInv, SigsAreGenuine, Genuine, IsRecord, IsReading
  <1>4. ASSUME status \in Good PROVE VouchedWasSigned'
    <2>1. s \in signed /\ Binds(s, reading.agent) /\ (status = "verified" <=> s.claim)
      BY <1>4, GoodBinds DEF SignInv, SigsAreGenuine, status
    <2>2. s.claim => \A k \in Keys : s.params[k] = IF reading.agent.params[k] = Empty
                                                    THEN Absence ELSE reading.agent.params[k]
      BY <2>1 DEF Binds, Covered
    <2>3. s.name = reading.agent.name /\ s.target = reading.agent.target
          /\ s.alpn = reading.agent.protocol
      BY <2>1 DEF Binds
    <2>4. s \in signed' /\ s.exp = reading'.expires /\ reading'.agent = reading.agent
      BY <1>1, <1>2, <1>4, <2>1
    <2>5. reading'.covers <=> s.claim
      BY <1>2, <2>1
    <2>6. /\ s.name = reading'.agent.name /\ s.target = reading'.agent.target
          /\ s.alpn = reading'.agent.protocol
      BY <2>3, <2>4
    <2>7. s.claim => \A k \in Keys : s.params[k] = IF reading'.agent.params[k] = Empty
                                                    THEN Absence ELSE reading'.agent.params[k]
      BY <2>2, <2>4
    <2> HIDE DEF s
    <2>8. \E t \in signed' :
            /\ t.name = reading'.agent.name /\ t.target = reading'.agent.target
            /\ t.alpn = reading'.agent.protocol /\ t.exp = reading'.expires
            /\ reading'.covers <=> t.claim
            /\ t.claim => \A k \in Keys :
                 t.params[k] = IF reading'.agent.params[k] = Empty
                               THEN Absence ELSE reading'.agent.params[k]
      BY <2>4, <2>5, <2>6, <2>7, Zenon
    <2> QED
      BY <2>8, Zenon DEF VouchedWasSigned
  <1>5. ASSUME status \notin Good PROVE VouchedWasSigned'
    BY <1>2, <1>5 DEF VouchedWasSigned
  <1> QED
    BY <1>3, <1>4, <1>5 DEF SignInv

LEMMA SignNext ==
  ASSUME SignedRecordAssumption, SignInv, [srNext]_srVars
  PROVE  SignInv'
  <1>1. ASSUME srTick \/ UNCHANGED srVars PROVE SignInv'
    <2>1. UNCHANGED <<publisher, svcb, reading, signed>> /\ now' \in Nat
      BY <1>1 DEF srTick, srVars, SignInv, SigsAreGenuine
    <2>2. VouchedWasSigned' /\ Genuine(reading.agent.sig)' /\ IsReading(reading)'
      BY <2>1, VouchedStays
    <2> QED
      BY <2>1, <2>2 DEF SignInv, SigsAreGenuine, Genuine, IsRecord
  <1> QED
    BY <1>1, BuildKeeps, PutWholeKeeps, PutStandardKeeps, EditKeeps, QueryKeeps,
       QueryDropsKeeps, JudgeSigKeeps DEF srNext

-----------------------------------------------------------------------------
(* A publisher's own record binds: what it wrote whole is read back as the *)
(* agent it signed, in every case and emptiness of its parameters.         *)

(* An agent as publish builds it: its signature is its own.                *)
SelfSigned(a) ==
  /\ a.sig # NoSig => /\ a.sig.name = a.name /\ a.sig.target = a.target
                      /\ a.sig.alpn = a.protocol
                      /\ a.sig.claim => a.sig.params = Covered(a)
  /\ Lowered(a.params["connect-class"]) = a.params["connect-class"]

IsOwn(n, r) ==
  (r.of # NoAgent /\ r.sig # NoSig) =>
    /\ r.of.name = n /\ SelfSigned(r.of) /\ r.sig = r.of.sig
    /\ r.target = r.of.target /\ r.alpn = r.of.protocol /\ r.params = ToParams(r.of)

\* The bap of the agent names no other protocol than the agent's.
Consistent(a) == a.params["bap"] = Absence \/ SpokenBy(a.params["bap"]) \in {Absence, a.protocol}

OwnIsReadBack ==
  (reading.of # NoAgent /\ reading.agent.sig # NoSig /\ Consistent(reading.of)) =>
    Binds(reading.agent.sig, reading.agent)

OwnInv ==
  /\ SelfSigned(publisher.agent)
  /\ \A n \in AgentNames : IsOwn(n, svcb[n])
  /\ OwnIsReadBack /\ OwnRecordBinds

LEMMA LoweredTwice == \A class : Lowered(Lowered(class)) = Lowered(class)
  BY DEF Lowered, Empty, Absence

LEMMA NoAgentIsSelfSigned == SelfSigned(NoAgent)
  BY DEF SelfSigned, NoAgent, NoParams, Keys, Lowered, Absence, Empty

LEMMA OwnInit == ASSUME srInit PROVE OwnInv
  <1>1. SelfSigned(publisher.agent)
    BY ConstantShapes, NoAgentIsSelfSigned DEF srInit
  <1>2. NoRecord.sig = NoSig /\ Unread.agent.sig = NoSig
    BY ConstantShapes
  <1>3. ASSUME NEW n \in AgentNames PROVE IsOwn(n, svcb[n])
    BY <1>2 DEF srInit, IsOwn
  <1>4. OwnIsReadBack /\ OwnRecordBinds
    BY <1>2 DEF srInit, OwnIsReadBack, OwnRecordBinds
  <1> QED
    BY <1>1, <1>3, <1>4 DEF OwnInv

LEMMA OwnStays ==
  ASSUME OwnInv, UNCHANGED reading PROVE OwnIsReadBack' /\ OwnRecordBinds'
  BY DEF OwnInv, OwnIsReadBack, OwnRecordBinds

(* What publish builds signs itself.                                       *)
LEMMA BuiltIsSelfSigned ==
  ASSUME SignedRecordAssumption, SignInv, OwnInv, NEW args \in Arguments, Build(args)
  PROVE  OwnInv'
  <1> DEFINE made == Agent(args.name, args.protocol, args.target, args.params)
             sig == IF args.sign THEN Payload(made, args.claim) ELSE NoSig
             built_ == [made EXCEPT !.sig = sig]
  <1>1. publisher' = [stage |-> "svcb", agent |-> built_] /\ UNCHANGED <<svcb, reading>>
    BY DEF Build
  <1>2. /\ built_.sig = sig /\ built_.name = made.name /\ built_.target = made.target
        /\ built_.protocol = made.protocol /\ built_.params = made.params
    BY AgentShape DEF IsAgent
  <1>3. Lowered(made.params["connect-class"]) = made.params["connect-class"]
    <2>1. made.params = [args.params EXCEPT !["connect-class"] = Lowered(@)]
      BY DEF Agent, NoAgent
    <2>2. made.params["connect-class"] = Lowered(args.params["connect-class"])
      BY <2>1 DEF SignedRecordAssumption, Keys
    <2> QED
      BY <2>2, LoweredTwice
  <1>4. ASSUME sig # NoSig
        PROVE  /\ sig.name = made.name /\ sig.target = made.target
               /\ sig.alpn = made.protocol
               /\ sig.claim => sig.params = Covered(made)
    <2>1. sig = Payload(made, args.claim)
      BY <1>4
    <2> HIDE DEF made, sig
    <2> QED
      BY <2>1 DEF Payload
  <1>5. Covered(built_) = Covered(made)
    BY <1>2 DEF Covered
  <1> HIDE DEF made, sig, built_
  <1>6. SelfSigned(built_)
    BY <1>2, <1>3, <1>4, <1>5 DEF SelfSigned
  <1>7. SelfSigned(publisher.agent)'
    BY <1>1, <1>6 DEF SelfSigned, Covered
  <1> QED
    BY <1>1, <1>7, OwnStays DEF OwnInv, IsOwn, SelfSigned, Covered

LEMMA PutIsOwn ==
  ASSUME SignInv, OwnInv, NEW r, Put(r), IsOwn(publisher.agent.name, r),
         SelfSigned(publisher'.agent), UNCHANGED reading
  PROVE  OwnInv'
  <1>1. \A n \in AgentNames :
          \/ n = publisher.agent.name /\ svcb'[n] = r
          \/ svcb'[n] = svcb[n]
    BY DEF Put, SignInv, SigsAreGenuine
  <1>2. ASSUME NEW n \in AgentNames PROVE IsOwn(n, svcb'[n])
    BY <1>1, <1>2 DEF OwnInv
  <1>3. OwnIsReadBack' /\ OwnRecordBinds'
    BY OwnStays
  <1>4. SelfSigned(publisher.agent)'
    BY DEF SelfSigned, Covered
  <1>5. (\A n \in AgentNames : IsOwn(n, svcb[n]))'
    BY <1>2 DEF IsOwn, SelfSigned, Covered
  <1> QED
    BY <1>3, <1>4, <1>5 DEF OwnInv

LEMMA WholeIsOwn ==
  ASSUME NEW a, SelfSigned(a) PROVE IsOwn(a.name, Whole(a)) /\ IsOwn(a.name, Standard(a))
  <1>1. /\ Whole(a).of = a /\ Whole(a).sig = a.sig /\ Whole(a).target = a.target
        /\ Whole(a).alpn = a.protocol /\ Whole(a).params = ToParams(a)
    BY DEF Whole
  <1>2. Standard(a).sig = NoSig
    BY RecordShapes
  <1> QED
    BY <1>1, <1>2 DEF IsOwn

LEMMA PutWholeIsOwn == ASSUME SignInv, OwnInv, PutWhole PROVE OwnInv'
  <1>1. UNCHANGED reading
    BY DEF PutWhole
  <1>2. publisher'.agent = NoAgent \/ publisher'.agent = publisher.agent
    BY ConstantShapes DEF PutWhole, SignInv, SigsAreGenuine
  <1>3. SelfSigned(publisher'.agent)
    BY <1>2, NoAgentIsSelfSigned DEF OwnInv
  <1>4. CASE Put(Whole(publisher.agent))
    BY <1>1, <1>3, <1>4, WholeIsOwn, PutIsOwn DEF OwnInv
  <1>5. CASE UNCHANGED svcb
    <2>1. SelfSigned(publisher.agent)'
      BY <1>3 DEF SelfSigned, Covered
    <2> QED
      BY <1>1, <1>5, <2>1, OwnStays DEF OwnInv, IsOwn, SelfSigned, Covered
  <1> QED
    BY <1>4, <1>5 DEF PutWhole

LEMMA PutStandardIsOwn == ASSUME SignInv, OwnInv, PutStandard PROVE OwnInv'
  <1>1. Put(Standard(publisher.agent)) /\ publisher' = Idle /\ UNCHANGED reading
    BY DEF PutStandard
  <1>2. SelfSigned(publisher'.agent)
    BY <1>1, ConstantShapes, NoAgentIsSelfSigned
  <1> QED
    BY <1>1, <1>2, WholeIsOwn, PutIsOwn DEF OwnInv

(* What another tool wrote is nobody's own.                                *)
LEMMA EditedIsNotOwn == ASSUME SignInv, OwnInv, Edit PROVE OwnInv'
  <1>1. UNCHANGED <<publisher, reading>>
    BY DEF Edit
  <1>2. \E m, r : svcb' = [svcb EXCEPT ![m] = r] /\ r.of = NoAgent
    <2>1. PICK n \in AgentNames, args \in Arguments :
            \/ svcb' = [svcb EXCEPT ![n] =
                          [[svcb[n] EXCEPT !.of = NoAgent] EXCEPT !.target = args.target]]
            \/ \E k \in Keys :
                 svcb' = [svcb EXCEPT ![n] =
                   [[svcb[n] EXCEPT !.of = NoAgent] EXCEPT !.params[k] = args.params[k]]]
            \/ svcb' = [svcb EXCEPT ![args.name] = [svcb[n] EXCEPT !.of = NoAgent]]
      BY DEF Edit
    <2> DEFINE record == [svcb[n] EXCEPT !.of = NoAgent]
    <2>2. IsRecord(record) /\ record.of = NoAgent
      BY DEF SignInv, SigsAreGenuine, IsRecord
    <2>3. \A t : [record EXCEPT !.target = t].of = NoAgent
      BY <2>2 DEF IsRecord
    <2>4. \A k, v : [record EXCEPT !.params[k] = v].of = NoAgent
      BY <2>2 DEF IsRecord
    <2> HIDE DEF record
    <2>5. CASE svcb' = [svcb EXCEPT ![n] = [record EXCEPT !.target = args.target]]
      BY <2>3, <2>5
    <2>6. ASSUME NEW k \in Keys,
                 svcb' = [svcb EXCEPT ![n] = [record EXCEPT !.params[k] = args.params[k]]]
          PROVE  \E m, r : svcb' = [svcb EXCEPT ![m] = r] /\ r.of = NoAgent
      BY <2>4, <2>6
    <2>7. CASE svcb' = [svcb EXCEPT ![args.name] = record]
      BY <2>2, <2>7
    <2> QED
      BY <2>1, <2>5, <2>6, <2>7 DEF record
  <1>3. PICK m, r : svcb' = [svcb EXCEPT ![m] = r] /\ r.of = NoAgent
    BY <1>2
  <1>4. \A n \in AgentNames : svcb'[n] = svcb[n] \/ svcb'[n] = r
    BY <1>3 DEF SignInv, SigsAreGenuine
  <1>5. IsOwn(m, r) /\ \A n : IsOwn(n, r)
    BY <1>3 DEF IsOwn
  <1>6. ASSUME NEW n \in AgentNames PROVE IsOwn(n, svcb'[n])
    BY <1>4, <1>5 DEF OwnInv
  <1> QED
    BY <1>1, <1>6, OwnStays DEF OwnInv, IsOwn, SelfSigned, Covered

(* The parameters come back as they were signed.                           *)
LEMMA ParamsComeBack ==
  ASSUME NEW a, SelfSigned(a)
  PROVE  LET read == [ToParams(a) EXCEPT !["connect-class"] = Lowered(@)]
         IN  [k \in Keys |-> IF read[k] = Empty THEN Absence ELSE read[k]] = Covered(a)
  <1> DEFINE read == [ToParams(a) EXCEPT !["connect-class"] = Lowered(@)]
  <1>1. \A k \in Keys : ToParams(a)[k] = Covered(a)[k] /\ ToParams(a)[k] # Empty
    BY DEF ToParams, Covered, Empty, Absence
  <1>2. Lowered(ToParams(a)["connect-class"]) = ToParams(a)["connect-class"]
    <2>1. ToParams(a)["connect-class"] \in {Absence, a.params["connect-class"]}
      BY DEF ToParams, Keys
    <2>2. Lowered(Absence) = Absence
      BY DEF Lowered, Absence, Empty
    <2> QED
      BY <2>1, <2>2 DEF SelfSigned
  <1>3. DOMAIN ToParams(a) = Keys
    BY DEF ToParams
  <1>4. \A k \in Keys : read[k] = ToParams(a)[k]
    BY <1>2, <1>3
  <1> HIDE DEF read
  <1>5. \A k \in Keys : (IF read[k] = Empty THEN Absence ELSE read[k]) = Covered(a)[k]
    BY <1>1, <1>4
  <1>6. Covered(a) = [k \in Keys |-> Covered(a)[k]]
    BY DEF Covered
  <1>7. [k \in Keys |-> IF read[k] = Empty THEN Absence ELSE read[k]] = Covered(a)
    BY <1>5, <1>6
  <1> QED
    BY <1>7 DEF read

LEMMA QueryReadsBack == ASSUME SignInv, OwnInv, NEW n \in AgentNames, Query(n) PROVE OwnInv'
  <1> DEFINE record == svcb[n]
             of == record.of
             params == [record.params EXCEPT !["connect-class"] = Lowered(@)]
             made == Agent(n, ReconcileProtocol(record.params["bap"], record.alpn),
                            record.target, record.params)
             read == [made EXCEPT !.sig = record.sig]
  <1>1. /\ UNCHANGED <<publisher, svcb>>
        /\ reading' = [Unread EXCEPT !.at = "read", !.of = record.of, !.agent = read]
    BY DEF Query
  <1>2. /\ read.sig = record.sig /\ read.name = n /\ read.target = record.target
        /\ read.protocol = ReconcileProtocol(record.params["bap"], record.alpn)
        /\ read.params = params
    <2>1. /\ made.name = n /\ made.target = record.target
          /\ made.protocol = ReconcileProtocol(record.params["bap"], record.alpn)
          /\ made.params = params
      BY DEF Agent, NoAgent
    <2> QED
      BY <2>1, AgentShape DEF IsAgent
  <1> HIDE DEF made, read
  <1>3. reading'.agent = read /\ reading'.of = of /\ reading'.status = Absence
    BY <1>1, ConstantShapes DEF IsReading
  <1>4. ASSUME of # NoAgent, record.sig # NoSig, Consistent(of)
        PROVE  Binds(record.sig, read)
    <2>1. /\ of.name = n /\ SelfSigned(of) /\ record.sig = of.sig
          /\ record.target = of.target /\ record.alpn = of.protocol
          /\ record.params = ToParams(of)
      BY <1>4 DEF OwnInv, IsOwn
    <2>2. read.protocol = of.protocol
      <3>1. record.params["bap"] \in {Absence, of.params["bap"]}
        BY <2>1 DEF ToParams, Keys
      <3>2. SpokenBy(Absence) = Absence
        BY DEF SpokenBy, Absence
      <3> QED
        BY <1>2, <1>4, <2>1, <3>1, <3>2 DEF ReconcileProtocol, Consistent
    <2>3. Covered(read) = Covered(of)
      BY <1>2, <2>1, ParamsComeBack DEF Covered
    <2> QED
      BY <1>2, <1>4, <2>1, <2>2, <2>3 DEF Binds, SelfSigned
  <1>5. OwnIsReadBack'
    <2>1. ASSUME reading'.of # NoAgent, reading'.agent.sig # NoSig, Consistent(reading'.of)
          PROVE  Binds(reading'.agent.sig, reading'.agent)
      <3>1. of # NoAgent /\ record.sig # NoSig /\ Consistent(of)
        BY <1>2, <1>3, <2>1
      <3>2. Binds(record.sig, read)
        BY <1>4, <3>1
      <3> QED
        BY <1>2, <1>3, <3>2
    <2> QED
      BY <2>1 DEF OwnIsReadBack, Binds, Covered, Consistent
  <1>6. OwnRecordBinds'
    BY <1>3 DEF OwnRecordBinds, Absence
  <1> QED
    BY <1>1, <1>5, <1>6 DEF OwnInv, IsOwn, SelfSigned, Covered

LEMMA QueryDropsOwn ==
  ASSUME OwnInv, NEW n \in AgentNames, QueryDrops(n) PROVE OwnInv'
  <1>1. UNCHANGED <<publisher, svcb>> /\ reading' = Unread
    BY DEF QueryDrops
  <1>2. reading'.agent.sig = NoSig
    BY <1>1, ConstantShapes
  <1>3. OwnIsReadBack' /\ OwnRecordBinds'
    BY <1>2 DEF OwnIsReadBack, OwnRecordBinds
  <1> QED
    BY <1>1, <1>3 DEF OwnInv, IsOwn, SelfSigned, Covered

LEMMA OwnIsNeverUnbound == ASSUME SignInv, OwnInv, Judge PROVE OwnInv'
  <1> DEFINE s == reading.agent.sig
             status == Status(s, reading.agent)
  <1>1. /\ UNCHANGED <<publisher, svcb>>
        /\ reading' = [reading EXCEPT !.at = "judged", !.status = status,
                                      !.covers = status = "verified",
                                      !.expires = IF status \in Good THEN s.exp ELSE 0]
    BY DEF Judge
  <1>2. Binds(s, reading.agent) => status # "unbound"
    BY DEF Status
  <1> HIDE DEF status
  <1>3. reading'.agent = reading.agent /\ reading'.of = reading.of /\ reading'.status = status
    BY <1>1 DEF SignInv, SigsAreGenuine, IsReading
  <1>4. OwnIsReadBack'
    BY <1>3 DEF OwnInv, OwnIsReadBack, Binds, Covered
  <1>5. OwnRecordBinds'
    BY <1>2, <1>3 DEF OwnInv, OwnIsReadBack, OwnRecordBinds, Consistent
  <1> QED
    BY <1>1, <1>4, <1>5 DEF OwnInv, IsOwn, SelfSigned, Covered

LEMMA OwnNext ==
  ASSUME SignedRecordAssumption, SignInv, OwnInv, [srNext]_srVars
  PROVE  OwnInv'
  <1>1. ASSUME srTick \/ UNCHANGED srVars PROVE OwnInv'
    <2>1. UNCHANGED <<publisher, svcb, reading>>
      BY <1>1 DEF srTick, srVars
    <2> QED
      BY <2>1, OwnStays DEF OwnInv, IsOwn, SelfSigned, Covered
  <1> QED
    BY <1>1, BuiltIsSelfSigned, PutWholeIsOwn, PutStandardIsOwn, EditedIsNotOwn,
       QueryReadsBack, QueryDropsOwn, OwnIsNeverUnbound DEF srNext

(* A record is verified only with the name, host, protocol and parameters  *)
(* of one signing of its zone (core/discoverer.py:2124-2197), whatever     *)
(* other tools edit or copy and whatever a demoted write leaves; and a     *)
(* publisher's own record, written whole and left alone, is never taken    *)
(* for a lifted signature (publisher.py:303-309).                          *)
THEOREM SignaturesAreExact ==
  ASSUME SignedRecordAssumption PROVE srSpec => []SignatureIsExact
  <1>1. SignInv /\ OwnInv => SignatureIsExact
    BY DEF SignInv, OwnInv, SignatureIsExact
  <1>2. srInit => SignInv /\ OwnInv
    BY SignInit, OwnInit
  <1>3. SignInv /\ OwnInv /\ [srNext]_srVars => SignInv' /\ OwnInv'
    BY SignNext, OwnNext
  <1> QED
    BY <1>1, <1>2, <1>3, PTL DEF srSpec

-----------------------------------------------------------------------------
(* Verification.  How far the comparison has come, and what a conclusion   *)
(* owes to it.                                                             *)

CheckFields == {"step", "full", "exists", "valid", "dnssec", "signed", "rrset", "left",
                "unevaluated", "refuted", "cert", "dane", "reachable", "connected"}
Early == {"svcb", "dnssec", "tlsa"}
Amid  == {"cert", "compare", "pkix"}
Late  == {"gate", "endpoint", "tls", "done"}

IsCheck(ck) ==
  /\ ck = [f \in CheckFields |-> ck[f]]
  /\ ck.step \in Early \cup Amid \cup Late
  /\ ck.rrset \in Seq(Association) /\ ck.left \in Seq(Association)
  /\ ck.unevaluated \in Nat /\ ck.refuted \in Nat
  /\ ck.unevaluated + ck.refuted <= Len(ck.rrset)
  /\ ck.dane \in {"true", "false", "unknown"}

(* Nothing has been asked of the endpoint yet.                             *)
Untold(ck, m) ==
  /\ m = <<>> /\ ck.rrset = <<>> /\ ck.signed = {} /\ ck.unevaluated = 0 /\ ck.refuted = 0

(* The first k usable associations have been compared with the certificate.*)
Compared(ck, m, k) ==
  LET usable == UsableOf(ck.rrset)
      kept == Kept(usable)
  IN
  /\ usable # <<>>
  /\ k \in 0 .. Len(kept)
  /\ Len(ck.left) = Len(kept) - k
  /\ \A i \in 1 .. Len(ck.left) : ck.left[i] = usable[k + i]
  /\ ck.unevaluated + ck.refuted = Excess(usable) + k
  /\ ck.step = "cert" => k = 0 /\ ck.refuted = 0
  /\ ck.step # "cert" =>
       /\ ck.unevaluated = 0 => Excess(usable) = 0 /\ \A i \in 1 .. k : Refutes(m[1], usable[i])
       /\ ck.unevaluated > 0 =>
            Excess(usable) > 0 \/ \E i \in 1 .. k : ~ Refutes(m[1], usable[i])

(* What was presented: the first certificate, and one that passed PKIX.    *)
Presented(ck, m) ==
  /\ IF ck.step = "cert" THEN m = <<>>
     ELSE m \in Seq(Certificates \cup {Down}) /\ Len(m) \in {1, 2} /\ m[1] = ck.cert
  /\ Len(m) = 2 => m[2] = Down \/ m[2].chains
  /\ ck.step = "pkix" =>
       ck.left # <<>> /\ ck.left[1].usage = 1 /\ SameCertificate(m[1], ck.left[1])

(* What a pass and a mismatch rest on.                                     *)
Earned(signeds, rrset, m) ==
  /\ "TLSA" \in signeds
  /\ \E i \in DOMAIN m, j \in DOMAIN rrset :
       LET a == rrset[j] IN
       /\ a.usage = 3 \/ (a.usage = 1 /\ m[i].chains)
       /\ a.value = (CASE a.selector = "cert" -> m[i].id
                       [] a.selector = "key" -> m[i].key)

Refuted(signeds, rrset, m) ==
  /\ "TLSA" \in signeds
  /\ m # <<>>
  /\ Cardinality(EndEntity(rrset)) \in 1 .. MaxCompared
  /\ \A j \in EndEntity(rrset) : Refutes(m[1], rrset[j])

(* A conclusion, and after the gate one that a validated name leads to.    *)
Concludes(ck, m) ==
  /\ Len(m) <= 2
  /\ ~ ck.full => ck.dane # "false" /\ m = <<>>
  /\ ck.full /\ ck.dane = "true" => Earned(ck.signed, ck.rrset, m)
  /\ ck.full /\ ck.step = "gate" => (ck.dane = "false" <=> Refuted(ck.signed, ck.rrset, m))
  /\ ck.full /\ ck.step # "gate" => (ck.dane = "false" <=> ck.dnssec /\ Refuted(ck.signed, ck.rrset, m))
  /\ ck.step # "gate" /\ ck.dane = "true" => ck.dnssec

CheckInv(ck, m) ==
  /\ IsCheck(ck)
  /\ ck.step \in Early => Untold(ck, m)
  /\ ck.step \in Early \cup Amid => ck.dane = "unknown" /\ ~ ck.reachable
  /\ ck.step \in Amid => /\ ck.full /\ "TLSA" \in ck.signed
                         /\ Presented(ck, m) /\ \E k \in Nat : Compared(ck, m, k)
  /\ ck.step \in Late => Concludes(ck, m)
  /\ ck.step \in {"tlsa"} \cup Amid \cup {"gate", "endpoint", "tls"} => ck.valid
  /\ ck.step = "done" /\ ~ ck.valid => ck.dane = "unknown" /\ ~ ck.reachable

IsWorld(w) ==
  /\ w = [f \in {"kind", "ad", "tlsa", "shown", "portAllowed", "stage", "flaps"} |-> w[f]]
  /\ w.tlsa \in Seq(Association)
  /\ w.shown \in [1 .. Addresses -> Certificates \cup {Down}]
  /\ w.flaps \in 0 .. MaxFlaps

-----------------------------------------------------------------------------
(* The operators.                                                          *)
LEMMA FirstIs ==
  ASSUME NEW as, as \subseteq Nat, as # {}
  PROVE  First(as) \in as
  <1>1. \E a \in as : \A b \in as : a <= b
    BY LeastNat
  <1> QED
    BY <1>1 DEF First

LEMMA UsableIs ==
  ASSUME NEW rrset \in Seq(Association)
  PROVE  /\ UsableOf(rrset) \in Seq(Association)
         /\ Len(UsableOf(rrset)) = Cardinality(EndEntity(rrset))
         /\ Cardinality(EndEntity(rrset)) \in 0 .. Len(rrset)
         /\ \A i \in 1 .. Len(UsableOf(rrset)) :
              \E j \in EndEntity(rrset) : UsableOf(rrset)[i] = rrset[j]
         /\ \A j \in EndEntity(rrset) :
              \E i \in 1 .. Len(UsableOf(rrset)) : UsableOf(rrset)[i] = rrset[j]
  <1>1. EndEntity(rrset) = {j \in DOMAIN rrset : IsUsable(rrset[j])}
    BY DEF EndEntity, IsUsable
  <1>2. UsableOf(rrset) = Pick(rrset, EndEntity(rrset))
    BY <1>1 DEF UsableOf
  <1>3. EndEntity(rrset) \in SUBSET (DOMAIN rrset)
    BY DEF EndEntity
  <1>4. Len(rrset) \in Nat
    BY LenProperties
  <1>5. \A i \in EndEntity(rrset) : i \in DOMAIN rrset
    BY <1>3
  <1> HIDE DEF EndEntity
  <1>6. /\ Pick(rrset, EndEntity(rrset)) \in Seq(Association)
        /\ Len(Pick(rrset, EndEntity(rrset))) = Cardinality(EndEntity(rrset))
        /\ Cardinality(EndEntity(rrset)) \in 0 .. Len(rrset)
    BY <1>3, PickKeeps
  <1>7. \A m \in 1 .. Cardinality(EndEntity(rrset)) :
          \E i \in EndEntity(rrset) : Pick(rrset, EndEntity(rrset))[m] = rrset[i]
    BY <1>3, PickKeeps
  <1>8. \A i \in EndEntity(rrset) :
          \E m \in 1 .. Cardinality(EndEntity(rrset)) : Pick(rrset, EndEntity(rrset))[m] = rrset[i]
    BY <1>3, PickKeeps
  <1> QED
    BY <1>2, <1>6, <1>7, <1>8

LEMMA KeptIs ==
  ASSUME VerificationAssumption, NEW usable \in Seq(Association)
  PROVE  /\ Excess(usable) \in Nat
         /\ Excess(usable) = 0 <=> Len(usable) <= MaxCompared
         /\ Kept(usable) \in Seq(Association)
         /\ Len(Kept(usable)) = Len(usable) - Excess(usable)
         /\ \A i \in 1 .. Len(Kept(usable)) : Kept(usable)[i] = usable[i]
  <1>1. MaxCompared \in Nat /\ Len(usable) \in Nat
    BY DEF VerificationAssumption
  <1>2. /\ Excess(usable) \in Nat /\ Excess(usable) <= Len(usable)
        /\ Excess(usable) = 0 <=> Len(usable) <= MaxCompared
    BY <1>1 DEF Excess
  <1> DEFINE n == Len(usable) - Excess(usable)
  <1>3. n \in 0 .. Len(usable)
    BY <1>1, <1>2
  <1>4. Kept(usable) = SubSeq(usable, 1, n)
    BY DEF Kept
  <1> HIDE DEF n
  <1>5. /\ SubSeq(usable, 1, n) \in Seq(Association) /\ Len(SubSeq(usable, 1, n)) = n
        /\ \A i \in 1 .. n : SubSeq(usable, 1, n)[i] = usable[i]
    BY <1>1, <1>3, SubSeqProperties
  <1> QED
    BY <1>2, <1>4, <1>5 DEF n


(* A conclusion is one about the associations that were read.              *)
LEMMA Ends ==
  ASSUME NEW ck, NEW m, NEW d \in {"true", "false", "unknown"},
         IsCheck(ck), ck.valid, Len(m) <= 2,
         ~ ck.full => d # "false" /\ m = <<>>,
         ck.full /\ d = "true" => Earned(ck.signed, ck.rrset, m),
         ck.full => (d = "false" <=> Refuted(ck.signed, ck.rrset, m))
  PROVE  CheckInv(Concluded(ck, d), m)
  <1> DEFINE r == Concluded(ck, d)
  <1>1. /\ r = [f \in CheckFields |-> r[f]]
        /\ r.step = "gate" /\ r.dane = d /\ r.left = <<>>
        /\ r.full = ck.full /\ r.valid = ck.valid /\ r.rrset = ck.rrset
        /\ r.signed = ck.signed /\ r.unevaluated = ck.unevaluated /\ r.refuted = ck.refuted
    BY DEF Concluded, IsCheck, CheckFields
  <1>2. r.left \in Seq(Association)
    BY <1>1, EmptySeq
  <1> HIDE DEF r
  <1>3. IsCheck(r)
    BY <1>1, <1>2 DEF IsCheck, Late
  <1>5. Concludes(r, m)
    BY <1>1 DEF Concludes
  <1>6. CheckInv(r, m)
    BY <1>1, <1>3, <1>5 DEF CheckInv, Early, Amid
  <1> QED
    BY <1>6 DEF r

(* Nothing known of the endpoint refutes nothing.                          *)
LEMMA UntoldIsUnrefuted ==
  ASSUME NEW signeds, NEW rrset, NEW m, m = <<>> \/ "TLSA" \notin signeds
  PROVE  ~ Refuted(signeds, rrset, m)
  BY DEF Refuted

LEMMA CheckSvcbKeeps ==
  ASSUME CheckInv(check, met), CheckSvcb
  PROVE  CheckInv(check', met')
  <1>1. /\ check' = [f \in CheckFields |-> check'[f]]
        /\ check'.step = "dnssec" /\ check'.full = check.full /\ check'.rrset = check.rrset
        /\ check'.left = check.left /\ check'.signed = check.signed
        /\ check'.unevaluated = check.unevaluated /\ check'.refuted = check.refuted
        /\ check'.dane = check.dane /\ check'.reachable = check.reachable
    BY DEF CheckSvcb, Set, CheckInv, IsCheck, CheckFields
  <1>2. met' = met /\ check.step = "svcb"
    BY DEF CheckSvcb
  <1> QED
    BY <1>1, <1>2 DEF CheckInv, IsCheck, Early, Amid, Late, Untold

LEMMA CheckDnssecKeeps ==
  ASSUME CheckInv(check, met), CheckDnssecDetail
  PROVE  CheckInv(check', met')
  <1>0. met' = met /\ check.step = "dnssec" /\ met = <<>> /\ check.signed = {}
    BY DEF CheckDnssecDetail, CheckInv, Early, Untold
  <1>1. /\ check' = [f \in CheckFields |-> check'[f]]
        /\ check'.step = IF check.valid THEN "tlsa" ELSE "done"
        /\ check'.full = check.full /\ check'.rrset = check.rrset
        /\ check'.left = check.left /\ check'.signed = check.signed /\ check'.valid = check.valid
        /\ check'.unevaluated = check.unevaluated /\ check'.refuted = check.refuted
        /\ check'.dane = check.dane /\ check'.reachable = check.reachable
    BY DEF CheckDnssecDetail, Set, CheckInv, IsCheck, CheckFields
  <1>2. ~ Refuted(check'.signed, check'.rrset, met') /\ Len(met') <= 2
    BY <1>0, UntoldIsUnrefuted
  <1>3. Untold(check', met') /\ check'.dane = "unknown" /\ ~ check'.reachable /\ IsCheck(check')
    BY <1>0, <1>1 DEF CheckInv, IsCheck, Early, Amid, Late, Untold
  <1>4. CASE check.valid
    BY <1>1, <1>3, <1>4 DEF CheckInv, Early, Amid, Late
  <1>5. CASE ~ check.valid
    <2>1. Concludes(check', met')
      BY <1>0, <1>1, <1>2, <1>3, <1>5 DEF Concludes
    <2> QED
      BY <1>1, <1>3, <1>5, <2>1 DEF CheckInv, Early, Amid, Late
  <1> QED
    BY <1>4, <1>5

LEMMA CheckTlsaKeeps ==
  ASSUME VerificationAssumption, CheckInv(check, met), IsWorld(world), CheckTlsa
  PROVE  CheckInv(check', met')
  <1> DEFINE usable == UsableOf(world.tlsa)
             read == [check EXCEPT !.rrset = world.tlsa, !.signed = world.ad]
             go == [read EXCEPT !.step = "cert", !.left = Kept(usable),
                                !.unevaluated = Excess(usable)]
  <1>0. /\ met' = met /\ check.step = "tlsa" /\ met = <<>> /\ Len(met) = 0
        /\ check.valid /\ IsCheck(check) /\ check.unevaluated = 0 /\ check.refuted = 0
        /\ check.dane = "unknown" /\ ~ check.reachable
    BY DEF CheckTlsa, CheckInv, Early, Untold
  <1>1. world.tlsa \in Seq(Association) /\ Len(world.tlsa) \in Nat
    BY LenProperties DEF IsWorld
  <1>2. /\ read = [f \in CheckFields |-> read[f]]
        /\ read.rrset = world.tlsa /\ read.signed = world.ad /\ read.full = check.full
        /\ read.valid = check.valid /\ read.step = check.step /\ read.left = check.left
        /\ read.unevaluated = 0 /\ read.refuted = 0 /\ read.dane = check.dane
        /\ read.reachable = check.reachable
    BY <1>0 DEF IsCheck, CheckFields
  <1>3. \/ check' = Concluded(check, "unknown")
        \/ world.tlsa = <<>> /\ check' = Concluded(read, "unknown")
        \/ world.tlsa # <<>> /\ ~ check.full /\ check' = Concluded(read, "true")
        \/ /\ world.tlsa # <<>> /\ check.full /\ ("TLSA" \notin world.ad \/ usable = <<>>)
           /\ check' = Concluded(read, "unknown")
        \/ /\ check.full /\ "TLSA" \in world.ad /\ usable # <<>> /\ check' = go
    BY DEF CheckTlsa, Set
  <1>4. go = [read EXCEPT !.step = "cert", !.left = Kept(usable),
                                !.unevaluated = Excess(usable)]
    OBVIOUS
  <1> HIDE DEF read, go
  <1>5. IsCheck(read)
    BY <1>0, <1>1, <1>2 DEF IsCheck
  <1>6. /\ ~ Refuted(check.signed, check.rrset, met) /\ ~ Refuted(read.signed, read.rrset, met)
        /\ Len(met) <= 2
    BY <1>0, UntoldIsUnrefuted
  <1>7. CheckInv(Concluded(check, "unknown"), met) /\ CheckInv(Concluded(read, "unknown"), met)
    <2>1. CheckInv(Concluded(check, "unknown"), met)
      BY <1>0, <1>6, Ends
    <2>2. CheckInv(Concluded(read, "unknown"), met)
      BY <1>0, <1>2, <1>5, <1>6, Ends
    <2> QED
      BY <2>1, <2>2
  <1>8. ~ check.full => CheckInv(Concluded(read, "true"), met)
    BY <1>0, <1>2, <1>5, <1>6, Ends
  <1>9. ASSUME check.full, "TLSA" \in world.ad, usable # <<>>, check' = go
        PROVE  CheckInv(check', met')
    <2>1. /\ check' = [f \in CheckFields |-> check'[f]]
          /\ check'.step = "cert" /\ check'.left = Kept(usable)
          /\ check'.unevaluated = Excess(usable) /\ check'.refuted = 0
          /\ check'.rrset = world.tlsa /\ check'.signed = world.ad /\ check'.full
          /\ check'.valid /\ check'.dane = "unknown" /\ ~ check'.reachable
      BY <1>0, <1>2, <1>4, <1>9 DEF CheckFields
    <2>2. /\ usable \in Seq(Association) /\ Len(usable) \in 0 .. Len(world.tlsa)
      BY <1>1, UsableIs
    <2>3. usable = UsableOf(world.tlsa)
      OBVIOUS
    <2> HIDE DEF usable
    <2>4. /\ Excess(usable) \in Nat /\ Kept(usable) \in Seq(Association)
          /\ Len(Kept(usable)) = Len(usable) - Excess(usable)
          /\ Len(Kept(usable)) \in Nat
          /\ \A i \in 1 .. Len(Kept(usable)) : Kept(usable)[i] = usable[i]
      BY <2>2, KeptIs, LenProperties
    <2>5. IsCheck(check')
      <3>1. Excess(usable) + 0 <= Len(world.tlsa)
        BY <1>1, <2>2, <2>4
      <3> QED
        BY <1>1, <2>1, <2>4, <3>1 DEF IsCheck, Amid
    <2>6. Compared(check', met', 0)
      <3>1. \A i \in 1 .. Len(Kept(usable)) : Kept(usable)[i] = usable[0 + i]
        BY <2>4
      <3>2. /\ 0 \in 0 .. Len(Kept(usable)) /\ Len(Kept(usable)) = Len(Kept(usable)) - 0
            /\ Excess(usable) + 0 = Excess(usable) + 0
        BY <2>4
      <3> QED
        BY <1>9, <2>1, <2>3, <3>1, <3>2 DEF Compared
    <2>7. Presented(check', met')
      BY <1>0, <2>1 DEF Presented
    <2> QED
      BY <1>9, <2>1, <2>5, <2>6, <2>7 DEF CheckInv, Early, Amid, Late
  <1> QED
    BY <1>0, <1>3, <1>7, <1>8, <1>9


(* What is to be compared is usable, and in the set that was read.         *)
LEMMA RefutesIs ==
  ASSUME NEW cert, NEW a, a.selector \in {"cert", "key"}
  PROVE  Refutes(cert, a) <=> CanCompare(cert, a) /\ ~ AssociationMatches(cert, a)
  BY DEF Refutes, CanCompare, AssociationMatches

LEMMA HeadIs ==
  ASSUME VerificationAssumption, NEW ck, NEW m, NEW k \in Nat, IsCheck(ck),
         Compared(ck, m, k), ck.left # <<>>
  PROVE  LET usable == UsableOf(ck.rrset)
             a == Head(ck.left)
         IN  /\ k + 1 \in 1 .. Len(Kept(usable)) /\ k + 1 \in 1 .. Len(usable)
             /\ ck.left[1] = a /\ usable[k + 1] = a
             /\ \E j \in EndEntity(ck.rrset) : ck.rrset[j] = a
             /\ a.usage \in {1, 3} /\ a.selector \in {"cert", "key"}
             /\ Len(Tail(ck.left)) = Len(ck.left) - 1 /\ Tail(ck.left) \in Seq(Association)
             /\ \A i \in 1 .. Len(Tail(ck.left)) : Tail(ck.left)[i] = ck.left[i + 1]
  <1> DEFINE usable == UsableOf(ck.rrset)
  <1>1. ck.rrset \in Seq(Association) /\ ck.left \in Seq(Association)
    BY DEF IsCheck
  <1>2. /\ usable \in Seq(Association)
        /\ \A i \in 1 .. Len(usable) : \E j \in EndEntity(ck.rrset) : usable[i] = ck.rrset[j]
    BY <1>1, UsableIs
  <1>3. /\ k \in 0 .. Len(Kept(usable)) /\ Len(ck.left) = Len(Kept(usable)) - k
        /\ \A i \in 1 .. Len(ck.left) : ck.left[i] = usable[k + i]
    BY DEF Compared
  <1> HIDE DEF usable
  <1>4. /\ Excess(usable) \in Nat /\ Len(Kept(usable)) = Len(usable) - Excess(usable)
        /\ Len(usable) \in Nat
    BY <1>2, KeptIs, LenProperties
  <1>5. Len(ck.left) \in Nat /\ Len(ck.left) > 0 /\ Head(ck.left) = ck.left[1]
    BY <1>1, LenProperties, EmptySeq
  <1>6. k + 1 \in 1 .. Len(Kept(usable)) /\ k + 1 \in 1 .. Len(usable)
    BY <1>3, <1>4, <1>5
  <1>7. usable[k + 1] = Head(ck.left)
    <2>1. 1 \in 1 .. Len(ck.left)
      BY <1>5
    <2> QED
      BY <1>3, <1>5, <2>1
  <1>8. PICK j \in EndEntity(ck.rrset) : usable[k + 1] = ck.rrset[j]
    BY <1>2, <1>6
  <1>9. Head(ck.left).usage \in {1, 3} /\ Head(ck.left).selector \in {"cert", "key"}
    BY <1>7, <1>8 DEF EndEntity
  <1>10. /\ Len(Tail(ck.left)) = Len(ck.left) - 1 /\ Tail(ck.left) \in Seq(Association)
         /\ \A i \in 1 .. Len(Tail(ck.left)) : Tail(ck.left)[i] = ck.left[i + 1]
    BY <1>1, HeadTailProperties
  <1> QED
    BY <1>5, <1>6, <1>7, <1>8, <1>9, <1>10 DEF usable

(* The comparison goes on to the next association.                         *)
GoesOn(ck, m, n) ==
  \/ /\ n.unevaluated = ck.unevaluated + 1 /\ n.refuted = ck.refuted
     /\ ~ Refutes(m[1], Head(ck.left))
  \/ /\ n.unevaluated = ck.unevaluated /\ n.refuted = ck.refuted + 1
     /\ Refutes(m[1], Head(ck.left))

IsNext(ck, n) ==
  /\ n = [f \in CheckFields |-> n[f]] /\ n.step = "compare" /\ n.left = Tail(ck.left)
  /\ n.full = ck.full /\ n.valid = ck.valid /\ n.rrset = ck.rrset
  /\ n.signed = ck.signed /\ n.dane = ck.dane /\ n.reachable = ck.reachable

MidWay(ck, m) == CheckInv(ck, m) /\ ck.step \in {"compare", "pkix"} /\ ck.left # <<>>

LEMMA Advances ==
  ASSUME VerificationAssumption, MidWay(check, met), IsNext(check, check'),
         GoesOn(check, met, check'), Presented(check', met'), met'[1] = met[1]
  PROVE  CheckInv(check', met')
  <1> DEFINE usable == UsableOf(check.rrset)
  <1>0. /\ check'.left = Tail(check.left) /\ check'.rrset = check.rrset /\ check'.step = "compare"
        /\ check.step \in {"compare", "pkix"} /\ check.left # <<>>
    BY DEF MidWay, IsNext
  <1>1. /\ IsCheck(check) /\ check.full /\ "TLSA" \in check.signed /\ check.valid
        /\ check.dane = "unknown" /\ ~ check.reachable
    BY DEF MidWay, CheckInv, Amid
  <1>2. PICK k \in Nat : Compared(check, met, k)
    BY <1>0 DEF MidWay, CheckInv, Amid
  <1>3. /\ k + 1 \in 1 .. Len(Kept(usable)) /\ k + 1 \in 1 .. Len(usable)
        /\ usable[k + 1] = Head(check.left)
        /\ Len(check'.left) = Len(check.left) - 1 /\ check'.left \in Seq(Association)
        /\ \A i \in 1 .. Len(check'.left) : check'.left[i] = check.left[i + 1]
    BY <1>0, <1>1, <1>2, HeadIs
  <1>4. /\ usable # <<>> /\ Len(check.left) = Len(Kept(usable)) - k
        /\ \A i \in 1 .. Len(check.left) : check.left[i] = usable[k + i]
        /\ check.unevaluated + check.refuted = Excess(usable) + k
        /\ check.unevaluated = 0 => Excess(usable) = 0 /\ \A i \in 1 .. k : Refutes(met[1], usable[i])
        /\ check.unevaluated > 0 =>
             Excess(usable) > 0 \/ \E i \in 1 .. k : ~ Refutes(met[1], usable[i])
    BY <1>0, <1>2 DEF Compared
  <1>5. usable \in Seq(Association) /\ Len(usable) \in 0 .. Len(check.rrset)
        /\ check.rrset \in Seq(Association)
    BY <1>1, UsableIs DEF IsCheck
  <1>6. usable = UsableOf(check'.rrset)
    BY <1>0
  <1> HIDE DEF usable
  <1>7. /\ Excess(usable) \in Nat /\ Len(Kept(usable)) = Len(usable) - Excess(usable)
        /\ Len(usable) \in Nat /\ Len(check.rrset) \in Nat /\ Len(check.left) \in Nat
        /\ check.unevaluated \in Nat /\ check.refuted \in Nat
    BY <1>1, <1>5, KeptIs, LenProperties DEF IsCheck
  <1>8. /\ check'.unevaluated \in Nat /\ check'.refuted \in Nat
        /\ check'.unevaluated + check'.refuted = Excess(usable) + (k + 1)
        /\ check'.unevaluated + check'.refuted <= Len(check.rrset)
    <2> DEFINE e == Excess(usable) n == Len(Kept(usable)) r == Len(check.rrset) u == Len(usable)
               un == check.unevaluated re == check.refuted
    <2>1. /\ e \in Nat /\ n = u - e /\ u \in Nat /\ r \in Nat /\ u <= r /\ un \in Nat /\ re \in Nat
          /\ un + re = e + k /\ k + 1 <= n
      BY <1>3, <1>4, <1>5, <1>7
    <2>2. \/ check'.unevaluated = un + 1 /\ check'.refuted = re
          \/ check'.unevaluated = un /\ check'.refuted = re + 1
      BY DEF GoesOn
    <2> HIDE DEF e, n, r, u, un, re
    <2>3. /\ check'.unevaluated \in Nat /\ check'.refuted \in Nat
          /\ check'.unevaluated + check'.refuted = e + (k + 1)
          /\ check'.unevaluated + check'.refuted <= r
      BY <2>1, <2>2
    <2> QED
      BY <2>3 DEF e, r
  <1>9. IsCheck(check')
    BY <1>1, <1>3, <1>5, <1>8 DEF IsCheck, IsNext, Amid
  <1>10. Compared(check', met', k + 1)
    <2> DEFINE n == Len(Kept(usable)) l == Len(check.left)
    <2>a. n \in Nat /\ l \in Nat /\ l = n - k /\ k + 1 \in 1 .. n /\ Len(check'.left) = l - 1
      BY <1>3, <1>4, <1>5, <1>7, KeptIs, LenProperties
    <2> HIDE DEF n, l
    <2>b. k + 1 \in 0 .. n /\ Len(check'.left) = n - (k + 1)
      BY <2>a
    <2>1. /\ k + 1 \in 0 .. Len(Kept(usable)) /\ Len(check'.left) = Len(Kept(usable)) - (k + 1)
      BY <2>b DEF n
    <2>2. ASSUME NEW i \in 1 .. Len(check'.left)
          PROVE  check'.left[i] = usable[(k + 1) + i]
      <3>0. i \in 1 .. l - 1
        BY <2>a
      <3>1. i + 1 \in 1 .. l /\ k + (i + 1) = (k + 1) + i
        BY <2>a, <3>0
      <3>2. check'.left[i] = check.left[i + 1] /\ check.left[i + 1] = usable[k + (i + 1)]
        BY <1>3, <1>4, <3>1 DEF l
      <3> QED
        BY <3>1, <3>2
    <2>3. check'.unevaluated = 0 =>
             Excess(usable) = 0 /\ \A i \in 1 .. k + 1 : Refutes(met'[1], usable[i])
      <3>1. SUFFICES ASSUME check'.unevaluated = 0
                     PROVE  Excess(usable) = 0 /\ \A i \in 1 .. k + 1 : Refutes(met[1], usable[i])
        OBVIOUS
      <3>2. check.unevaluated = 0 /\ Refutes(met[1], Head(check.left))
        BY <1>7, <3>1 DEF GoesOn
      <3>3. \A i \in 1 .. k + 1 : i \in 1 .. k \/ i = k + 1
        OBVIOUS
      <3> QED
        BY <1>3, <1>4, <3>2, <3>3
    <2>4. check'.unevaluated > 0 =>
             Excess(usable) > 0 \/ \E i \in 1 .. k + 1 : ~ Refutes(met'[1], usable[i])
      <3>1. CASE check.unevaluated > 0
        <4>1. \A i \in 1 .. k : i \in 1 .. k + 1
          OBVIOUS
        <4> QED
          BY <1>4, <3>1, <4>1
      <3>2. CASE ~ Refutes(met[1], Head(check.left))
        <4>1. k + 1 \in 1 .. k + 1
          OBVIOUS
        <4> QED
          BY <1>3, <3>2, <4>1
      <3> QED
        BY <1>7, <3>1, <3>2 DEF GoesOn
    <2> QED
      BY <1>0, <1>4, <1>6, <1>8, <2>1, <2>2, <2>3, <2>4 DEF Compared
  <1> QED
    BY <1>0, <1>1, <1>9, <1>10 DEF CheckInv, IsNext, Early, Amid, Late

(* An association that does not refute the certificate is the end of a     *)
(* mismatch.                                                               *)
LEMMA OneIsEnough ==
  ASSUME NEW signeds, NEW rrset, NEW m, NEW j \in EndEntity(rrset), ~ Refutes(m[1], rrset[j])
  PROVE  ~ Refuted(signeds, rrset, m)
  BY DEF Refuted


LEMMA UpIs ==
  ASSUME VerificationAssumption, IsWorld(world)
  PROVE  /\ Up \subseteq Nat /\ Chaining \subseteq Nat
         /\ Up # {} => world.shown[First(Up)] \in Certificates \cup {Down}
         /\ Chaining # {} => /\ world.shown[First(Chaining)] \in Certificates \cup {Down}
                             /\ world.shown[First(Chaining)].chains
  <1>1. Up \subseteq 1 .. Addresses /\ Chaining \subseteq Up /\ Up \subseteq Nat
    BY DEF Up, Chaining, VerificationAssumption
  <1>2. \A a \in 1 .. Addresses : world.shown[a] \in Certificates \cup {Down}
    BY DEF IsWorld
  <1>3. Up # {} => First(Up) \in Up
    BY <1>1, FirstIs
  <1>4. Chaining # {} => First(Chaining) \in Chaining
    BY <1>1, FirstIs
  <1>5. \A a \in Chaining : world.shown[a].chains
    BY DEF Chaining
  <1> QED
    BY <1>1, <1>2, <1>3, <1>4, <1>5

LEMMA FetchCertKeeps ==
  ASSUME VerificationAssumption, CheckInv(check, met), IsWorld(world), FetchCert
  PROVE  CheckInv(check', met')
  <1>0. /\ check.step = "cert" /\ IsCheck(check) /\ check.full /\ "TLSA" \in check.signed
        /\ check.valid /\ check.dane = "unknown" /\ ~ check.reachable /\ Presented(check, met)
        /\ \E k \in Nat : Compared(check, met, k)
    BY DEF FetchCert, CheckInv, Amid
  <1>1. met = <<>> /\ Len(met) <= 2
    BY <1>0 DEF Presented
  <1>2. CASE check' = Concluded(check, "unknown") /\ met' = met
    BY <1>0, <1>1, <1>2, Ends, UntoldIsUnrefuted
  <1>3. CASE /\ Up # {}
             /\ check' = [check EXCEPT !.step = "compare", !.cert = world.shown[First(Up)]]
             /\ met' = <<world.shown[First(Up)]>>
    <2>1. /\ check' = [f \in CheckFields |-> check'[f]]
          /\ check'.step = "compare" /\ check'.cert = world.shown[First(Up)]
          /\ check'.full = check.full /\ check'.valid = check.valid
          /\ check'.rrset = check.rrset /\ check'.left = check.left
          /\ check'.signed = check.signed /\ check'.dane = check.dane
          /\ check'.unevaluated = check.unevaluated /\ check'.refuted = check.refuted
          /\ check'.reachable = check.reachable
      BY <1>0, <1>3 DEF IsCheck, CheckFields
    <2>2. PICK k \in Nat : Compared(check, met, k)
      BY <1>0
    <2>3. /\ k = 0 /\ check.refuted = 0
          /\ check.unevaluated + check.refuted = Excess(UsableOf(check.rrset)) + k
      BY <1>0, <2>2 DEF Compared
    <2>4. Excess(UsableOf(check.rrset)) \in Nat /\ check.unevaluated \in Nat
      BY <1>0, UsableIs, KeptIs DEF IsCheck
    <2>5. check.unevaluated = Excess(UsableOf(check.rrset))
      BY <2>3, <2>4
    <2>6. Compared(check', met', 0)
      BY <2>1, <2>2, <2>3, <2>4, <2>5 DEF Compared
    <2>7. Presented(check', met')
      <3> DEFINE cert == world.shown[First(Up)]
      <3>1. cert \in Certificates \cup {Down}
        BY <1>3, UpIs
      <3> HIDE DEF cert
      <3>2. <<cert>> \in Seq(Certificates \cup {Down}) /\ Len(<<cert>>) = 1 /\ <<cert>>[1] = cert
        BY <3>1
      <3>3. met' = <<cert>> /\ check'.cert = cert
        BY <1>3, <2>1 DEF cert
      <3> QED
        BY <2>1, <3>2, <3>3 DEF Presented
    <2>8. IsCheck(check')
      BY <1>0, <2>1 DEF IsCheck, Amid
    <2> QED
      BY <1>0, <2>1, <2>6, <2>7, <2>8 DEF CheckInv, Early, Amid, Late
  <1> QED
    BY <1>2, <1>3 DEF FetchCert, Set

(* What the comparison knows of the association at hand.                   *)
LEMMA AtHand ==
  ASSUME VerificationAssumption, MidWay(check, met)
  PROVE  LET a == Head(check.left) IN
         /\ IsCheck(check) /\ check.full /\ check.valid /\ "TLSA" \in check.signed
         /\ check.dane = "unknown" /\ ~ check.reachable
         /\ Presented(check, met) /\ Len(met) \in {1, 2}
         /\ met \in Seq(Certificates \cup {Down}) /\ met[1] = check.cert
         /\ check.left[1] = a /\ a.usage \in {1, 3} /\ a.selector \in {"cert", "key"}
         /\ \E j \in EndEntity(check.rrset) : check.rrset[j] = a
  <1>1. /\ IsCheck(check) /\ check.full /\ check.valid /\ "TLSA" \in check.signed
        /\ check.dane = "unknown" /\ ~ check.reachable /\ Presented(check, met)
        /\ check.step \in {"compare", "pkix"} /\ check.left # <<>>
    BY DEF MidWay, CheckInv, Amid
  <1>2. PICK k \in Nat : Compared(check, met, k)
    BY DEF MidWay, CheckInv, Amid
  <1>3. Len(met) \in {1, 2} /\ met \in Seq(Certificates \cup {Down}) /\ met[1] = check.cert
    BY <1>1 DEF Presented
  <1>4. LET a == Head(check.left) IN
         /\ check.left[1] = a /\ a.usage \in {1, 3} /\ a.selector \in {"cert", "key"}
         /\ \E j \in EndEntity(check.rrset) : check.rrset[j] = a
    BY <1>1, <1>2, HeadIs
  <1> QED
    BY <1>1, <1>3, <1>4

(* A certificate that matches earns the pass.                              *)
LEMMA MatchEarns ==
  ASSUME NEW signeds, NEW rrset, NEW m, NEW i \in DOMAIN m, NEW j \in EndEntity(rrset),
         "TLSA" \in signeds, rrset[j].usage = 3 \/ (rrset[j].usage = 1 /\ m[i].chains),
         AssociationMatches(m[i], rrset[j])
  PROVE  Earned(signeds, rrset, m)
  <1>1. j \in DOMAIN rrset /\ rrset[j].selector \in {"cert", "key"}
    BY DEF EndEntity
  <1>2. rrset[j].value = (CASE rrset[j].selector = "cert" -> m[i].id
                            [] rrset[j].selector = "key" -> m[i].key)
    BY <1>1 DEF AssociationMatches
  <1> QED
    BY <1>1, <1>2 DEF Earned

LEMMA CompareKeeps ==
  ASSUME VerificationAssumption, CheckInv(check, met), Compare
  PROVE  CheckInv(check', met')
  <1> DEFINE a == Head(check.left)
  <1>0. MidWay(check, met) /\ check.step = "compare" /\ check.left # <<>> /\ met' = met
    BY DEF Compare, MidWay
  <1>1. /\ IsCheck(check) /\ check.full /\ check.valid /\ "TLSA" \in check.signed
        /\ Presented(check, met) /\ Len(met) \in {1, 2}
        /\ met \in Seq(Certificates \cup {Down}) /\ met[1] = check.cert
        /\ check.left[1] = a /\ a.usage \in {1, 3} /\ a.selector \in {"cert", "key"}
        /\ check.dane = "unknown" /\ ~ check.reachable
    BY <1>0, AtHand
  <1>2. PICK j \in EndEntity(check.rrset) : check.rrset[j] = a
    BY <1>0, AtHand
  <1>3. Refutes(met[1], a) <=> CanCompare(check.cert, a) /\ ~ AssociationMatches(check.cert, a)
    BY <1>1, RefutesIs
  <1>4. \/ ~ CanCompare(check.cert, a) /\ check' = Unevaluated
        \/ CanCompare(check.cert, a) /\ ~ AssociationMatches(check.cert, a) /\ check' = Missed
        \/ /\ AssociationMatches(check.cert, a) /\ CanCompare(check.cert, a) /\ a.usage = 1
           /\ check' = [check EXCEPT !.step = "pkix"]
        \/ /\ AssociationMatches(check.cert, a) /\ a.usage # 1
           /\ check' = Concluded(check, "true")
    BY DEF Compare, Set
  <1> HIDE DEF a
  <1>5. CASE check' \in {Unevaluated, Missed}
    <2>1. IsNext(check, check')
      BY <1>0, <1>1, <1>5 DEF IsNext, IsCheck, Unevaluated, Missed, Next1, CheckFields
    <2>2. /\ check' = Unevaluated => check'.unevaluated = check.unevaluated + 1
                                     /\ check'.refuted = check.refuted
          /\ check' = Missed => check'.unevaluated = check.unevaluated
                                /\ check'.refuted = check.refuted + 1
      BY <1>1 DEF IsCheck, Unevaluated, Missed, Next1, CheckFields
    <2>3. check.unevaluated + 1 # check.unevaluated /\ check.refuted + 1 # check.refuted
      BY <1>1 DEF IsCheck
    <2>4. GoesOn(check, met, check')
      <3>1. CASE check' = Unevaluated /\ ~ CanCompare(check.cert, a)
        BY <1>3, <2>2, <3>1 DEF GoesOn, a
      <3>2. CASE check' = Missed /\ CanCompare(check.cert, a) /\ ~ AssociationMatches(check.cert, a)
        BY <1>3, <2>2, <3>2 DEF GoesOn, a
      <3>3. check'.step = "compare" /\ check'.left = Tail(check.left)
        BY <2>1 DEF IsNext
      <3>4. Concluded(check, "true").step # "compare" /\ [check EXCEPT !.step = "pkix"].step # "compare"
        BY <1>1 DEF IsCheck, Concluded, CheckFields
      <3> QED
        BY <1>4, <3>1, <3>2, <3>3, <3>4
    <2>5. Presented(check', met') /\ met'[1] = met[1]
      <3>1. check'.step = "compare" /\ check'.cert = check.cert
        BY <1>0, <1>1, <1>5 DEF IsCheck, Unevaluated, Missed, Next1, CheckFields
      <3> QED
        BY <1>0, <1>1, <3>1 DEF Presented
    <2> QED
      BY <1>0, <2>1, <2>4, <2>5, Advances
  <1>6. CASE /\ AssociationMatches(check.cert, a) /\ CanCompare(check.cert, a) /\ a.usage = 1
             /\ check' = [check EXCEPT !.step = "pkix"]
    <2>1. /\ check' = [f \in CheckFields |-> check'[f]]
          /\ check'.step = "pkix" /\ check'.cert = check.cert
          /\ check'.full = check.full /\ check'.valid = check.valid
          /\ check'.rrset = check.rrset /\ check'.left = check.left
          /\ check'.signed = check.signed /\ check'.dane = check.dane
          /\ check'.unevaluated = check.unevaluated /\ check'.refuted = check.refuted
          /\ check'.reachable = check.reachable
      BY <1>1, <1>6 DEF IsCheck, CheckFields
    <2>2. PICK k \in Nat : Compared(check, met, k)
      BY <1>0 DEF MidWay, CheckInv, Amid
    <2>3. Compared(check', met', k)
      BY <1>0, <2>1, <2>2 DEF Compared
    <2>4. Presented(check', met')
      BY <1>0, <1>1, <1>6, <2>1 DEF Presented, SameCertificate
    <2>5. IsCheck(check')
      BY <1>1, <2>1 DEF IsCheck, Amid
    <2> QED
      BY <1>1, <2>1, <2>3, <2>4, <2>5 DEF CheckInv, Early, Amid, Late
  <1>7. CASE /\ AssociationMatches(check.cert, a) /\ a.usage # 1
             /\ check' = Concluded(check, "true")
    <2>0. DOMAIN met = 1 .. Len(met) /\ Len(met) \in {1, 2}
      BY <1>1, LenProperties
    <2>1. 1 \in DOMAIN met /\ Len(met) <= 2
      BY <2>0
    <2>2. Earned(check.signed, check.rrset, met)
      BY <1>1, <1>2, <1>7, <2>1, MatchEarns
    <2>3. ~ Refuted(check.signed, check.rrset, met)
      BY <1>2, <1>3, <1>7, OneIsEnough
    <2> QED
      BY <1>0, <1>1, <1>7, <2>1, <2>2, <2>3, Ends
  <1> QED
    BY <1>4, <1>5, <1>6, <1>7


LEMMA ExhaustedKeeps ==
  ASSUME VerificationAssumption, CheckInv(check, met), Exhausted
  PROVE  CheckInv(check', met')
  <1> DEFINE usable == UsableOf(check.rrset)
  <1>0. /\ check.step = "compare" /\ check.left = <<>> /\ met' = met
        /\ IsCheck(check) /\ check.full /\ check.valid /\ "TLSA" \in check.signed
        /\ Presented(check, met) /\ \E k \in Nat : Compared(check, met, k)
    BY DEF Exhausted, CheckInv, Amid
  <1>1. Len(met) \in {1, 2} /\ met \in Seq(Certificates \cup {Down})
    BY <1>0 DEF Presented
  <1>2. Len(met) <= 2 /\ met # <<>>
    <2>1. met = <<>> => Len(met) = 0
      OBVIOUS
    <2>2. CASE Len(met) = 1
      BY <2>1, <2>2
    <2>3. CASE Len(met) = 2
      BY <2>1, <2>3
    <2> QED
      BY <1>1, <2>2, <2>3
  <1>3. PICK k \in Nat : Compared(check, met, k)
    BY <1>0
  <1>4. /\ usable # <<>> /\ k \in 0 .. Len(Kept(usable)) /\ Len(check.left) = Len(Kept(usable)) - k
        /\ check.unevaluated = 0 => Excess(usable) = 0 /\ \A i \in 1 .. k : Refutes(met[1], usable[i])
        /\ check.unevaluated > 0 =>
             Excess(usable) > 0 \/ \E i \in 1 .. k : ~ Refutes(met[1], usable[i])
    BY <1>0, <1>3 DEF Compared
  <1>5. /\ usable \in Seq(Association) /\ Len(usable) = Cardinality(EndEntity(check.rrset))
        /\ \A i \in 1 .. Len(usable) : \E j \in EndEntity(check.rrset) : usable[i] = check.rrset[j]
        /\ \A j \in EndEntity(check.rrset) : \E i \in 1 .. Len(usable) : usable[i] = check.rrset[j]
    BY <1>0, UsableIs DEF IsCheck
  <1> HIDE DEF usable
  <1>6. /\ Excess(usable) \in Nat /\ Len(Kept(usable)) = Len(usable) - Excess(usable)
        /\ Excess(usable) = 0 <=> Len(usable) <= MaxCompared
        /\ Len(usable) \in Nat /\ Len(usable) > 0 /\ MaxCompared \in Nat /\ Len(check.left) = 0
    <2>1. /\ Excess(usable) \in Nat /\ Len(Kept(usable)) = Len(usable) - Excess(usable)
          /\ Excess(usable) = 0 <=> Len(usable) <= MaxCompared
      BY <1>5, KeptIs
    <2>2. Len(usable) \in Nat /\ MaxCompared \in Nat
      BY <1>5, LenProperties DEF VerificationAssumption
    <2>3. Len(usable) # 0
      BY <1>4, <1>5, EmptySeq
    <2>4. Len(check.left) = 0
      BY <1>0
    <2> QED
      BY <2>1, <2>2, <2>3, <2>4
  <1>7. k = Len(usable) - Excess(usable)
    BY <1>4, <1>6
  <1>8. ASSUME check.unevaluated = 0 PROVE Refuted(check.signed, check.rrset, met)
    <2>1. Excess(usable) = 0 /\ k = Len(usable)
      BY <1>4, <1>6, <1>7, <1>8
    <2>2. Cardinality(EndEntity(check.rrset)) \in 1 .. MaxCompared
      BY <1>5, <1>6, <2>1
    <2>3. \A j \in EndEntity(check.rrset) : Refutes(met[1], check.rrset[j])
      BY <1>4, <1>5, <1>8, <2>1
    <2> QED
      BY <1>0, <1>2, <2>2, <2>3 DEF Refuted
  <1>9. ASSUME check.unevaluated > 0 PROVE ~ Refuted(check.signed, check.rrset, met)
    <2>1. CASE Excess(usable) > 0
      <3>1. Len(usable) > MaxCompared
        BY <1>6, <2>1
      <3>2. Cardinality(EndEntity(check.rrset)) \notin 1 .. MaxCompared
        BY <1>5, <1>6, <3>1
      <3> QED
        BY <3>2 DEF Refuted
    <2>2. CASE \E i \in 1 .. k : ~ Refutes(met[1], usable[i])
      <3>1. PICK i \in 1 .. k : ~ Refutes(met[1], usable[i])
        BY <2>2
      <3>2. i \in 1 .. Len(usable)
        BY <1>6, <1>7
      <3>3. PICK j \in EndEntity(check.rrset) : usable[i] = check.rrset[j]
        BY <1>5, <3>2
      <3> QED
        BY <3>1, <3>3, OneIsEnough
    <2> QED
      BY <1>4, <1>9, <2>1, <2>2
  <1>10. check.unevaluated \in Nat
    BY <1>0 DEF IsCheck
  <1>11. check' = Concluded(check, IF check.unevaluated > 0 THEN "unknown" ELSE "false")
    BY DEF Exhausted, Set
  <1>12. CASE check.unevaluated > 0
    BY <1>0, <1>2, <1>9, <1>11, <1>12, Ends
  <1>13. CASE check.unevaluated = 0
    BY <1>0, <1>2, <1>8, <1>11, <1>13, Ends
  <1> QED
    BY <1>10, <1>12, <1>13

(* The second connection settles the association it was made for.          *)
Reconnects(m, n, cert) ==
  /\ n \in Seq(Certificates \cup {Down}) /\ Len(n) = 2
  /\ n[1] = m[1] /\ n[2] = cert /\ (cert = Down \/ cert.chains)

LEMMA PkixSettles ==
  ASSUME VerificationAssumption, CheckInv(check, met), check.step = "pkix",
         NEW cert, Reconnects(met, met', cert), check' = Settled(cert)
  PROVE  CheckInv(check', met')
  <1> DEFINE a == Head(check.left)
  <1>0. MidWay(check, met)
    BY DEF MidWay, CheckInv, Amid, Presented
  <1>1. /\ IsCheck(check) /\ check.full /\ check.valid /\ "TLSA" \in check.signed
        /\ met[1] = check.cert /\ Presented(check, met)
        /\ check.left[1] = a /\ a.usage \in {1, 3} /\ a.selector \in {"cert", "key"}
    BY <1>0, AtHand
  <1>2. PICK j \in EndEntity(check.rrset) : check.rrset[j] = a
    BY <1>0, AtHand
  <1>3. a.usage = 1 /\ SameCertificate(met[1], a)
    BY <1>1 DEF Presented
  <1>4. ~ Refutes(met[1], a)
    BY <1>1, <1>3, RefutesIs DEF SameCertificate
  <1>5. check' = IF cert # Down /\ SameCertificate(cert, a) THEN Concluded(check, "true")
                 ELSE [Unevaluated EXCEPT !.step = "compare"]
    BY DEF Settled
  <1> HIDE DEF a
  <1>6. CASE cert # Down /\ SameCertificate(cert, a)
    <2>0. /\ met' \in Seq(Certificates \cup {Down}) /\ Len(met') = 2
          /\ met'[2] = cert /\ (cert = Down \/ cert.chains) /\ met'[1] = met[1]
      BY DEF Reconnects
    <2>1. Len(met') <= 2 /\ DOMAIN met' = 1 .. Len(met')
      BY <2>0, LenProperties
    <2>2. 2 \in DOMAIN met'
      BY <2>0, <2>1
    <2>3. Earned(check.signed, check.rrset, met')
      BY <1>1, <1>2, <1>3, <1>6, <2>0, <2>2, MatchEarns DEF SameCertificate
    <2>4. ~ Refuted(check.signed, check.rrset, met')
      BY <1>2, <1>4, <2>0, OneIsEnough
    <2> QED
      BY <1>1, <1>5, <1>6, <2>1, <2>3, <2>4, Ends
  <1>7. CASE ~ (cert # Down /\ SameCertificate(cert, a))
    <2>1. check' = [Unevaluated EXCEPT !.step = "compare"]
      BY <1>5, <1>7
    <2>2. IsNext(check, check') /\ check'.cert = check.cert
          /\ check'.unevaluated = check.unevaluated + 1 /\ check'.refuted = check.refuted
      BY <1>1, <2>1 DEF IsNext, IsCheck, Unevaluated, Next1, CheckFields
    <2>3. GoesOn(check, met, check')
      BY <1>4, <2>2 DEF GoesOn, a
    <2>4. Presented(check', met')
      BY <1>1, <2>2 DEF Presented, IsNext, Reconnects
    <2> QED
      BY <1>0, <2>2, <2>3, <2>4, Advances DEF Reconnects
  <1> QED
    BY <1>6, <1>7

LEMMA AppendKeepsFirst ==
  ASSUME NEW S, NEW seq \in Seq(S), NEW elt \in S, Len(seq) = 1
  PROVE  Append(seq, elt)[1] = seq[1]
  OBVIOUS

LEMMA PkixKeeps ==
  ASSUME VerificationAssumption, CheckInv(check, met), IsWorld(world), ProbePkix \/ ReusePkix
  PROVE  CheckInv(check', met')
  <1>0. /\ check.step = "pkix" /\ met \in Seq(Certificates \cup {Down})
        /\ Len(met) = 2 => met[2] = Down \/ met[2].chains
    BY DEF ProbePkix, ReusePkix, CheckInv, Amid, Presented
  <1>1. CASE ProbePkix
    <2> DEFINE cert == IF Chaining = {} THEN Down ELSE world.shown[First(Chaining)]
    <2>1. cert \in Certificates \cup {Down} /\ (cert = Down \/ cert.chains)
      BY UpIs
    <2>2. check' = Settled(cert) /\ met' = Append(met, cert) /\ Len(met) = 1
      BY <1>1 DEF ProbePkix, Set
    <2> HIDE DEF cert
    <2>3. Reconnects(met, met', cert)
      <3> DEFINE C == Certificates \cup {Down}
      <3>1. met \in Seq(C) /\ cert \in C /\ Len(met) = 1
        BY <1>0, <2>1, <2>2
      <3> HIDE DEF C
      <3> DEFINE longer == Append(met, cert)
      <3>2. /\ longer \in Seq(C) /\ Len(longer) = Len(met) + 1
            /\ longer[1] = met[1] /\ longer[Len(met) + 1] = cert
        <4>1. longer \in Seq(C)
          BY <3>1, AppendProperties
        <4>2. Len(longer) = Len(met) + 1
          BY <3>1, AppendProperties
        <4>3. longer[Len(met) + 1] = cert
          BY <3>1, AppendProperties
        <4>4. longer[1] = met[1]
          BY <3>1, AppendKeepsFirst
        <4> QED
          BY <4>1, <4>2, <4>3, <4>4
      <3>3. met' = longer
        BY <2>2
      <3> HIDE DEF longer
      <3> QED
        BY <2>1, <2>2, <3>1, <3>2, <3>3 DEF Reconnects, C
    <2> QED
      BY <1>0, <2>2, <2>3, PkixSettles
  <1>2. CASE ReusePkix
    <2>1. met' = met /\ Len(met) = 2 /\ check' = Settled(met[2])
      BY <1>2 DEF ReusePkix, Set
    <2>2. Reconnects(met, met', met[2])
      BY <1>0, <2>1 DEF Reconnects
    <2> QED
      BY <1>0, <2>1, <2>2, PkixSettles
  <1> QED
    BY <1>1, <1>2

LEMMA DemoteKeeps ==
  ASSUME CheckInv(check, met), Demote
  PROVE  CheckInv(check', met')
  <1>0. check.step = "gate" /\ met' = met /\ IsCheck(check) /\ check.valid /\ Concludes(check, met)
    BY DEF Demote, CheckInv, Late
  <1>1. /\ check' = [f \in CheckFields |-> check'[f]]
        /\ check'.step = "endpoint" /\ check'.full = check.full /\ check'.valid = check.valid
        /\ check'.rrset = check.rrset /\ check'.left = check.left
        /\ check'.signed = check.signed /\ check'.dnssec = check.dnssec
        /\ check'.unevaluated = check.unevaluated /\ check'.refuted = check.refuted
        /\ check'.dane = IF check.dnssec THEN check.dane ELSE "unknown"
    BY <1>0 DEF Demote, Set, IsCheck, CheckFields
  <1>2. IsCheck(check')
    BY <1>0, <1>1 DEF IsCheck, Late
  <1>3. Concludes(check', met')
    BY <1>0, <1>1 DEF Concludes
  <1> QED
    BY <1>0, <1>1, <1>2, <1>3 DEF CheckInv, Early, Amid

LEMMA EndpointKeeps ==
  ASSUME CheckInv(check, met), CheckEndpoint \/ CheckTls
  PROVE  CheckInv(check', met')
  <1>0. /\ check.step \in {"endpoint", "tls"} /\ met' = met /\ IsCheck(check) /\ check.valid
        /\ Concludes(check, met)
    BY DEF CheckEndpoint, CheckTls, CheckInv, Late
  <1>1. /\ check' = [f \in CheckFields |-> check'[f]]
        /\ check'.step \in {"tls", "done"} /\ check'.full = check.full /\ check'.valid = check.valid
        /\ check'.rrset = check.rrset /\ check'.left = check.left
        /\ check'.signed = check.signed /\ check'.dnssec = check.dnssec
        /\ check'.unevaluated = check.unevaluated /\ check'.refuted = check.refuted
        /\ check'.dane = check.dane
    BY <1>0 DEF CheckEndpoint, CheckTls, Set, IsCheck, CheckFields
  <1>2. IsCheck(check')
    BY <1>0, <1>1 DEF IsCheck, Late
  <1>3. Concludes(check', met')
    BY <1>0, <1>1 DEF Concludes
  <1> QED
    BY <1>0, <1>1, <1>2, <1>3 DEF CheckInv, Early, Amid


-----------------------------------------------------------------------------
(* Every step of a verification, and the steps of the world around it.     *)
LEMMA PinsAreAssociations ==
  ASSUME NEW id \in STRING, NEW other \in STRING
  PROVE  /\ <<Pin(3, "cert", id)>> \in Seq(Association)
         /\ <<Pin(3, "cert", id), Pin(3, "cert", other)>> \in Seq(Association)
  <1> DEFINE p == Pin(3, "cert", id)
             q == Pin(3, "cert", other)
  <1>0a. 3 \in Nat
    OBVIOUS
  <1>1. p \in Association
    BY <1>0a DEF Pin, Association
  <1>2. q \in Association
    BY <1>0a DEF Pin, Association
  <1> HIDE DEF p, q, Association
  <1>3. <<p>> \in Seq(Association) /\ <<p, q>> \in Seq(Association)
    BY <1>1, <1>2
  <1> QED
    BY <1>3 DEF p, q

LEMMA WorldKeeps ==
  ASSUME VerificationAssumption, IsWorld(world),
         Flap \/ PublishBothPins \/ SwitchCertificate \/ WithdrawOldPin
  PROVE  IsWorld(world') /\ check' = check /\ met' = met
  <1>0. /\ world = [f \in {"kind", "ad", "tlsa", "shown", "portAllowed", "stage", "flaps"} |-> world[f]]
        /\ world.tlsa \in Seq(Association) /\ world.flaps \in 0 .. MaxFlaps /\ MaxFlaps \in Nat
        /\ world.shown \in [1 .. Addresses -> Certificates \cup {Down}]
    BY DEF IsWorld, VerificationAssumption
  <1>1. /\ Outgoing \in Certificates /\ Incoming \in Certificates
        /\ Outgoing.id \in STRING /\ Incoming.id \in STRING
    BY DEF VerificationAssumption, Certificate
  <1>2. CASE Flap
    <2>1. PICK a \in 1 .. Addresses, cert \in Certificates \cup {Down} :
            world' = [world EXCEPT !.shown[a] = cert, !.flaps = @ + 1]
      BY <1>2 DEF Flap
    <2>2. /\ world' = [f \in {"kind", "ad", "tlsa", "shown", "portAllowed", "stage", "flaps"} |-> world'[f]]
          /\ world'.tlsa = world.tlsa /\ world'.flaps = world.flaps + 1
          /\ world'.shown = [world.shown EXCEPT ![a] = cert]
      BY <1>0, <2>1
    <2>3. world.flaps < MaxFlaps
      BY <1>2 DEF Flap
    <2>4. world'.flaps \in 0 .. MaxFlaps
      BY <1>0, <2>2, <2>3
    <2>5. world'.shown \in [1 .. Addresses -> Certificates \cup {Down}]
      BY <1>0, <2>2
    <2> QED
      BY <1>0, <1>2, <2>2, <2>4, <2>5 DEF IsWorld, Flap
  <1>3. CASE PublishBothPins
    <2>1. PICK pins \in BothPins : world' = [world EXCEPT !.tlsa = pins, !.stage = "both"]
      BY <1>3 DEF PublishBothPins
    <2>2. pins \in Seq(Association)
      BY <1>1, PinsAreAssociations DEF BothPins
    <2> QED
      BY <1>0, <1>3, <2>1, <2>2 DEF IsWorld, PublishBothPins
  <1>4. CASE SwitchCertificate
    <2>1. [a \in 1 .. Addresses |-> Incoming] \in [1 .. Addresses -> Certificates \cup {Down}]
      BY <1>1
    <2> QED
      BY <1>0, <1>4, <2>1 DEF IsWorld, SwitchCertificate
  <1>5. CASE WithdrawOldPin
    <2>1. <<Pin(3, "cert", Incoming.id)>> \in Seq(Association)
      BY <1>1, PinsAreAssociations
    <2> QED
      BY <1>0, <1>5, <2>1 DEF IsWorld, WithdrawOldPin
  <1> QED
    BY <1>2, <1>3, <1>4, <1>5

CheckSteps ==
  \/ CheckSvcb \/ CheckDnssecDetail \/ CheckTlsa \/ FetchCert \/ Compare \/ Exhausted
  \/ ProbePkix \/ ReusePkix \/ Demote \/ CheckEndpoint \/ CheckTls

LEMMA CheckStepsKeep ==
  ASSUME VerificationAssumption, CheckInv(check, met), IsWorld(world), CheckSteps
  PROVE  CheckInv(check', met') /\ world' = world
  <1>1. world' = world
    BY DEF CheckSteps, WorldSame, CheckSvcb, CheckDnssecDetail, CheckTlsa, FetchCert, Compare,
           Exhausted, ProbePkix, ReusePkix, Demote, CheckEndpoint, CheckTls
  <1>2. CheckInv(check', met')
    <2>1. CASE CheckSvcb \/ CheckDnssecDetail \/ CheckTlsa
      BY <2>1, CheckSvcbKeeps, CheckDnssecKeeps, CheckTlsaKeeps
    <2>2. CASE FetchCert \/ Compare \/ Exhausted
      BY <2>2, FetchCertKeeps, CompareKeeps, ExhaustedKeeps
    <2>3. CASE ProbePkix \/ ReusePkix
      BY <2>3, PkixKeeps
    <2>4. CASE Demote \/ CheckEndpoint \/ CheckTls
      BY <2>4, DemoteKeeps, EndpointKeeps
    <2> QED
      BY <2>1, <2>2, <2>3, <2>4 DEF CheckSteps
  <1> QED
    BY <1>1, <1>2

-----------------------------------------------------------------------------
(* A rollover: what is published and presented at each stage, which        *)
(* answers may still be in use, and that the certificate that was met is   *)
(* pinned by the answer it is compared with.                               *)
OldPin == <<Pin(3, "cert", Outgoing.id)>>
NewPin == <<Pin(3, "cert", Incoming.id)>>
Shows(w, cert) == w.shown = [a \in 1 .. Addresses |-> cert]
PinnedBy(rrset, cert) == \E j \in DOMAIN rrset : rrset[j] = Pin(3, "cert", cert.id)

Before(w, rrset) ==
  /\ Shows(w, Outgoing)
  /\ \/ w.stage = "outgoing" /\ w.tlsa = OldPin /\ rrset \in {<<>>, OldPin}
     \/ w.stage = "both" /\ w.tlsa \in BothPins /\ rrset \in {<<>>, OldPin} \cup BothPins

After(w, rrset) ==
  /\ Shows(w, Incoming)
  /\ \/ w.stage = "incoming" /\ w.tlsa \in BothPins /\ rrset \in {<<>>} \cup BothPins
     \/ w.stage = "over" /\ w.tlsa = NewPin /\ rrset \in {<<>>, NewPin} \cup BothPins

RolloverInv(w, ck, m) ==
  w.stage # "steady" =>
    /\ w.flaps = MaxFlaps
    /\ Before(w, ck.rrset) \/ After(w, ck.rrset)
    /\ m # <<>> => PinnedBy(ck.rrset, m[1])

LEMMA PinsServe ==
  /\ PinnedBy(OldPin, Outgoing) /\ PinnedBy(NewPin, Incoming)
  /\ \A pins \in BothPins : PinnedBy(pins, Outgoing) /\ PinnedBy(pins, Incoming)
  <1>1. PinnedBy(OldPin, Outgoing)
    BY DEF PinnedBy, OldPin
  <1>2. PinnedBy(NewPin, Incoming)
    BY DEF PinnedBy, NewPin
  <1>3. \A pins \in BothPins : PinnedBy(pins, Outgoing) /\ PinnedBy(pins, Incoming)
    <2> DEFINE o == Pin(3, "cert", Outgoing.id)
               i == Pin(3, "cert", Incoming.id)
    <2> HIDE DEF o, i
    <2>1. /\ 1 \in DOMAIN <<o, i>> /\ 2 \in DOMAIN <<o, i>> /\ <<o, i>>[1] = o /\ <<o, i>>[2] = i
          /\ 1 \in DOMAIN <<i, o>> /\ 2 \in DOMAIN <<i, o>> /\ <<i, o>>[1] = i /\ <<i, o>>[2] = o
      OBVIOUS
    <2>2. BothPins = {<<o, i>>, <<i, o>>}
      BY DEF BothPins, o, i
    <2>3. \A pins \in BothPins : /\ \E j \in DOMAIN pins : pins[j] = o
                                 /\ \E j \in DOMAIN pins : pins[j] = i
      BY <2>1, <2>2
    <2> QED
      BY <2>3 DEF PinnedBy, o, i
  <1> QED
    BY <1>1, <1>2, <1>3

LEMMA AnswerStays ==
  ASSUME IsCheck(check),
         \/ CheckSvcb \/ CheckDnssecDetail \/ FetchCert \/ Compare \/ Exhausted
         \/ ProbePkix \/ ReusePkix \/ Demote \/ CheckEndpoint \/ CheckTls
  PROVE  check'.rrset = check.rrset
  <1>0. check = [f \in CheckFields |-> check[f]]
    BY DEF IsCheck
  <1>1. CASE CheckSvcb \/ CheckDnssecDetail
    BY <1>0, <1>1 DEF CheckSvcb, CheckDnssecDetail, Set, CheckFields
  <1>2. CASE FetchCert \/ Exhausted
    BY <1>0, <1>2 DEF FetchCert, Exhausted, Set, Concluded, CheckFields
  <1>3. CASE Compare
    BY <1>0, <1>3 DEF Compare, Set, Concluded, Unevaluated, Missed, Next1, CheckFields
  <1>4. CASE ProbePkix \/ ReusePkix
    <2>1. \A cert : Settled(cert).rrset = check.rrset
      BY <1>0 DEF Settled, Concluded, Unevaluated, Next1, CheckFields
    <2> QED
      BY <1>4, <2>1 DEF ProbePkix, ReusePkix, Set
  <1>5. CASE Demote \/ CheckEndpoint \/ CheckTls
    BY <1>0, <1>5 DEF Demote, CheckEndpoint, CheckTls, Set, CheckFields
  <1> QED
    BY <1>1, <1>2, <1>3, <1>4, <1>5


LEMMA CheckIsSmooth ==
  ASSUME VerificationAssumption, CheckInv(check, met), IsWorld(world),
         RolloverInv(world, check, met), CheckSteps
  PROVE  RolloverInv(world', check', met')
  <1>0. IsCheck(check) /\ world' = world
    BY CheckStepsKeep DEF CheckInv
  <1> SUFFICES ASSUME world.stage # "steady"
               PROVE  /\ world.flaps = MaxFlaps
                      /\ Before(world, check'.rrset) \/ After(world, check'.rrset)
                      /\ met' # <<>> => PinnedBy(check'.rrset, met'[1])
    BY <1>0 DEF RolloverInv
  <1>1. /\ world.flaps = MaxFlaps
        /\ Before(world, check.rrset) \/ After(world, check.rrset)
        /\ met # <<>> => PinnedBy(check.rrset, met[1])
    BY DEF RolloverInv
  <1>2. CASE CheckTlsa
    <2>1. met' = met /\ met = <<>> /\ check.rrset = <<>>
      BY <1>2 DEF CheckTlsa, CheckInv, Early, Untold
    <2>2. check'.rrset \in {<<>>, world.tlsa}
      <3> DEFINE read == [check EXCEPT !.rrset = world.tlsa, !.signed = world.ad]
      <3>1. check = [f \in CheckFields |-> check[f]]
        BY <1>0 DEF IsCheck
      <3>2. \/ check' = Concluded(check, "unknown") \/ check' = Concluded(read, "unknown")
            \/ check' = Concluded(read, "true")
            \/ check' = [read EXCEPT !.step = "cert", !.left = Kept(UsableOf(world.tlsa)),
                                     !.unevaluated = Excess(UsableOf(world.tlsa))]
        BY <1>2 DEF CheckTlsa, Set
      <3> QED
        BY <2>1, <3>1, <3>2 DEF Concluded, CheckFields
    <2>3. Before(world, check'.rrset) \/ After(world, check'.rrset)
      BY <1>1, <2>2 DEF Before, After
    <2> QED
      BY <1>1, <2>1, <2>3
  <1>3. CASE FetchCert
    <2>1. check'.rrset = check.rrset
      BY <1>0, <1>3, AnswerStays
    <2>2. \/ met' = met /\ met = <<>>
          \/ Up # {} /\ met' = <<world.shown[First(Up)]>>
      BY <1>3 DEF FetchCert, CheckInv, Amid, Presented
    <2>3. check.rrset # <<>>
      <3>1. PICK k \in Nat : Compared(check, met, k)
        BY <1>3 DEF FetchCert, CheckInv, Amid
      <3>2. UsableOf(check.rrset) # <<>>
        BY <3>1 DEF Compared
      <3>3. check.rrset \in Seq(Association)
        BY <1>0 DEF IsCheck
      <3>4. UsableOf(check.rrset) \in Seq(Association)
            /\ Len(UsableOf(check.rrset)) \in 0 .. Len(check.rrset)
        BY <3>3, UsableIs
      <3>5. Len(UsableOf(check.rrset)) # 0
        BY <3>2, <3>4, EmptySeq
      <3>6. check.rrset = <<>> => Len(check.rrset) = 0
        OBVIOUS
      <3> QED
        BY <3>4, <3>5, <3>6
    <2>4. ASSUME Up # {} PROVE PinnedBy(check.rrset, world.shown[First(Up)])
      <3>1. First(Up) \in 1 .. Addresses
        <4>1. Up \subseteq Nat
          BY UpIs
        <4>2. First(Up) \in Up
          BY <2>4, <4>1, FirstIs
        <4> QED
          BY <4>2 DEF Up
      <3>2. CASE Before(world, check.rrset)
        <4>1. world.shown[First(Up)] = Outgoing
          BY <3>1, <3>2 DEF Before, Shows
        <4>2. check.rrset \in {OldPin} \cup BothPins
          BY <2>3, <3>2 DEF Before
        <4> QED
          BY <4>1, <4>2, PinsServe
      <3>3. CASE After(world, check.rrset)
        <4>1. world.shown[First(Up)] = Incoming
          BY <3>1, <3>3 DEF After, Shows
        <4>2. check.rrset \in {NewPin} \cup BothPins
          BY <2>3, <3>3 DEF After
        <4> QED
          BY <4>1, <4>2, PinsServe
      <3> QED
        BY <1>1, <3>2, <3>3
    <2>5. met' # <<>> => PinnedBy(check'.rrset, met'[1])
      BY <2>1, <2>2, <2>4
    <2> QED
      BY <1>1, <2>1, <2>5
  <1>4. CASE ProbePkix
    <2>1. /\ met \in Seq(Certificates \cup {Down}) /\ Len(met) = 1
          /\ check'.rrset = check.rrset
      BY <1>0, <1>4, AnswerStays DEF ProbePkix, CheckInv, Amid, Presented
    <2>2. PICK cert \in Certificates \cup {Down} : met' = Append(met, cert)
      <3>1. (IF Chaining = {} THEN Down ELSE world.shown[First(Chaining)]) \in Certificates \cup {Down}
        BY UpIs
      <3> QED
        BY <1>4, <3>1 DEF ProbePkix
    <2> HIDE DEF Down
    <2>3. met'[1] = met[1]
      BY <2>1, <2>2, AppendKeepsFirst
    <2>4. met # <<>>
      <3>1. met = <<>> => Len(met) = 0
        OBVIOUS
      <3> QED
        BY <2>1, <3>1
    <2> QED
      BY <1>1, <2>1, <2>3, <2>4
  <1>5. CASE \/ CheckSvcb \/ CheckDnssecDetail \/ Compare \/ Exhausted \/ ReusePkix
             \/ Demote \/ CheckEndpoint \/ CheckTls
    <2>1. check'.rrset = check.rrset
      BY <1>0, <1>5, AnswerStays
    <2>2. met' = met
      BY <1>5 DEF CheckSvcb, CheckDnssecDetail, Compare, Exhausted, ReusePkix, Demote,
                  CheckEndpoint, CheckTls
    <2> QED
      BY <1>1, <2>1, <2>2
  <1> QED
    BY <1>2, <1>3, <1>4, <1>5 DEF CheckSteps

LEMMA WorldIsSmooth ==
  ASSUME VerificationAssumption, IsWorld(world), RolloverInv(world, check, met),
         Flap \/ PublishBothPins \/ SwitchCertificate \/ WithdrawOldPin
  PROVE  RolloverInv(world', check', met')
  <1>0. /\ world = [f \in {"kind", "ad", "tlsa", "shown", "portAllowed", "stage", "flaps"} |-> world[f]]
        /\ check' = check /\ met' = met /\ world.flaps \in 0 .. MaxFlaps /\ MaxFlaps \in Nat
    BY WorldKeeps DEF IsWorld, VerificationAssumption
  <1>1. CASE Flap
    <2>1. world.flaps < MaxFlaps
      BY <1>1 DEF Flap
    <2>2. world.flaps # MaxFlaps
      BY <1>0, <2>1
    <2>3. world.stage = "steady"
      BY <2>2 DEF RolloverInv
    <2>4. world'.stage = world.stage
      BY <1>0, <1>1 DEF Flap
    <2> QED
      BY <2>3, <2>4 DEF RolloverInv
  <1>2. CASE PublishBothPins
    <2>1. world.stage = "outgoing"
      BY <1>2 DEF PublishBothPins
    <2>2. /\ world'.stage = "both" /\ world'.tlsa \in BothPins /\ world'.shown = world.shown
          /\ world'.flaps = world.flaps
      BY <1>0, <1>2 DEF PublishBothPins
    <2>3. Before(world, check.rrset) /\ world.flaps = MaxFlaps
      BY <2>1 DEF RolloverInv, After
    <2>4. Before(world', check.rrset)
      BY <2>1, <2>2, <2>3 DEF Before, Shows
    <2> QED
      BY <1>0, <2>1, <2>2, <2>3, <2>4 DEF RolloverInv
  <1>3. CASE SwitchCertificate
    <2>1. world.stage = "both" /\ check.rrset \in {<<>>, world.tlsa}
      BY <1>3 DEF SwitchCertificate, NoStaleAnswer
    <2>2. /\ world'.stage = "incoming" /\ world'.tlsa = world.tlsa /\ Shows(world', Incoming)
          /\ world'.flaps = world.flaps
      BY <1>0, <1>3 DEF SwitchCertificate, Shows
    <2>3. Before(world, check.rrset) /\ world.flaps = MaxFlaps
      BY <2>1 DEF RolloverInv, After
    <2>4. After(world', check.rrset)
      BY <2>1, <2>2, <2>3 DEF Before, After
    <2> QED
      BY <1>0, <2>1, <2>2, <2>3, <2>4 DEF RolloverInv
  <1>4. CASE WithdrawOldPin
    <2>1. world.stage = "incoming"
      BY <1>4 DEF WithdrawOldPin
    <2>2. /\ world'.stage = "over" /\ world'.tlsa = NewPin /\ world'.shown = world.shown
          /\ world'.flaps = world.flaps
      BY <1>0, <1>4 DEF WithdrawOldPin, NewPin
    <2>3. After(world, check.rrset) /\ world.flaps = MaxFlaps
      BY <2>1 DEF RolloverInv, Before
    <2>4. After(world', check.rrset)
      BY <2>1, <2>2, <2>3 DEF After, Shows
    <2> QED
      BY <1>0, <2>1, <2>2, <2>3, <2>4 DEF RolloverInv
  <1> QED
    BY <1>1, <1>2, <1>3, <1>4


-----------------------------------------------------------------------------
(* Verification: the invariant of the whole.                               *)
VerifyInv == IsWorld(world) /\ CheckInv(check, met) /\ RolloverInv(world, check, met)

LEMMA VerifyInit == ASSUME VerificationAssumption, vfInit PROVE VerifyInv
  <1>0. MaxFlaps \in Nat /\ Outgoing \in Certificates
        /\ Outgoing.id \in STRING /\ Incoming.id \in STRING
    BY DEF VerificationAssumption, Certificate
  <1>1. met = <<>> /\ \E full \in BOOLEAN : check = [Blank EXCEPT !.full = full]
    BY DEF vfInit
  <1>2. /\ check = [f \in CheckFields |-> check[f]]
        /\ check.step = "svcb" /\ check.rrset = <<>> /\ check.left = <<>>
        /\ check.unevaluated = 0 /\ check.refuted = 0 /\ check.signed = {}
        /\ check.dane = "unknown" /\ check.reachable = FALSE
    BY <1>1 DEF Blank, CheckFields
  <1>3. CheckInv(check, met)
    <2>1. <<>> \in Seq(Association) /\ Len(<<>>) = 0
      BY EmptySeq
    <2>2. IsCheck(check)
      <3>1. 0 \in Nat /\ 0 + 0 <= Len(<<>>)
        BY <2>1
      <3>2. check.unevaluated + check.refuted <= Len(check.rrset)
        BY <1>2, <3>1
      <3> QED
        BY <1>2, <2>1, <3>1, <3>2 DEF IsCheck, Early
    <2> QED
      BY <1>1, <1>2, <2>2 DEF CheckInv, Untold, Early, Amid, Late
  <1>4. CASE world \in Worlds
    <2>1. /\ world = [f \in {"kind", "ad", "tlsa", "shown", "portAllowed", "stage", "flaps"} |-> world[f]]
          /\ world.tlsa \in RRsets /\ world.shown \in [1 .. Addresses -> Certificates \cup {Down}]
          /\ world.stage = "steady" /\ world.flaps = 0
      BY <1>4 DEF Worlds
    <2>2. world.tlsa \in Seq(Association)
      BY <2>1 DEF VerificationAssumption
    <2>3. world.flaps \in 0 .. MaxFlaps
      BY <1>0, <2>1
    <2> QED
      BY <1>3, <2>1, <2>2, <2>3 DEF VerifyInv, IsWorld, RolloverInv
  <1>5. CASE world = Rollover
    <2>1. /\ world = [f \in {"kind", "ad", "tlsa", "shown", "portAllowed", "stage", "flaps"} |-> world[f]]
          /\ world.tlsa = OldPin /\ world.shown = [a \in 1 .. Addresses |-> Outgoing]
          /\ world.stage = "outgoing" /\ world.flaps = MaxFlaps
      BY <1>5 DEF Rollover, OldPin
    <2>2. OldPin \in Seq(Association)
      BY <1>0, PinsAreAssociations DEF OldPin
    <2>3. world.shown \in [1 .. Addresses -> Certificates \cup {Down}]
      BY <1>0, <2>1
    <2>4. world.flaps \in 0 .. MaxFlaps
      BY <1>0, <2>1
    <2>5. IsWorld(world)
      BY <2>1, <2>2, <2>3, <2>4 DEF IsWorld
    <2>6. Before(world, check.rrset)
      BY <1>2, <2>1 DEF Before, Shows
    <2> QED
      BY <1>1, <1>3, <2>1, <2>5, <2>6 DEF VerifyInv, RolloverInv
  <1> QED
    BY <1>4, <1>5 DEF vfInit

LEMMA VerifyNext == ASSUME VerificationAssumption, VerifyInv, [vfNext]_vfVars PROVE VerifyInv'
  <1>1. CASE CheckSteps
    <2>1. CheckInv(check', met') /\ world' = world
      BY <1>1, CheckStepsKeep DEF VerifyInv
    <2>2. RolloverInv(world', check', met')
      BY <1>1, CheckIsSmooth DEF VerifyInv
    <2> QED
      BY <2>1, <2>2 DEF VerifyInv
  <1>2. CASE Flap \/ PublishBothPins \/ SwitchCertificate \/ WithdrawOldPin
    <2>1. IsWorld(world') /\ check' = check /\ met' = met
      BY <1>2, WorldKeeps DEF VerifyInv
    <2>2. RolloverInv(world', check', met')
      BY <1>2, WorldIsSmooth DEF VerifyInv
    <2> QED
      BY <2>1, <2>2 DEF VerifyInv
  <1>3. CASE UNCHANGED vfVars
    BY <1>3 DEF vfVars, VerifyInv
  <1> QED
    BY <1>1, <1>2, <1>3 DEF vfNext, CheckSteps

LEMMA PassFollows == ASSUME VerifyInv PROVE PassIsEarned
  BY DEF VerifyInv, CheckInv, Late, Concludes, Earned, PassIsEarned

LEMMA MismatchFollows == ASSUME VerifyInv PROVE MismatchIsExact
  BY DEF VerifyInv, CheckInv, Late, Concludes, Refuted, MismatchIsExact

LEMMA SmoothFollows == ASSUME VerifyInv PROVE RolloverIsSmooth
  <1> SUFFICES ASSUME world.stage # "steady", check.dane = "false" PROVE FALSE
    BY DEF RolloverIsSmooth
  <1>1. Refuted(check.signed, check.rrset, met)
    BY DEF VerifyInv, CheckInv, IsCheck, Concludes
  <1>2. PinnedBy(check.rrset, met[1])
    BY <1>1 DEF VerifyInv, RolloverInv, Refuted
  <1>3. PICK j \in DOMAIN check.rrset : check.rrset[j] = Pin(3, "cert", met[1].id)
    BY <1>2 DEF PinnedBy
  <1>4. /\ check.rrset[j].usage = 3 /\ check.rrset[j].selector = "cert"
        /\ check.rrset[j].value = met[1].id
    BY <1>3 DEF Pin
  <1>5. j \in EndEntity(check.rrset)
    BY <1>3, <1>4 DEF EndEntity
  <1> QED
    BY <1>1, <1>4, <1>5 DEF Refuted, Refutes

LEMMA RatingFollows == ASSUME VerifyInv PROVE RatingIsEarned
  <1> SUFFICES ASSUME check.step = "done" PROVE RatingIsEarned
    BY DEF RatingIsEarned
  <1>1. /\ Concludes(check, met)
        /\ ~ check.valid => check.dane = "unknown" /\ ~ check.reachable
    BY DEF VerifyInv, CheckInv, Late
  <1>2. SecurityRating(check) \in {"Good", "Excellent"} <=> SecurityScore(check) >= 70
    <2>1. SecurityScore(check) \in Nat
      BY DEF SecurityScore, Credit
    <2> QED
      BY <2>1 DEF SecurityRating
  <1>3. SecurityScore(check) >= 70 => check.dnssec
    BY DEF SecurityScore, Credit
  <1>4. SecurityScore(check) >= 70 => check.valid
    BY <1>1 DEF SecurityScore, Credit
  <1>5. SecurityRating(check) = "Excellent" => SecurityScore(check) >= 85
    BY DEF SecurityRating
  <1>6. SecurityScore(check) >= 85 /\ ~ check.reachable => check.dane = "true"
    BY DEF SecurityScore, Credit
  <1>7. check.full /\ check.dane = "true" => met # <<>>
    BY <1>1 DEF Concludes, Earned
  <1> QED
    BY <1>2, <1>3, <1>4, <1>5, <1>6, <1>7 DEF RatingIsEarned

(* Whatever the addresses present, the RRset holds and its owner rolls     *)
(* over: a full check that passes rests on a certificate that was met and  *)
(* is pinned by an authenticated answer, a mismatch is reported exactly    *)
(* when every usable association refused the certificate (validator.py:    *)
(* 594-614), never in the course of a rollover with both pins published,   *)
(* and a rating of Good or Excellent is earned (models.py:1158-1199).      *)
THEOREM VerificationSound == vfSpec => []VerificationIsSound
  <1>1. vfInit => VerifyInv
    BY VerifyInit, VerificationAssumption
  <1>2. VerifyInv /\ [vfNext]_vfVars => VerifyInv'
    BY VerifyNext, VerificationAssumption
  <1>3. VerifyInv => VerificationIsSound
    BY PassFollows, MismatchFollows, SmoothFollows, RatingFollows DEF VerificationIsSound
  <1> QED
    BY <1>1, <1>2, <1>3, PTL DEF vfSpec


-----------------------------------------------------------------------------
(* The types, and that no more jobs run than the pool has workers.         *)
LEMMA VerifyIsTyped == ASSUME VerifyInv PROVE vfTypeOK
  <1>1. Len(met) <= 2
    <2>0. met = <<>> => Len(met) = 0
      OBVIOUS
    <2>1. CASE check.step \in Early
      <3>1. met = <<>>
        BY <2>1 DEF VerifyInv, CheckInv, Untold
      <3> QED
        BY <2>0, <3>1
    <2>2. CASE check.step \in Amid
      <3>1. met = <<>> \/ Len(met) = 1 \/ Len(met) = 2
        BY <2>2 DEF VerifyInv, CheckInv, Presented
      <3>2. CASE met = <<>>
        BY <2>0, <3>2
      <3>3. CASE Len(met) = 1
        BY <3>3
      <3>4. CASE Len(met) = 2
        BY <3>4
      <3> QED
        BY <3>1, <3>2, <3>3, <3>4
    <2>3. CASE check.step \in Late
      BY <2>3 DEF VerifyInv, CheckInv, Concludes
    <2> QED
      BY <2>1, <2>2, <2>3 DEF VerifyInv, CheckInv, IsCheck
  <1>2. \A a \in 1 .. Addresses : world.shown[a] \in Certificates \cup {Down}
    BY DEF VerifyInv, IsWorld
  <1> QED
    BY <1>1, <1>2 DEF vfTypeOK, VerifyInv, IsWorld, CheckInv, IsCheck

Answers == {"none", "success", "failure", "denied", "timeout"}
Idling == {"queued", "over"}

(* The answer of a call may change, its request does not.                  *)
Answering == \A d \in Tools : /\ call'[d].request = call[d].request
                              /\ call[d].answer \in Answers => call'[d].answer \in Answers

LEMMA OverAnswers ==
  ASSUME CallInv, NEW c \in Tools, NEW answer \in Answers, Over(c, answer)
  PROVE  Answering /\ \A d \in Tools : d # c => job'[d] = job[d]
  <1>1. call' = call \/ call' = [call EXCEPT ![c].answer = answer]
    BY DEF Over
  <1>2. Answering
    BY <1>1 DEF Answering, CallInv, Shapes, IsCall
  <1> QED
    BY <1>2 DEF Over, CallInv, Shapes

LEMMA GoesAnswers ==
  ASSUME CallInv, NEW c \in Tools, NEW stage, Goes_(c, stage)
  PROVE  Answering /\ \A d \in Tools : d # c => job'[d] = job[d]
  BY DEF Goes_, Answering, CallInv, Shapes

LEMMA StepAnswers ==
  ASSUME CallInv, NEW c \in Tools, Step_(c)
  PROVE  /\ Answering /\ \A d \in Tools : d # c => job'[d] = job[d]
         /\ job[c].stage \notin Idling /\ (Calm \/ Troubled(c))
  <1> DEFINE Says == Answering /\ \A d \in Tools : d # c => job'[d] = job[d]
  <1>0. ASSUME NEW j, UNCHANGED call, job' = [job EXCEPT ![c] = j] PROVE Says
    BY <1>0 DEF Answering, CallInv, Shapes
  <1>1. CASE Guard(c)
    <2>1. Over(c, "denied") \/ \E j : UNCHANGED call /\ job' = [job EXCEPT ![c] = j]
      BY <1>1 DEF Guard
    <2>2. job[c].stage = "guard" /\ (Calm \/ Troubled(c))
      BY <1>1 DEF Guard
    <2> QED
      BY <1>0, <2>1, <2>2, OverAnswers DEF Answers, Idling
  <1>2. CASE Resolve_(c)
    <2>1. Over(c, "failure") \/ \E j : UNCHANGED call /\ job' = [job EXCEPT ![c] = j]
      BY <1>2 DEF Resolve_
    <2>2. job[c].stage = "resolve" /\ (Calm \/ Troubled(c))
      BY <1>2 DEF Resolve_
    <2> QED
      BY <1>0, <2>1, <2>2, OverAnswers DEF Answers, Idling
  <1>3. CASE Judge_(c)
    <2>1. Over(c, "denied") \/ \E stage : Goes_(c, stage)
      BY <1>3 DEF Judge_
    <2>2. job[c].stage = "policy" /\ (Calm \/ Troubled(c))
      BY <1>3 DEF Judge_
    <2> QED
      BY <2>1, <2>2, OverAnswers, GoesAnswers DEF Answers, Idling
  <1>4. CASE Initialize(c)
    <2>1. Over(c, "failure") \/ \E stage : Goes_(c, stage)
      BY <1>4 DEF Initialize, Failed
    <2>2. job[c].stage = "initialize" /\ (Calm \/ Troubled(c))
      BY <1>4 DEF Initialize
    <2> QED
      BY <2>1, <2>2, OverAnswers, GoesAnswers DEF Answers, Idling
  <1>5. CASE CallTool(c)
    <2>1. \/ \E answer \in {"success", "failure"} : Over(c, answer)
          \/ \E stage : Goes_(c, stage)
      BY <1>5 DEF CallTool, Failed, Outcome
    <2>2. job[c].stage = "request" /\ (Calm \/ Troubled(c))
      BY <1>5 DEF CallTool
    <2> QED
      BY <2>1, <2>2, OverAnswers, GoesAnswers DEF Answers, Idling
  <1>6. CASE Post(c)
    <2>1. \E answer \in {"success", "failure"} : Over(c, answer)
      BY <1>6 DEF Post, PostLegacy, PostMessage
    <2>2. job[c].stage = "post" /\ (Calm \/ Troubled(c))
      BY <1>6 DEF Post, PostLegacy, PostMessage
    <2> QED
      BY <2>1, <2>2, OverAnswers DEF Answers, Idling
  <1> QED
    BY <1>1, <1>2, <1>3, <1>4, <1>5, <1>6 DEF Step_, Post

LEMMA TroublesAreBounded ==
  ASSUME CallsAssumption, CalmInv, caTypeOK, NEW c \in Tools, Calm \/ Troubled(c)
  PROVE  \A d \in Tools : troubles'[d] \in 0 .. MaxTroubles
  <1>1. MaxTroubles \in Nat /\ \A d \in Tools : troubles[d] \in 0 .. MaxTroubles
    BY DEF CallsAssumption, caTypeOK
  <1>2. CASE Calm
    BY <1>1, <1>2 DEF Calm
  <1>3. CASE Troubled(c)
    <2>1. /\ troubles[c] < MaxTroubles /\ troubles'[c] = troubles[c] + 1
          /\ \A d \in Tools : d # c => troubles'[d] = troubles[d]
      BY <1>3 DEF Troubled, TroubleLeft, CalmInv, Ranges
    <2>2. troubles'[c] \in 0 .. MaxTroubles
      BY <1>1, <2>1
    <2> QED
      BY <1>1, <2>1, <2>2
  <1> QED
    BY <1>2, <1>3

(* A step after which nothing runs that did not run before.                *)
LEMMA NoMoreRun ==
  ASSUME CallsAssumption, caTypeOK, Running' \subseteq Running
  PROVE  (Cardinality(Running) <= Workers)'
  <1>1. IsFiniteSet(Running)
    <2>1. Running \subseteq Tools /\ IsFiniteSet(Tools)
      BY DEF Running, CallsAssumption
    <2> QED
      BY <2>1, FS_Subset
  <1>2. Cardinality(Running') <= Cardinality(Running) /\ IsFiniteSet(Running')
    BY <1>1, FS_Subset
  <1>3. Cardinality(Running) \in Nat /\ Cardinality(Running') \in Nat
    BY <1>1, <1>2, FS_CardinalityType
  <1>4. Workers \in Nat /\ Cardinality(Running) <= Workers
    BY DEF CallsAssumption, caTypeOK
  <1> QED
    BY <1>2, <1>3, <1>4


LEMMA StartsIsTyped ==
  ASSUME CallsAssumption, CalmInv, caTypeOK, NEW c \in Tools, NEW r, NEW first, Starts(c, r, first),
         first.stage \in Idling \/ r.front # "server"
  PROVE  caTypeOK'
  <1>1. /\ call' = [call EXCEPT ![c].request = r] /\ job' = [job EXCEPT ![c] = first] /\ Calm
    BY DEF Starts
  <1>2. \A d \in Tools : call'[d].answer = call[d].answer
    BY <1>1 DEF CalmInv, CallInv, Shapes, IsCall
  <1>3. call'[c].request = r /\ job'[c] = first
    BY <1>1 DEF CalmInv, CallInv, Shapes, IsCall
  <1>4. \A d \in Tools : d # c => call'[d] = call[d] /\ job'[d] = job[d]
    BY <1>1 DEF CalmInv, CallInv, Shapes
  <1>5. Running' \subseteq Running
    BY <1>3, <1>4 DEF Running, Asked_, Idling
  <1>6. (Cardinality(Running) <= Workers)'
    BY <1>5, NoMoreRun
  <1>7. \A d \in Tools : troubles'[d] \in 0 .. MaxTroubles
    BY <1>1, TroublesAreBounded
  <1> QED
    BY <1>2, <1>6, <1>7 DEF caTypeOK

LEMMA RefusesIsTyped ==
  ASSUME CallsAssumption, CalmInv, caTypeOK, NEW c \in Tools, NEW r, Refuses(c, r)
  PROVE  caTypeOK'
  <1>1. /\ call' = [call EXCEPT ![c] = [request |-> r, answer |-> "failure"]]
        /\ job' = job /\ Calm /\ call[c].request = NoRequest
    BY DEF Refuses, Asked_
  <1>2. call'[c].answer = "failure" /\ \A d \in Tools : d # c => call'[d] = call[d]
    BY <1>1 DEF CalmInv, CallInv, Shapes
  <1>3. job[c].stage = "over"
    BY <1>1 DEF CalmInv, CallInv, Untouched
  <1>4. Running' \subseteq Running
    BY <1>1, <1>2, <1>3 DEF Running, Asked_
  <1>5. (Cardinality(Running) <= Workers)'
    BY <1>4, NoMoreRun
  <1>6. \A d \in Tools : troubles'[d] \in 0 .. MaxTroubles
    BY <1>1, TroublesAreBounded
  <1> QED
    BY <1>2, <1>5, <1>6 DEF caTypeOK

(* A worker takes a job only while fewer jobs run than there are workers.  *)
LEMMA TakeIsTyped ==
  ASSUME CallsAssumption, CalmInv, caTypeOK, NEW c \in Tools, Take(c) PROVE caTypeOK'
  <1>1. /\ Calm /\ UNCHANGED call /\ Cardinality(Running) < Workers
        /\ \A d \in Tools : d # c => job'[d] = job[d]
    BY GoesAnswers DEF Take, HasFreeWorker, Goes_, CalmInv
  <1>2. Running' \subseteq Running \cup {c}
    BY <1>1 DEF Running, Asked_
  <1>3. IsFiniteSet(Running)
    <2>1. Running \subseteq Tools /\ IsFiniteSet(Tools)
      BY DEF Running, CallsAssumption
    <2> QED
      BY <2>1, FS_Subset
  <1>4. /\ IsFiniteSet(Running \cup {c})
        /\ Cardinality(Running \cup {c}) \in {Cardinality(Running), Cardinality(Running) + 1}
    BY <1>3, FS_AddElement
  <1>5. IsFiniteSet(Running') /\ Cardinality(Running') <= Cardinality(Running \cup {c})
    BY <1>2, <1>4, FS_Subset
  <1>6. /\ Cardinality(Running) \in Nat /\ Cardinality(Running') \in Nat /\ Workers \in Nat
    BY <1>3, <1>5, FS_CardinalityType DEF CallsAssumption
  <1>7. Cardinality(Running') <= Workers
    BY <1>1, <1>4, <1>5, <1>6
  <1>8. \A d \in Tools : troubles'[d] \in 0 .. MaxTroubles
    BY <1>1, TroublesAreBounded
  <1> QED
    BY <1>1, <1>7, <1>8 DEF caTypeOK

LEMMA CallIsTyped ==
  ASSUME CallsAssumption, CalmInv, caTypeOK, [caNext]_caVars PROVE caTypeOK'
  <1>1. ASSUME NEW c \in Tools, NEW r \in Requests,
               \/ SendMessage(c, r) \/ CallAgentTool(c, r) \/ ListAgentTools(c, r)
               \/ MessageCommand(c, r) \/ ToolCommand(c, r)
        PROVE  caTypeOK'
    <2>1. CASE Refuses(c, r)
      BY <2>1, RefusesIsTyped
    <2>2. ASSUME NEW what \in {"guard", "call"}, Starts(c, r, Queued(what)) PROVE caTypeOK'
      <3>1. Queued(what).stage \in Idling
        BY DEF Queued, NoJob, Idling
      <3> QED
        BY <2>2, <3>1, StartsIsTyped
    <2>3. CASE r.front = "cli" /\ Starts(c, r, Invoking)
      <3>1. r.front # "server"
        BY <2>3
      <3> QED
        BY <2>3, <3>1, StartsIsTyped
    <2> QED
      BY <1>1, <2>1, <2>2, <2>3
         DEF SendMessage, CallAgentTool, ListAgentTools, MessageCommand, ToolCommand
  <1>2. ASSUME NEW c \in Tools, Take(c) PROVE caTypeOK'
    BY <1>2, TakeIsTyped
  <1>3. ASSUME NEW c \in Tools, Expire(c) PROVE caTypeOK'
    <2>1. call' = [call EXCEPT ![c].answer = "timeout"] /\ job' = job /\ Calm
      BY <1>3 DEF Expire
    <2>2. \A d \in Tools : /\ call'[d].request = call[d].request
                           /\ call'[d].answer \in {"timeout", call[d].answer}
      BY <2>1 DEF CalmInv, CallInv, Shapes, IsCall
    <2>3. Running' \subseteq Running
      BY <2>1, <2>2 DEF Running, Asked_
    <2>4. (Cardinality(Running) <= Workers)'
      BY <2>3, NoMoreRun
    <2>5. \A d \in Tools : troubles'[d] \in 0 .. MaxTroubles
      BY <2>1, TroublesAreBounded
    <2> QED
      BY <2>2, <2>4, <2>5 DEF caTypeOK
  <1>4. ASSUME NEW c \in Tools, Step_(c) PROVE caTypeOK'
    <2>1. /\ Answering /\ \A d \in Tools : d # c => job'[d] = job[d]
          /\ job[c].stage \notin Idling /\ (Calm \/ Troubled(c))
      BY <1>4, StepAnswers DEF CalmInv
    <2>2. Running' \subseteq Running
      BY <2>1 DEF Running, Asked_, Answering, Idling
    <2>3. (Cardinality(Running) <= Workers)'
      BY <2>2, NoMoreRun
    <2>4. \A d \in Tools : troubles'[d] \in 0 .. MaxTroubles
      BY <2>1, TroublesAreBounded
    <2>5. \A d \in Tools : call'[d].answer \in Answers
      BY <2>1 DEF Answering, caTypeOK, Answers
    <2> QED
      BY <2>3, <2>4, <2>5 DEF caTypeOK, Answers
  <1>5. CASE UNCHANGED caVars
    BY <1>5 DEF caVars, caTypeOK, Running, Asked_
  <1> QED
    BY <1>1, <1>2, <1>3, <1>4, <1>5 DEF caNext

LEMMA CallStartsTyped == ASSUME CallsAssumption, caInit PROVE caTypeOK
  <1>1. Running = {}
    BY JobShapes DEF caInit, Running
  <1>2. Cardinality(Running) = 0
    BY <1>1, FS_EmptySet
  <1>3. Workers \in Nat /\ MaxTroubles \in Nat
    BY DEF CallsAssumption
  <1>4. Cardinality(Running) <= Workers /\ 0 \in 0 .. MaxTroubles
    BY <1>2, <1>3
  <1> QED
    BY <1>4 DEF caInit, caTypeOK


LEMMA RecordIsTyped ==
  ASSUME SignedRecordAssumption, SignInv, srTypeOK, [srNext]_srVars PROVE srTypeOK'
  <1> DEFINE Stays == UNCHANGED <<support, publisher, reading, now, built, edits>>
             Verdicts == Good \cup {Absence, "not_signed", "expired", "unbound"}
  <1>0. /\ DOMAIN publisher = {"stage", "agent"} /\ IsReading(reading)
        /\ MaxBuilt \in Nat /\ MaxEdits \in Nat /\ LastMoment \in Nat
    BY DEF SignInv, SigsAreGenuine, SignedRecordAssumption
  <1>1. ASSUME NEW args \in Arguments, Build(args) PROVE srTypeOK'
    <2>1. /\ UNCHANGED <<support, reading, now, edits>> /\ publisher'.stage = "svcb"
          /\ built < MaxBuilt /\ built' = built + 1
      BY <1>1 DEF Build
    <2>2. built' \in 0 .. MaxBuilt
      BY <1>0, <2>1 DEF srTypeOK
    <2> QED
      BY <2>1, <2>2 DEF srTypeOK
  <1>2. ASSUME PutWhole \/ PutStandard PROVE srTypeOK'
    <2>1. /\ UNCHANGED <<support, reading, now, built, edits>>
          /\ publisher' = Idle \/ publisher' = [publisher EXCEPT !.stage = "demote"]
      BY <1>2 DEF PutWhole, PutStandard
    <2>2. publisher'.stage \in {"idle", "demote"}
      BY <1>0, <2>1 DEF Idle
    <2> QED
      BY <2>1, <2>2 DEF srTypeOK
  <1>3. ASSUME Edit PROVE srTypeOK'
    <2>1. /\ UNCHANGED <<support, publisher, reading, now, built>>
          /\ edits < MaxEdits /\ edits' = edits + 1
      BY <1>3 DEF Edit
    <2>2. edits' \in 0 .. MaxEdits
      BY <1>0, <2>1 DEF srTypeOK
    <2> QED
      BY <2>1, <2>2 DEF srTypeOK
  <1>4. ASSUME NEW n \in AgentNames, Query(n) PROVE srTypeOK'
    <2>1. /\ UNCHANGED <<support, publisher, now, built, edits>>
          /\ reading'.at = "read" /\ reading'.status = Absence
      BY <1>4 DEF Query, Unread
    <2> QED
      BY <2>1 DEF srTypeOK
  <1>8. ASSUME NEW n \in AgentNames, QueryDrops(n) PROVE srTypeOK'
    BY <1>8, ConstantShapes DEF QueryDrops, Unread, srTypeOK
  <1>5. ASSUME Judge PROVE srTypeOK'
    <2>1. \A s, a : Status(s, a) \in Verdicts
      BY DEF Status, Good
    <2>2. PICK status \in Verdicts :
            reading' = [reading EXCEPT !.at = "judged", !.status = status,
                          !.covers = status = "verified",
                          !.expires = IF status \in Good THEN reading.agent.sig.exp ELSE 0]
      BY <1>5, <2>1 DEF Judge
    <2>3. reading'.at = "judged" /\ reading'.status = status
      BY <1>0, <2>2 DEF IsReading
    <2> QED
      BY <1>5, <2>3 DEF Judge, srTypeOK
  <1>6. ASSUME srTick PROVE srTypeOK'
    <2>1. UNCHANGED <<support, publisher, reading, built, edits>>
      BY <1>6 DEF srTick
    <2>2. now' \in 0 .. LastMoment
      BY <1>0, <1>6 DEF srTick, srTypeOK
    <2> QED
      BY <2>1, <2>2 DEF srTypeOK
  <1>7. CASE UNCHANGED srVars
    BY <1>7 DEF srVars, srTypeOK
  <1> QED
    BY <1>1, <1>2, <1>3, <1>4, <1>5, <1>6, <1>7, <1>8 DEF srNext

LEMMA RecordStartsTyped == ASSUME SignedRecordAssumption, srInit PROVE srTypeOK
  <1>1. 0 \in 0 .. LastMoment /\ 0 \in 0 .. MaxBuilt /\ 0 \in 0 .. MaxEdits
    BY DEF SignedRecordAssumption
  <1> QED
    BY <1>1 DEF srInit, srTypeOK, Idle, Unread

EndpointsInv == VerifyInv /\ CalmInv /\ caTypeOK /\ SignInv /\ srTypeOK

(* Whatever is verified, called or signed, its state keeps its types: a    *)
(* verification meets two certificates at most and counts no association   *)
(* twice (validator.py:594-614), and the pool never runs more jobs than it *)
(* has threads, however many of them outlive the tools they were run for   *)
(* (mcp/server.py:205-224).                                                *)
THEOREM EndpointsAreTyped == epSpec => []EndpointsTypeOK
  <1> USE VerificationAssumption, CallsAssumption, SignedRecordAssumption
  <1>1. epInit => EndpointsInv
    BY VerifyInit, CalmInit, CallStartsTyped, SignInit, RecordStartsTyped
       DEF epInit, EndpointsInv
  <1>2. EndpointsInv /\ [epNext]_epVars => EndpointsInv'
    <2> SUFFICES ASSUME EndpointsInv, [epNext]_epVars PROVE EndpointsInv'
      OBVIOUS
    <2>1. [vfNext]_vfVars /\ [caNext]_caVars /\ [srNext]_srVars
      BY DEF epNext, epVars
    <2>2. VerifyInv'
      BY <2>1, VerifyNext DEF EndpointsInv
    <2>3. CalmInv' /\ caTypeOK'
      BY <2>1, CalmNext, CallIsTyped DEF EndpointsInv
    <2>4. SignInv' /\ srTypeOK'
      BY <2>1, SignNext, RecordIsTyped DEF EndpointsInv
    <2> QED
      BY <2>2, <2>3, <2>4 DEF EndpointsInv
  <1>3. EndpointsInv => EndpointsTypeOK
    BY VerifyIsTyped DEF EndpointsInv, EndpointsTypeOK
  <1> QED
    BY <1>1, <1>2, <1>3, PTL DEF epSpec

=============================================================================
