------------------------------ MODULE MCEndpoints ------------------------------
(***************************************************************************)
(* What is done with one agent: its record is signed, published and read,  *)
(* its endpoint is verified, and it is called.  The three share nothing    *)
(* that a step of another reads, so a behaviour runs one of them.          *)
(***************************************************************************)
EXTENDS Verification, Calls, SignedRecord

CONSTANTS Parts  \* those of this run: "record", "verify", "call"

VARIABLE part

\* Two certificates of one key, of which one chains, and one that does not parse.
Cert(id, key, chains, parses) == [id |-> id, key |-> key, chains |-> chains, parses |-> parses]
c1 == Cert("c1", "k1", TRUE, TRUE)
c2 == Cert("c2", "k1", FALSE, TRUE)
c3 == Cert("c3", "k3", TRUE, FALSE)
certs == {c1, c2, c3}

rrsets == {
  <<>>, <<Pin(1, "cert", "c1")>>, <<Pin(1, "key", "k1"), Pin(3, "cert", "c3")>>,
  <<Pin(2, "cert", "c1")>>, <<Pin(1, "cert", "c2"), Pin(1, "key", "k1")>>,
  <<Pin(3, "cert", "c2"), Pin(3, "key", "k3"), Pin(3, "cert", "c1")>>}

Request(kind, front, endpoint, named, guarded) ==
  [kind |-> kind, front |-> front, endpoint |-> endpoint, named |-> named, policy |-> guarded]
bare == Url("e", "")
own == Url("e", "own")
requests == {
  Request("call", "server", bare, FALSE, TRUE), Request("call", "cli", own, FALSE, FALSE),
  Request("list", "server", bare, FALSE, FALSE), Request("message", "cli", NoUrl, FALSE, FALSE),
  Request("message", "cli", own, FALSE, FALSE), Request("message", "server", NoUrl, FALSE, FALSE),
  Request("message", "server", bare, TRUE, TRUE)}

\* What lives where, what agent.json and the card say of it, and the policy.
Other(lives, json, card, listed, modern, methods, strict) ==
  [lives |-> lives, json |-> json, card |-> card, at |-> bare, listed |-> listed,
   modern |-> modern, methods |-> methods, strict |-> strict]
others ==
  {Other(lives, json, card, listed, modern, methods, strict) :
     lives \in {own, Url("e", "mcp"), bare}, json \in {"", "own"}, card \in {NoUrl, own},
     listed \in BOOLEAN, modern \in BOOLEAN, methods \in {{}, {"tools/call"}},
     strict \in BOOLEAN}
\* Not every combination: a policy on modern agents, in either mode; old ones
\* neither listed nor with a card, which only messages ask about.
someOthers == {o \in others : /\ o.methods # {} => o.modern /\ o.json = "own" /\ o.lives # bare
                              /\ ~ o.modern => o.card = NoUrl
                              /\ o.methods = {} => o.strict
                              /\ o.listed => o.modern /\ o.json = ""}

Params(cap, realm, class, bap) ==
  [k \in Keys |-> CASE k = "cap" -> cap [] k = "realm" -> realm
                    [] k = "connect-class" -> class [] k = "bap" -> bap]
Asks(name, protocol, target, params, sign, claim) ==
  [name |-> name, protocol |-> protocol, target |-> target, params |-> params,
   sign |-> sign, claim |-> claim]
arguments == {
  Asks("n1", "mcp", "h1", Params("u1", "", "Direct", "mcp=1.0"), TRUE, TRUE),
  Asks("n1", "a2a", "h1", Params("-", "-", "", "a2a"), TRUE, FALSE),
  Asks("n2", "mcp", "h2", Params("", "accented", "direct", "-"), FALSE, FALSE),
  Asks("n2", "mcp", "h1", Params("u1", "r", "-", "a2a"), TRUE, TRUE)}

epVars == <<part, vfVars, caVars, srVars>>

epInit ==
  /\ part \in Parts
  /\ IF part = "verify" THEN TRUE ELSE world = Rollover /\ check = Blank
  /\ IF part = "call" THEN TRUE ELSE agent = CHOOSE o \in Agents : TRUE
  /\ IF part = "record" THEN TRUE ELSE support = "true"
  /\ vfInit /\ caInit /\ srInit

epNext ==
  \/ part = "verify" /\ vfNext /\ UNCHANGED <<part, caVars, srVars>>
  \/ part = "call" /\ caNext /\ UNCHANGED <<part, vfVars, srVars>>
  \/ part = "record" /\ srNext /\ UNCHANGED <<part, vfVars, caVars>>

epSpec == epInit /\ [][epNext]_epVars /\ caFair

(* Types of the three parts' variables. *)
EndpointsTypeOK == vfTypeOK /\ caTypeOK /\ srTypeOK
=============================================================================
