----------------------------- MODULE SignedRecord -----------------------------
(***************************************************************************)
(* A record from the arguments of its publication to the verdict of a      *)
(* discovery: publish builds the AgentRecord and signs it                  *)
(* (core/publisher.py, core/jwks.py), publish_agent puts it on the wire    *)
(* (backends/base.py), another tool may edit what is there, and a reader   *)
(* parses it and holds the signature against what it read                  *)
(* (core/discoverer.py).  A signature is the payload it covers; keys are   *)
(* served all the time (JwksCache has their failures), one host stands for *)
(* target and port, and the TXT record, of which discovery reads no        *)
(* parameter, is left to Publication.                                      *)
(***************************************************************************)
EXTENDS Naturals, FiniteSets

CONSTANTS
  AgentNames,  \* names of one domain
  Arguments,   \* what publish is called with: [name, protocol, target, params, sign, claim]
  Escaped,     \* values with octets that the text form of a record escapes (not ASCII)
  Support,     \* what supports_private_svcb_keys may be: "true", "false", "unknown"
  Validity,    \* sig_validity_seconds
  MaxBuilt,    \* bound: publications
  MaxEdits,    \* bound: edits by another tool
  LastMoment   \* bound: the clock

VARIABLES
  support,   \* of the backend
  publisher, \* the publication in progress
  svcb,      \* per name, the SVCB record
  reading,   \* the discovery in progress, or the last one
  now,
  signed,    \* (ghost) every payload signed by the zone's key
  built, edits

srVars == <<support, publisher, svcb, reading, now, signed, built, edits>>

Absence == "-"
Empty == ""

(* Four of the nine covered keys, for what becomes of them on the way: cap *)
(* and realm are kept as they are, as cap-sha256, policy, connect-meta and *)
(* enroll-uri are; connect-class is lowered; an empty bap is refused, as   *)
(* an empty well-known is.                                                 *)
Keys == {"cap", "realm", "connect-class", "bap"}
NoParams == [k \in Keys |-> Absence]

ASSUME SignedRecordAssumption ==
  /\ {Validity, MaxBuilt, MaxEdits, LastMoment} \subseteq Nat
  /\ \A args \in Arguments : args.claim \in BOOLEAN /\ DOMAIN args.params = Keys

\* claim: the payload covers the parameters, as it does since the svcb claim.
NoSig == [by |-> "nobody", name |-> Absence, target |-> Absence, alpn |-> Absence,
          claim |-> FALSE, params |-> NoParams, exp |-> 0]
NoAgent == [name |-> Absence, protocol |-> Absence, target |-> Absence,
            params |-> NoParams, sig |-> NoSig]

\* An SVCB record; (ghost) of: the agent it was published for, unless edited.
NoRecord == [target |-> Absence, alpn |-> Absence, params |-> NoParams, sig |-> NoSig,
             of |-> NoAgent]

Idle == [stage |-> "idle", agent |-> NoAgent]
Unread == [at |-> "nothing", agent |-> NoAgent, of |-> NoAgent, status |-> Absence,
           covers |-> FALSE, expires |-> 0]

srInit ==
  /\ support \in Support
  /\ publisher = Idle
  /\ svcb = [n \in AgentNames |-> NoRecord]
  /\ reading = Unread
  /\ now = 0 /\ signed = {} /\ built = 0 /\ edits = 0

(* AgentRecord lowers the connect class and drops a blank one; every other *)
(* parameter is kept, an empty one too.                                    *)
Lowered(class) == CASE class = "Direct" -> "direct" [] class = Empty -> Absence [] OTHER -> class

Agent(name, protocol, target, params) ==
  [NoAgent EXCEPT !.name = name, !.protocol = protocol, !.target = target,
                  !.params = [params EXCEPT !["connect-class"] = Lowered(@)]]

(* params_from_record: empty reads as absent. *)
Covered_Verbatim(agent) == agent.params
Covered(agent) ==
  [k \in Keys |-> IF agent.params[k] = Empty THEN Absence ELSE agent.params[k]]

(* RecordPayload.from_agent_record and sign_record: of the record that will *)
(* be published.  Publishers before the claim covered no parameters.        *)
Payload(agent, claim) ==
  [by |-> "zone", name |-> agent.name, target |-> agent.target, alpn |-> agent.protocol,
   claim |-> claim, params |-> IF claim THEN Covered(agent) ELSE NoParams,
   exp |-> now + Validity]

(* publish up to the backend; the model refuses an empty bap. *)
Build(args) ==
  LET agent == Agent(args.name, args.protocol, args.target, args.params)
      sig == IF args.sign THEN Payload(agent, args.claim) ELSE NoSig
  IN
  /\ publisher.stage = "idle" /\ built < MaxBuilt
  /\ args.params["bap"] # Empty
  /\ publisher' = [stage |-> "svcb", agent |-> [agent EXCEPT !.sig = sig]]
  /\ signed' = signed \cup ({sig} \ {NoSig})
  /\ built' = built + 1
  /\ UNCHANGED <<support, svcb, reading, now, edits>>

(* to_params emits what is not empty; without private keys the record      *)
(* keeps target and alpn, and loses the rest, its signature included.      *)
ToParams(agent) ==
  [k \in Keys |-> IF agent.params[k] \in {Empty, Absence} THEN Absence ELSE agent.params[k]]
Whole(agent) == [target |-> agent.target, alpn |-> agent.protocol, params |-> ToParams(agent),
                 sig |-> agent.sig, of |-> agent]
Standard(agent) == [Whole(agent) EXCEPT !.params = NoParams, !.sig = NoSig]
IsStandard(agent) == Whole(agent) = Standard(agent)

Put(record) == svcb' = [svcb EXCEPT ![publisher.agent.name] = record]

(* publish_agent: native where the backend is known to take private keys,  *)
(* tried where it is not known (DDNS), and demoted after any exception,    *)
(* which a write that took effect and lost its reply raises too.           *)
PutWhole ==
  /\ publisher.stage = "svcb"
  /\ support = "true" \/ (support = "unknown" /\ ~ IsStandard(publisher.agent))
  /\ \/ Put(Whole(publisher.agent)) /\ publisher' = Idle
     \/ /\ support = "unknown" /\ publisher' = [publisher EXCEPT !.stage = "demote"]
        /\ Put(Whole(publisher.agent)) \/ UNCHANGED svcb
  /\ UNCHANGED <<support, reading, now, signed, built, edits>>

PutStandard ==
  /\ \/ publisher.stage = "demote"
     \/ publisher.stage = "svcb" /\ support = "false"
     \/ publisher.stage = "svcb" /\ support = "unknown" /\ IsStandard(publisher.agent)
  /\ Put(Standard(publisher.agent)) /\ publisher' = Idle
  /\ UNCHANGED <<support, reading, now, signed, built, edits>>

(* Another tool moves the agent, changes a parameter, or copies the record *)
(* to another name; the signature stays what it was.                       *)
Edit ==
  /\ edits < MaxEdits /\ edits' = edits + 1
  /\ \E n \in AgentNames, args \in Arguments :
       LET record == [svcb[n] EXCEPT !.of = NoAgent] IN
       /\ svcb[n] # NoRecord
       /\ \/ /\ args.target # record.target
             /\ svcb' = [svcb EXCEPT ![n] = [record EXCEPT !.target = args.target]]
          \/ \E k \in Keys :
               /\ args.params[k] \notin {Empty, record.params[k]}
               /\ svcb' = [svcb EXCEPT ![n] = [record EXCEPT !.params[k] = args.params[k]]]
          \/ args.name # n /\ svcb' = [svcb EXCEPT ![args.name] = record]
  /\ UNCHANGED <<support, publisher, reading, now, signed, built>>

(* _query_single_agent: the protocol is that of bap, then that of alpn,    *)
(* and what was demoted to the TXT record is not read.                     *)
SpokenBy(bap) == CASE bap \in {"mcp", "mcp=1.0"} -> "mcp"
                   [] bap \in {"a2a", "a2a=1.0"} -> "a2a"
                   [] OTHER -> Absence
ReconcileProtocol(bap, alpn) == IF SpokenBy(bap) # Absence THEN SpokenBy(bap) ELSE alpn

(* Text is read as the resolver escapes it, and nothing undoes that: a     *)
(* value that is not ASCII comes back with backslashes, AgentRecord        *)
(* refuses it, and the query yields no agent.                              *)
Readable(record) == \A k \in Keys : record.params[k] \notin Escaped

Query(n) ==
  LET record == svcb[n]
      agent == Agent(n, ReconcileProtocol(record.params["bap"], record.alpn), record.target,
                     record.params)
  IN
  /\ reading.at # "read" /\ record # NoRecord /\ Readable(record)
  /\ reading' = [Unread EXCEPT !.at = "read", !.of = record.of,
                               !.agent = [agent EXCEPT !.sig = record.sig]]
  /\ UNCHANGED <<support, publisher, svcb, now, signed, built, edits>>

QueryDrops(n) ==
  /\ reading.at # "read" /\ svcb[n] # NoRecord /\ ~ Readable(svcb[n])
  /\ reading' = Unread
  /\ UNCHANGED <<support, publisher, svcb, now, signed, built, edits>>

(* verify_signature_detailed, then _verify_one: expiry before binding; the *)
(* endpoint, then the parameters where the payload claims them.            *)
Binds(s, agent) ==
  /\ s.name = agent.name /\ s.target = agent.target /\ s.alpn = agent.protocol
  /\ s.claim => s.params = Covered(agent)

Status(s, agent) ==
  CASE s = NoSig -> "not_signed"
    [] s # NoSig /\ s.exp < now -> "expired"
    [] s # NoSig /\ s.exp >= now /\ ~ Binds(s, agent) -> "unbound"
    [] OTHER -> IF s.claim THEN "verified" ELSE "verified_endpoint_only"

Good == {"verified", "verified_endpoint_only"}

Judge ==
  LET s == reading.agent.sig
      status == Status(s, reading.agent)
  IN
  /\ reading.at = "read"
  /\ reading' = [reading EXCEPT !.at = "judged", !.status = status,
                                !.covers = status = "verified",
                                !.expires = IF status \in Good THEN s.exp ELSE 0]
  /\ UNCHANGED <<support, publisher, svcb, now, signed, built, edits>>

srTick ==
  /\ now < LastMoment /\ now' = now + 1
  /\ UNCHANGED <<support, publisher, svcb, reading, signed, built, edits>>

srNext ==
  \/ \E args \in Arguments : Build(args)
  \/ PutWhole
  \/ PutStandard
  \/ Edit
  \/ \E n \in AgentNames : Query(n) \/ QueryDrops(n)
  \/ Judge
  \/ srTick

srSpec == srInit /\ [][srNext]_srVars

-----------------------------------------------------------------------------
srTypeOK ==
  /\ support \in Support
  /\ publisher.stage \in {"idle", "svcb", "demote"}
  /\ reading.at \in {"nothing", "read", "judged"}
  /\ reading.status \in Good \cup {Absence, "not_signed", "expired", "unbound"}
  /\ now \in 0 .. LastMoment /\ built \in 0 .. MaxBuilt /\ edits \in 0 .. MaxEdits

(* What a signature vouches for was signed (core/discoverer.py:2124-2197):  *)
(* a verified record has the name, host, protocol and, with the claim,      *)
(* every parameter of one signing of its zone, and lapses when that does.   *)
VouchedWasSigned ==
  reading.status \in Good =>
    \E s \in signed :
      /\ s.name = reading.agent.name /\ s.target = reading.agent.target
      /\ s.alpn = reading.agent.protocol /\ s.exp = reading.expires
      /\ reading.covers <=> s.claim
      /\ s.claim => \A k \in Keys :
           s.params[k] = IF reading.agent.params[k] = Empty THEN Absence ELSE reading.agent.params[k]

(* A publisher's own record, written whole by it and not touched since, is  *)
(* never taken for a lifted signature (publisher.py:303-309), whatever the  *)
(* case and emptiness of the arguments; a bap that names another protocol   *)
(* than the record's is the exception.                                      *)
OwnRecordBinds ==
  (/\ reading.of # NoAgent /\ reading.agent.sig # NoSig
   /\ reading.of.params["bap"] = Absence \/ SpokenBy(reading.of.params["bap"]) \in
                                              {Absence, reading.of.protocol})
    => reading.status # "unbound"

SignatureIsExact == VouchedWasSigned /\ OwnRecordBinds

=============================================================================
