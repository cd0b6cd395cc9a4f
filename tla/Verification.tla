----------------------------- MODULE Verification -----------------------------
(***************************************************************************)
(* Verification of one agent's records (src/dns_aid/core/validator.py):    *)
(* verify asks for the SVCB record, for DNSSEC, for the TLSA records and   *)
(* for the certificate of the endpoint, each with a request of its own,    *)
(* while the addresses of the endpoint come, go and answer differently     *)
(* and its owner rolls the certificate over.                               *)
(* A certificate has a name, a key, passes PKIX or not, and parses or not; *)
(* an association pins a certificate or a key; digests are abstracted.     *)
(***************************************************************************)
EXTENDS Naturals, Sequences, FiniteSets, Selection

CONSTANTS
  Certificates, \* records [id, key, chains, parses]
  RRsets,       \* the TLSA RRsets a target may have, sequences of associations
  Addresses,    \* how many addresses the target has
  MaxCompared,  \* MAX_TLSA_ASSOCIATIONS
  Outgoing,     \* the certificate a rollover replaces
  Incoming,     \* and the one it brings in
  MaxFlaps      \* bound: addresses that change what they present

VARIABLES
  world,  \* the zone and the endpoint
  check,  \* the state of the verification
  met     \* (ghost) the certificates this verification was shown, in order

vfVars == <<world, check, met>>

Certificate == [id : STRING, key : STRING, chains : BOOLEAN, parses : BOOLEAN]
Association == [usage : Nat, selector : {"cert", "key", "unknown"}, value : STRING]

ASSUME VerificationAssumption ==
  /\ Certificates \subseteq Certificate /\ {Outgoing, Incoming} \subseteq Certificates
  /\ RRsets \subseteq Seq(Association)
  /\ {Addresses, MaxCompared, MaxFlaps} \subseteq Nat

Down == [id |-> "down", key |-> "down", chains |-> FALSE, parses |-> FALSE]
Pin(usage, selector, value) == [usage |-> usage, selector |-> selector, value |-> value]

\* Endpoint and trust-anchor usages, known and unknown selectors.
IsUsable(a) == a.usage \in {1, 3} /\ a.selector \in {"cert", "key"}

\* Comparing a key needs a certificate that parses.
CanCompare(cert, a) == a.selector = "key" => cert.parses
AssociationMatches(cert, a) == a.value = IF a.selector = "key" THEN cert.key ELSE cert.id

Blank == [step |-> "svcb", full |-> FALSE, exists |-> FALSE, valid |-> FALSE, dnssec |-> FALSE,
          signed |-> {}, rrset |-> <<>>, left |-> <<>>, unevaluated |-> 0, refuted |-> 0,
          cert |-> Down, dane |-> "unknown", reachable |-> FALSE, connected |-> FALSE]

Worlds ==
  [kind : {"svcb", "https", "root", "none"}, ad : SUBSET {"SVCB", "TXT", "TLSA"},
   tlsa : RRsets, shown : [1 .. Addresses -> Certificates \cup {Down}],
   portAllowed : BOOLEAN, stage : {"steady"}, flaps : {0}]

\* A deployment in the course of a rollover: one certificate on every address.
Rollover ==
  [kind |-> "svcb", ad |-> {"SVCB", "TXT", "TLSA"}, tlsa |-> <<Pin(3, "cert", Outgoing.id)>>,
   shown |-> [a \in 1 .. Addresses |-> Outgoing], portAllowed |-> TRUE,
   stage |-> "outgoing", flaps |-> MaxFlaps]

vfInit ==
  /\ world \in Worlds \cup {Rollover}
  /\ check \in {[Blank EXCEPT !.full = full] : full \in BOOLEAN}
  /\ met = <<>>

Set(state) == check' = state
WorldSame == UNCHANGED world
Up == {a \in 1 .. Addresses : world.shown[a] # Down}
First(as) == CHOOSE a \in as : \A b \in as : a <= b

(* _check_svcb_record: SVCB, or HTTPS where there is none; a target that is *)
(* the root is empty once its dot is stripped, and ends the other checks.   *)
(* So does a query that fails: it has found no record, like one that is     *)
(* answered by NXDOMAIN.                                                    *)
CheckSvcb ==
  /\ check.step = "svcb"
  /\ \E found \in {world.kind, "none"} :
       Set([check EXCEPT !.step = "dnssec",
                         !.exists = found # "none",
                         !.valid = found \in {"svcb", "https"}])
  /\ WorldSame /\ UNCHANGED met

(* _check_dnssec_detail: the AD flag of the SVCB answer, of the TXT answer  *)
(* when the name has no SVCB record; a resolver that fails, or a name that  *)
(* has neither, validates nothing. It asks afresh, whatever CheckSvcb found.*)
AdFlag == (IF world.kind \in {"svcb", "root"} THEN "SVCB" ELSE "TXT") \in world.ad

CheckDnssecDetail ==
  /\ check.step = "dnssec"
  /\ \E validated \in {AdFlag, FALSE} :
       Set([check EXCEPT !.dnssec = validated,
                         !.step = IF check.valid THEN "tlsa" ELSE "done"])
  /\ WorldSame /\ UNCHANGED met

(* _check_dane up to the certificate: no answer, no association or an      *)
(* unauthenticated RRset is unknown; an advisory check ends with the       *)
(* existence of a record; no more than MaxCompared associations are kept.  *)
UsableOf(rrset) == Pick(rrset, {j \in DOMAIN rrset : IsUsable(rrset[j])})
Excess(usable) == IF Len(usable) > MaxCompared THEN Len(usable) - MaxCompared ELSE 0
Kept(usable) == SubSeq(usable, 1, Len(usable) - Excess(usable))

Concluded(state, dane) == [state EXCEPT !.dane = dane, !.step = "gate", !.left = <<>>]

CheckTlsa ==
  LET usable == UsableOf(world.tlsa)
      read == [check EXCEPT !.rrset = world.tlsa, !.signed = world.ad]
  IN
  /\ check.step = "tlsa"
  /\ \/ Set(Concluded(check, "unknown"))      \* the query failed
     \/ /\ world.tlsa = <<>>
        /\ Set(Concluded(read, "unknown"))
     \/ /\ world.tlsa # <<>> /\ ~ check.full
        /\ Set(Concluded(read, "true"))
     \/ /\ world.tlsa # <<>> /\ check.full
        /\ Set(IF "TLSA" \notin world.ad \/ usable = <<>> THEN Concluded(read, "unknown")
               ELSE [read EXCEPT !.step = "cert", !.left = Kept(usable),
                                 !.unevaluated = Excess(usable)])
  /\ WorldSame /\ UNCHANGED met

(* _fetch_peer_cert without PKIX: the first address that answers; a port   *)
(* off the list, or no address that answers, leaves the result unknown.    *)
FetchCert ==
  /\ check.step = "cert"
  /\ IF world.portAllowed /\ Up # {}
     THEN LET cert == world.shown[First(Up)] IN
          Set([check EXCEPT !.step = "compare", !.cert = cert]) /\ met' = <<cert>>
     ELSE Set(Concluded(check, "unknown")) /\ met' = met
  /\ WorldSame

(* The comparison loop.  A miss goes on to the next association, so does   *)
(* one that cannot be compared; usage 1 asks for the PKIX certificate.     *)
Next1 == [check EXCEPT !.left = Tail(@)]
Unevaluated == [Next1 EXCEPT !.unevaluated = @ + 1]

Missed_Final == Concluded(check, "false")
Missed == [Next1 EXCEPT !.refuted = @ + 1]

Compare ==
  LET a == Head(check.left) IN
  /\ check.step = "compare" /\ check.left # <<>>
  /\ Set(IF ~ CanCompare(check.cert, a) THEN Unevaluated
         ELSE IF ~ AssociationMatches(check.cert, a) THEN Missed
         ELSE IF a.usage = 1 THEN [check EXCEPT !.step = "pkix"]
         ELSE Concluded(check, "true"))
  /\ WorldSame /\ UNCHANGED met

Exhausted ==
  /\ check.step = "compare" /\ check.left = <<>>
  /\ Set(Concluded(check, IF check.unevaluated > 0 THEN "unknown" ELSE "false"))
  /\ WorldSame /\ UNCHANGED met

(* _pkix_status, probed once: a second connection, that has to pass PKIX   *)
(* on one of the addresses; a rejected certificate advances to the next    *)
(* address as a failed connection does, SSLError being an OSError.  The    *)
(* certificate it returns has to match the association too.                *)
Chaining == {a \in Up : world.shown[a].chains}

SameCertificate(cert, a) == CanCompare(cert, a) /\ AssociationMatches(cert, a)

Settled(cert) ==
  LET a == Head(check.left) IN
  IF cert # Down /\ SameCertificate(cert, a) THEN Concluded(check, "true")
  ELSE [Unevaluated EXCEPT !.step = "compare"]

ProbePkix ==
  /\ check.step = "pkix" /\ Len(met) = 1
  /\ LET cert == IF Chaining = {} THEN Down ELSE world.shown[First(Chaining)] IN
     Set(Settled(cert)) /\ met' = Append(met, cert)
  /\ WorldSame

ReusePkix ==
  /\ check.step = "pkix" /\ Len(met) = 2
  /\ Set(Settled(met[2]))
  /\ WorldSame /\ UNCHANGED met

(* verify demotes a DANE outcome that no validated name leads to. *)
Demote ==
  /\ check.step = "gate"
  /\ Set([check EXCEPT !.step = "endpoint", !.dane = IF check.dnssec THEN @ ELSE "unknown"])
  /\ WorldSame /\ UNCHANGED met

(* _check_endpoint: every address in turn, three paths each, with PKIX;    *)
(* none of the paths may answer below 500.                                 *)
CheckEndpoint ==
  /\ check.step = "endpoint"
  /\ \E reachable \in {Chaining # {}, FALSE} :
       Set([check EXCEPT !.step = "tls", !.reachable = reachable])
  /\ WorldSame /\ UNCHANGED met

(* _check_tls: the first address only. *)
CheckTls ==
  /\ check.step = "tls"
  /\ Set([check EXCEPT !.step = "done", !.connected = 1 \in Chaining])
  /\ WorldSame /\ UNCHANGED met

\* VerifyResult.security_score and security_rating.
Credit(holds, points) == IF holds THEN points ELSE 0
SecurityScore(r) ==
  Credit(r.exists, 20) + Credit(r.valid, 20) + Credit(r.dnssec, 30)
    + Credit(r.dane = "true" /\ r.dnssec, 15) + Credit(r.reachable, 15)
SecurityRating(r) ==
  LET score == SecurityScore(r) IN
  IF score >= 85 THEN "Excellent" ELSE IF score >= 70 THEN "Good"
  ELSE IF score >= 50 THEN "Fair" ELSE "Poor"

(***************************************************************************)
(* The world.  An address presents another certificate or stops answering; *)
(* the owner of a rollover publishes both pins, changes the certificate,   *)
(* then withdraws the old pin, and waits before each step until no answer  *)
(* of the step before is in use any more (the TTL of the records).         *)
(***************************************************************************)
Flap ==
  /\ world.flaps < MaxFlaps
  /\ check.step \in {"compare", "pkix"}
  /\ \E a \in 1 .. Addresses, cert \in Certificates \cup {Down} :
       /\ cert # world.shown[a]
       /\ world' = [world EXCEPT !.shown[a] = cert, !.flaps = @ + 1]
  /\ UNCHANGED <<check, met>>

BothPins == {<<Pin(3, "cert", Outgoing.id), Pin(3, "cert", Incoming.id)>>,
             <<Pin(3, "cert", Incoming.id), Pin(3, "cert", Outgoing.id)>>}
NoStaleAnswer == check.rrset \in {<<>>, world.tlsa}

PublishBothPins ==
  /\ world.stage = "outgoing"
  /\ \E pins \in BothPins : world' = [world EXCEPT !.tlsa = pins, !.stage = "both"]
  /\ UNCHANGED <<check, met>>

SwitchCertificate ==
  /\ world.stage = "both" /\ NoStaleAnswer
  /\ world' = [world EXCEPT !.shown = [a \in 1 .. Addresses |-> Incoming], !.stage = "incoming"]
  /\ UNCHANGED <<check, met>>

WithdrawOldPin ==
  /\ world.stage = "incoming"
  /\ world' = [world EXCEPT !.tlsa = <<Pin(3, "cert", Incoming.id)>>, !.stage = "over"]
  /\ UNCHANGED <<check, met>>

vfNext ==
  \/ CheckSvcb
  \/ CheckDnssecDetail
  \/ CheckTlsa
  \/ FetchCert
  \/ Compare
  \/ Exhausted
  \/ ProbePkix
  \/ ReusePkix
  \/ Demote
  \/ CheckEndpoint
  \/ CheckTls
  \/ Flap
  \/ PublishBothPins
  \/ SwitchCertificate
  \/ WithdrawOldPin

vfSpec == vfInit /\ [][vfNext]_vfVars

-----------------------------------------------------------------------------
vfTypeOK ==
  /\ world.flaps \in 0 .. MaxFlaps
  /\ check.unevaluated + check.refuted <= Len(check.rrset)
  /\ check.dane \in {"true", "false", "unknown"}
  /\ Len(met) <= 2
  /\ \A a \in 1 .. Addresses : world.shown[a] \in Certificates \cup {Down}

(* A full check that passes (validator.py:694-765) rests on one            *)
(* certificate: it was presented during the check, matches an association  *)
(* of the authenticated RRset and, where that one pins a PKIX certificate, *)
(* chains; the agent's own name was validated too.                         *)
PassIsEarned ==
  (check.step \in {"endpoint", "tls", "done"} /\ check.full /\ check.dane = "true") =>
    /\ check.dnssec /\ "TLSA" \in check.signed
    /\ \E i \in DOMAIN met, j \in DOMAIN check.rrset :
         LET a == check.rrset[j] IN
         /\ a.usage = 3 \/ (a.usage = 1 /\ met[i].chains)
         /\ a.value = (CASE a.selector = "cert" -> met[i].id
                         [] a.selector = "key" -> met[i].key)

(* A mismatch is reported exactly when the endpoint presented a            *)
(* certificate that every usable association, few enough to be compared,   *)
(* was compared with and refused (validator.py:599-614): nothing softer    *)
(* becomes one, and nothing the endpoint does afterwards (its second       *)
(* connection, lines 711-720) takes one back.                              *)
EndEntity(rrset) ==
  {j \in DOMAIN rrset : rrset[j].usage \in {1, 3} /\ rrset[j].selector \in {"cert", "key"}}

Refutes(cert, a) == CASE a.selector = "cert" -> a.value # cert.id
                      [] a.selector = "key" -> cert.parses /\ a.value # cert.key

MismatchIsExact ==
  (check.step \in {"endpoint", "tls", "done"} /\ check.full) =>
    ((check.dane = "false") <=>
       /\ check.dnssec /\ "TLSA" \in check.signed
       /\ met # <<>>
       /\ Cardinality(EndEntity(check.rrset)) \in 1 .. MaxCompared
       /\ \A j \in EndEntity(check.rrset) : Refutes(met[1], check.rrset[j]))

(* A certificate rolled over with both pins published side by side is      *)
(* never reported as a mismatch, whatever the order of the RRset and       *)
(* whichever step of the rollover the check meets (validator.py:512-516).  *)
RolloverIsSmooth == world.stage # "steady" => check.dane # "false"

(* A rating is earned (models.py:1158-1199): Good or better needs a name   *)
(* validated by DNSSEC, Excellent an endpoint that was met besides.        *)
RatingIsEarned ==
  check.step = "done" =>
    /\ SecurityRating(check) \in {"Good", "Excellent"} => check.dnssec /\ check.valid
    /\ (SecurityRating(check) = "Excellent" /\ check.full) => check.reachable \/ met # <<>>

\* What the verdict and the rating of a verification promise.
VerificationIsSound == PassIsEarned /\ MismatchIsExact /\ RolloverIsSmooth /\ RatingIsEarned

=============================================================================
