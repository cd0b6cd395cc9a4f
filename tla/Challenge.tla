------------------------------ MODULE Challenge ------------------------------
(***************************************************************************)
(* Domain control validation (src/dns_aid/core/dcv.py).  A challenger      *)
(* issues a token; the claimant places it in a TXT record of its zone; the *)
(* challenger verifies it through a resolver that may answer from a cache; *)
(* the claimant revokes it.  Every challenge of a zone shares one TXT      *)
(* owner, which place replaces and revoke deletes as a whole.              *)
(***************************************************************************)
EXTENDS Integers, FiniteSets

CONSTANTS
  Challenges,  \* the challenges issued for the zone; each has its own token
  Scopes,      \* the binding scopes (svc:agent@issuer) a caller may name
  Spans,       \* the expiry_seconds a claimant may choose
  CacheTTL,    \* how long the resolver in between may keep an answer
  MaxRecords,  \* MAX_CHALLENGE_RECORDS
  ByHand,      \* the record sets somebody may leave at the owner by hand
  MaxClock,    \* bound: the clock stops there
  MaxPlaced,   \* bound: writes of the owner
  NoScope      \* no binding scope, or the field is missing

ASSUME ChallengeAssumption ==
  /\ CacheTTL \in Nat
  /\ MaxRecords \in Nat \ {0}
  /\ Spans \subseteq Nat
  /\ IsFiniteSet(Challenges)
  /\ MaxClock \in Nat /\ MaxPlaced \in Nat \ {0}

VARIABLES
  now,      \* the clock
  owner,    \* the TXT records at _agents-challenge of the zone
  cached,   \* what the resolver remembers of the owner
  issued,   \* the challenges whose token is known to somebody
  revoking, \* the revocations between their check and their deletion
  report,   \* the verdict of the step just taken, if it gave one
  writes,   \* how often the owner was written
  last,     \* (ghost) per challenge, the placement that nothing has excused losing
  recent    \* (ghost) when the owner last held what it held within CacheTTL

chVars == <<now, owner, cached, issued, revoking, report, writes, last, recent>>

Nothing == [records |-> {}, until |-> -1, version |-> 0]
Undecided == [of |-> NoScope, verdict |-> "none", scope |-> NoScope, version |-> 0]
NeverPlaced == [version |-> 0, record |-> [token |-> NoScope, domain |-> "ours",
                                           scope |-> NoScope, expiry |-> 0]]

Record(t, d, s, e) == [token |-> t, domain |-> d, scope |-> s, expiry |-> e]

\* What is read of an expiry that is not a time to compare: the field is
\* missing or malformed; it has no UTC offset; the text is not UTF-8 or its
\* token not ASCII, and nothing is read of the record.
Malformed == -1
Naive == -2
Unreadable == -3

Records == [token : Challenges, domain : {"ours", "missing", "other", "unreadable"},
            scope : Scopes \cup {NoScope},
            expiry : Nat \cup {Malformed, Naive, Unreadable}]

ASSUME ByHandAreRecords == ByHand \subseteq SUBSET Records

(***************************************************************************)
(* verify: the checks on one record, then the verdict over an answer. What *)
(* decoding, comparing times and compare_digest raise is not caught, and a *)
(* TypeError or UnicodeDecodeError leaves verify in place of a verdict,    *)
(* unless an earlier record of the answer is accepted first.               *)
(***************************************************************************)

Named(records, t) == {r \in records : r.token = t /\ r.expiry >= 0}

Raises(r, t) ==
  \/ r.expiry = Unreadable
  \/ r.token = t /\ r.expiry = Naive
  \/ r.token = t /\ now <= r.expiry /\ r.domain = "unreadable"

Bound(r, scope) ==
  /\ r.domain \notin {"other", "unreadable"}
  /\ scope # NoScope => r.scope = scope

Passes_AnyTime(r, scope) == Bound(r, scope)
Passes(r, scope) == now <= r.expiry /\ Bound(r, scope)

\* The verdicts that the orders of the records in the answer can lead to.
Verdicts(records, t, scope) ==
  LET accepted == \E r \in Named(records, t) : Passes(r, scope) IN
  IF Cardinality(records) > MaxRecords THEN {"too many"}
  ELSE IF \E r \in records : Raises(r, t)
       THEN {"raised"} \cup IF accepted THEN {"verified"} ELSE {}
  ELSE IF accepted THEN {"verified"}
  ELSE IF \E r \in Named(records, t) : now > r.expiry THEN {"expired"}
  ELSE {"not found"}

\* The answer a query gets: what the resolver remembers, or the owner itself.
StillCached == now <= cached.until
Answer == IF StillCached THEN cached
          ELSE [records |-> owner, until |-> now + CacheTTL, version |-> writes]

-----------------------------------------------------------------------------
chInit ==
  /\ now = 0
  /\ owner \in ByHand
  /\ cached = Nothing
  /\ issued = {}
  /\ revoking = [c \in Challenges |-> 0]
  /\ report = Undecided
  /\ writes = 1
  /\ last = [c \in Challenges |-> NeverPlaced]
  /\ recent = [r \in owner |-> 0]

Written(records) ==
  /\ owner' = records
  /\ writes' = writes + 1
  /\ recent' = [r \in DOMAIN recent \cup records |->
                  IF r \in owner \cup records THEN now ELSE recent[r]]

(* issue: a fresh token; nothing is written. *)
Issue(c) ==
  /\ c \notin issued
  /\ issued' = issued \cup {c}
  /\ UNCHANGED <<now, owner, cached, revoking, writes, last, recent>>
  /\ report' = Undecided

(* place: one TXT value replaces whatever the owner held. *)
Placed(records, r) == {r}

Place(c, scope, span) ==
  LET r == Record(c, "ours", scope, now + span) IN
  /\ c \in issued
  /\ writes < MaxPlaced
  /\ Written(Placed(owner, r))
  /\ last' = [d \in Challenges |->
                IF d = c THEN [version |-> writes + 1, record |-> r] ELSE NeverPlaced]
  /\ UNCHANGED <<now, cached, issued, revoking>>
  /\ report' = Undecided

Judged(c, scope, answer) ==
  \E verdict \in Verdicts(answer.records, c, scope) :
    report' = [of |-> c, verdict |-> verdict, scope |-> scope, version |-> answer.version]

(* verify through the resolver; a demanded but missing AD flag, a time-out *)
(* or any other DNS error is a refusal, reported as no answer.             *)
Verify(c, scope) ==
  /\ c \in issued
  /\ Judged(c, scope, Answer)
  /\ cached' = Answer
  /\ UNCHANGED <<now, owner, issued, revoking, writes, last, recent>>

VerifyFails(c, scope) ==
  /\ c \in issued
  /\ report' = [Undecided EXCEPT !.of = c, !.verdict = "no answer"]
  /\ UNCHANGED <<now, owner, cached, issued, revoking, writes, last, recent>>

(* verify with nameserver=: the zone itself is asked. *)
VerifyDirect(c, scope) ==
  /\ c \in issued
  /\ Judged(c, scope, [records |-> owner, version |-> writes])
  /\ UNCHANGED <<now, owner, cached, issued, revoking, writes, last, recent>>

(* revoke: verify without a scope, then delete the whole owner. *)
MayRevoke_Unchecked(answer, c) == TRUE
MayRevoke(answer, c) == "verified" \in Verdicts(answer.records, c, NoScope)

RevokeCheck(c) ==
  /\ c \in issued
  /\ revoking[c] = 0
  /\ MayRevoke(Answer, c)
  /\ revoking' = [revoking EXCEPT ![c] = Answer.version]
  /\ cached' = Answer
  /\ UNCHANGED <<now, owner, issued, writes, last, recent>>
  /\ report' = Undecided

RevokeRefused(c) ==
  /\ c \in issued
  /\ revoking[c] = 0
  /\ Verdicts(Answer.records, c, NoScope) # {"verified"}
  /\ cached' = Answer
  /\ UNCHANGED <<now, owner, issued, revoking, writes, last, recent>>
  /\ report' = Undecided

\* The challenges a deletion takes although their revoker could not have known.
Overlapped(c) == {d \in Challenges \ {c} : last[d].version > revoking[c]}

RevokeDelete(c) ==
  /\ revoking[c] # 0
  /\ writes < MaxPlaced + Cardinality(Challenges)
  /\ Written({})
  /\ revoking' = [revoking EXCEPT ![c] = 0]
  /\ last' = [d \in Challenges |->
                IF d = c \/ d \in Overlapped(c) THEN NeverPlaced ELSE last[d]]
  /\ UNCHANGED <<now, cached, issued>>
  /\ report' = Undecided

RevokeFails(c) ==
  /\ revoking[c] # 0
  /\ revoking' = [revoking EXCEPT ![c] = 0]
  /\ UNCHANGED <<now, owner, cached, issued, writes, last, recent>>
  /\ report' = Undecided

Tick ==
  /\ now < MaxClock
  /\ now' = now + 1
  /\ recent' = [r \in {q \in DOMAIN recent : q \in owner \/ recent[q] + CacheTTL > now} |->
                  IF r \in owner THEN now + 1 ELSE recent[r]]
  /\ UNCHANGED <<owner, cached, issued, revoking, writes, last>>
  /\ report' = Undecided

chNext ==
  \/ Tick
  \/ \E c \in Challenges :
       \/ Issue(c)
       \/ \E scope \in Scopes \cup {NoScope} :
            \/ \E span \in Spans : Place(c, scope, span)
            \/ Verify(c, scope)
            \/ VerifyFails(c, scope)
            \/ VerifyDirect(c, scope)
       \/ RevokeCheck(c)
       \/ RevokeRefused(c)
       \/ RevokeDelete(c)
       \/ RevokeFails(c)

chSpec == chInit /\ [][chNext]_chVars

-----------------------------------------------------------------------------
chTypeOK ==
  /\ now \in 0 .. MaxClock
  /\ owner \subseteq Records
  /\ cached \in [records : SUBSET Records, until : -1 .. MaxClock + CacheTTL,
                 version : 0 .. MaxPlaced + Cardinality(Challenges)]
  /\ issued \subseteq Challenges
  /\ revoking \in [Challenges -> 0 .. MaxPlaced + Cardinality(Challenges)]
  /\ writes \in 1 .. MaxPlaced + Cardinality(Challenges)

(* A challenge that verify (dcv.py:282) accepts was in the zone within the *)
(* life of a cached answer, for this zone or with no zone named, in the    *)
(* scope asked for, and has not expired.                                   *)
VerifiedWasPlaced ==
  report.verdict = "verified" =>
    \E r \in DOMAIN recent :
      /\ r.token = report.of
      /\ r.domain # "other"
      /\ report.scope # NoScope => r.scope = report.scope
      /\ now <= r.expiry

(* The other direction: a challenge placed last and not expired is in the  *)
(* zone, and every verification whose answer is not older than its         *)
(* placement accepts it.  The revocation (dcv.py:538) of another challenge *)
(* may take it away only if that one was verified against an answer from   *)
(* before the placement.                                                   *)
PlacedIsVerified ==
  \A c \in Challenges :
    LET p == last[c] IN
    p.version # 0 =>
      /\ p.record \in owner
      /\ (/\ report.of = c
          /\ report.verdict # "no answer"
          /\ report.version >= p.version
          /\ now <= p.record.expiry
          /\ report.scope \in {NoScope, p.record.scope})
           => report.verdict = "verified"
=============================================================================
