--------------------------- MODULE Services_proofs ---------------------------
(***************************************************************************)
(* Proofs about the services that look before they write.                  *)
(* Domain control validation: what verify accepts was placed               *)
(* (AcceptedWasPlaced), and what was placed is accepted until its claimant *)
(* is replaced or an uninformed revocation takes it (PlacedIsAccepted).    *)
(* The catalog pointer: no unforced publication takes a host off the index *)
(* label that its look could have seen (IndexIsOverwrittenKnowingly).      *)
(* Policy enforcement: bindings survive whole writes (BindingsAreKept),    *)
(* and what is reported is in force (WhatIsReportedHolds).  The limiter:   *)
(* what got through was within the limits (LimitsHold).  All of them       *)
(* beside each other: ForeignWorkIsKept, ServicesTypes, ServicesHold.      *)
(***************************************************************************)
EXTENDS MCServices, Selection_proofs

-----------------------------------------------------------------------------
(* Accepted records were there: time and the memory of the resolver.       *)

(* recent knows when each record the owner lately held was last there.     *)
RecentIsDated ==
  /\ now \in Nat
  /\ \A r \in owner : r \in DOMAIN recent /\ recent[r] = now
  /\ \A r \in DOMAIN recent : recent[r] \in Nat /\ recent[r] <= now

(* What the resolver still hands out was in the owner at most CacheTTL     *)
(* before it forgets it.                                                   *)
MemoryIsRecent ==
  /\ cached.until \in Int
  /\ now <= cached.until =>
       \A r \in cached.records :
         r \in DOMAIN recent /\ recent[r] + CacheTTL >= cached.until

SeenInv == RecentIsDated /\ MemoryIsRecent /\ VerifiedWasPlaced

(* Every record of an answer is one the owner held within CacheTTL.        *)
LEMMA AnswersAreRecent ==
    ASSUME RecentIsDated, MemoryIsRecent
    PROVE  \A r \in Answer.records : r \in DOMAIN recent
  BY DEF RecentIsDated, MemoryIsRecent, Answer, StillCached

(* Remembering an answer keeps the memory recent.                          *)
LEMMA RememberedIsRecent ==
    ASSUME ChallengeAssumption, RecentIsDated, MemoryIsRecent,
           cached' = Answer, UNCHANGED <<now, owner, recent>>
    PROVE  RecentIsDated' /\ MemoryIsRecent'
  <1>1. RecentIsDated'
    BY DEF RecentIsDated
  <1>2. CASE StillCached
    <2>1. cached' = cached
      BY <1>2 DEF Answer
    <2> QED
      BY <1>1, <2>1 DEF MemoryIsRecent
  <1>3. CASE ~ StillCached
    <2>1. cached'.records = owner /\ cached'.until = now + CacheTTL
      BY <1>3 DEF Answer
    <2>2. \A r \in owner : r \in DOMAIN recent /\ recent[r] + CacheTTL >= now + CacheTTL
      BY DEF RecentIsDated, ChallengeAssumption
    <2> QED
      BY <1>1, <2>1, <2>2 DEF MemoryIsRecent, RecentIsDated, ChallengeAssumption
  <1> QED
    BY <1>2, <1>3

(* So does a write of the owner.                                           *)
LEMMA WrittenIsRecent ==
    ASSUME ChallengeAssumption, RecentIsDated, MemoryIsRecent,
           NEW records, Written(records), UNCHANGED <<now, cached>>
    PROVE  RecentIsDated' /\ MemoryIsRecent'
  <1> DEFINE new == [r \in DOMAIN recent \cup records |->
                       IF r \in owner \cup records THEN now ELSE recent[r]]
  <1>1. owner' = records /\ recent' = new /\ now' = now /\ cached' = cached
    BY DEF Written
  <1>2. DOMAIN new = DOMAIN recent \cup records
    OBVIOUS
  <1>3. \A r \in DOMAIN new : new[r] \in Nat /\ new[r] <= now /\ (r \in records => new[r] = now)
    BY DEF RecentIsDated
  <1>4. \A r \in DOMAIN recent : new[r] >= recent[r]
    BY DEF RecentIsDated
  <1>5. RecentIsDated'
    BY <1>1, <1>2, <1>3 DEF RecentIsDated
  <1>6. ASSUME now <= cached.until, NEW r \in cached.records
        PROVE  r \in DOMAIN new /\ new[r] + CacheTTL >= cached.until
    <2>1. r \in DOMAIN recent /\ recent[r] + CacheTTL >= cached.until
      BY <1>6 DEF MemoryIsRecent
    <2>2. new[r] \in Nat /\ recent[r] \in Nat /\ new[r] >= recent[r] /\ r \in DOMAIN new
      BY <1>2, <1>3, <1>4, <2>1 DEF RecentIsDated
    <2> QED
      BY <2>1, <2>2 DEF MemoryIsRecent, ChallengeAssumption
  <1> QED
    BY <1>1, <1>5, <1>6 DEF MemoryIsRecent

(* A verdict over an answer accepts a record of that answer.               *)
LEMMA AcceptedIsAnswered ==
    ASSUME NEW records, NEW t, NEW scope, "verified" \in Verdicts(records, t, scope)
    PROVE  \E r \in records : /\ r.token = t /\ r.domain # "other"
                              /\ scope # NoScope => r.scope = scope
                              /\ now <= r.expiry
  <1>1. \E r \in Named(records, t) : Passes(r, scope)
    BY DEF Verdicts
  <1> QED
    BY <1>1 DEF Named, Passes, Bound

(* A judgement over recent records satisfies VerifiedWasPlaced.            *)
LEMMA JudgedWasPlaced ==
    ASSUME NEW c, NEW scope, NEW heard, Judged(c, scope, heard),
           \A r \in heard.records : r \in DOMAIN recent,
           UNCHANGED <<now, recent>>
    PROVE  VerifiedWasPlaced'
  <1>1. /\ report'.verdict \in Verdicts(heard.records, c, scope)
        /\ report'.of = c /\ report'.scope = scope
    BY DEF Judged
  <1>2. now' = now /\ recent' = recent
    OBVIOUS
  <1>3. ASSUME "verified" \in Verdicts(heard.records, c, scope)
        PROVE  \E r \in DOMAIN recent : /\ r.token = c /\ r.domain # "other"
                                        /\ scope # NoScope => r.scope = scope
                                        /\ now <= r.expiry
    BY <1>3, AcceptedIsAnswered
  <1> QED
    BY <1>1, <1>2, <1>3 DEF VerifiedWasPlaced

LEMMA SilenceIsSafe == ASSUME report' = Undecided PROVE VerifiedWasPlaced'
  BY DEF Undecided, VerifiedWasPlaced

LEMMA SeenInit == ASSUME chInit PROVE SeenInv
  BY DEF chInit, SeenInv, RecentIsDated, MemoryIsRecent, VerifiedWasPlaced, Nothing, Undecided

LEMMA SeenNext == ASSUME ChallengeAssumption, SeenInv, [chNext]_chVars PROVE SeenInv'
  <1>0. RecentIsDated /\ MemoryIsRecent /\ VerifiedWasPlaced
    BY DEF SeenInv
  <1>K. UNCHANGED <<now, owner, cached, recent>> => RecentIsDated' /\ MemoryIsRecent'
    BY <1>0 DEF RecentIsDated, MemoryIsRecent
  <1>1. CASE Tick
    <2> DEFINE kept == {q \in DOMAIN recent : q \in owner \/ recent[q] + CacheTTL > now}
    <2> DEFINE new == [r \in kept |-> IF r \in owner THEN now + 1 ELSE recent[r]]
    <2>1. now' = now + 1 /\ owner' = owner /\ cached' = cached /\ recent' = new
      BY <1>1 DEF Tick
    <2>2. \A r \in kept : /\ new[r] \in Nat /\ new[r] <= now + 1 /\ new[r] >= recent[r]
                          /\ r \in owner => new[r] = now + 1
      BY <1>0 DEF RecentIsDated
    <2>3. RecentIsDated'
      BY <1>0, <2>1, <2>2 DEF RecentIsDated
    <2>4. ASSUME now + 1 <= cached.until, NEW r \in cached.records
          PROVE  r \in kept /\ new[r] + CacheTTL >= cached.until
      <3>1. r \in DOMAIN recent /\ recent[r] + CacheTTL >= cached.until /\ recent[r] \in Nat
        BY <1>0, <2>4 DEF MemoryIsRecent, RecentIsDated
      <3>2. r \in kept
        BY <1>0, <2>4, <3>1 DEF MemoryIsRecent, RecentIsDated, ChallengeAssumption
      <3> QED
        BY <1>0, <2>2, <3>1, <3>2 DEF MemoryIsRecent, RecentIsDated, ChallengeAssumption
    <2>5. MemoryIsRecent'
      <3> HIDE DEF new, kept
      <3>1. DOMAIN new = kept
        BY DEF new
      <3> QED
        BY <1>0, <2>1, <2>4, <3>1 DEF MemoryIsRecent
    <2> QED
      BY <1>1, <2>3, <2>5, SilenceIsSafe DEF Tick, SeenInv
  <1>2. ASSUME NEW c \in Challenges, Issue(c) PROVE SeenInv'
    BY <1>2, <1>K, SilenceIsSafe DEF Issue, SeenInv
  <1>3. ASSUME NEW c \in Challenges, NEW scope \in Scopes \cup {NoScope}, NEW span \in Spans,
               Place(c, scope, span)
        PROVE  SeenInv'
    <2>1. PICK records : Written(records)
      BY <1>3 DEF Place
    <2> QED
      BY <1>0, <1>3, <2>1, WrittenIsRecent, SilenceIsSafe DEF Place, SeenInv
  <1>4. ASSUME NEW c \in Challenges, NEW scope \in Scopes \cup {NoScope}, Verify(c, scope)
        PROVE  SeenInv'
    BY <1>0, <1>4, AnswersAreRecent, RememberedIsRecent, JudgedWasPlaced DEF Verify, SeenInv
  <1>5. ASSUME NEW c \in Challenges, NEW scope \in Scopes \cup {NoScope}, VerifyFails(c, scope)
        PROVE  SeenInv'
    <2>1. report'.verdict = "no answer"
      BY <1>5 DEF VerifyFails, Undecided
    <2> QED
      BY <1>5, <1>K, <2>1 DEF VerifyFails, SeenInv, VerifiedWasPlaced
  <1>6. ASSUME NEW c \in Challenges, NEW scope \in Scopes \cup {NoScope}, VerifyDirect(c, scope)
        PROVE  SeenInv'
    <2> DEFINE direct == [records |-> owner, version |-> writes]
    <2>1. \A r \in direct.records : r \in DOMAIN recent
      BY <1>0 DEF RecentIsDated
    <2>2. Judged(c, scope, direct) /\ UNCHANGED <<now, recent>>
      BY <1>6 DEF VerifyDirect
    <2>3. VerifiedWasPlaced'
      <3> HIDE DEF direct
      <3> QED
        BY <2>1, <2>2, JudgedWasPlaced
    <2> QED
      BY <1>6, <1>K, <2>3 DEF VerifyDirect, SeenInv
  <1>7. ASSUME NEW c \in Challenges, RevokeCheck(c) \/ RevokeRefused(c) PROVE SeenInv'
    BY <1>0, <1>7, RememberedIsRecent, SilenceIsSafe DEF RevokeCheck, RevokeRefused, SeenInv
  <1>8. ASSUME NEW c \in Challenges, RevokeDelete(c) PROVE SeenInv'
    BY <1>0, <1>8, WrittenIsRecent, SilenceIsSafe DEF RevokeDelete, SeenInv
  <1>9. ASSUME NEW c \in Challenges, RevokeFails(c) PROVE SeenInv'
    BY <1>9, <1>K, SilenceIsSafe DEF RevokeFails, SeenInv
  <1>10. CASE UNCHANGED chVars
    BY <1>0, <1>10, <1>K DEF chVars, SeenInv, VerifiedWasPlaced
  <1> QED
    BY <1>1, <1>2, <1>3, <1>4, <1>5, <1>6, <1>7, <1>8, <1>9, <1>10 DEF chNext

(* verify (core/dcv.py:282) accepts only what the zone held within the     *)
(* life of a cached answer: for every number of challenges, scopes, spans  *)
(* and every life of an answer.                                            *)
THEOREM AcceptedWasPlaced ==
    ASSUME ChallengeAssumption PROVE chSpec => []VerifiedWasPlaced
  <1>1. SeenInv => VerifiedWasPlaced
    BY DEF SeenInv
  <1> QED
    BY <1>1, SeenInit, SeenNext, PTL DEF chSpec

-----------------------------------------------------------------------------
(* What was placed is accepted: versions of the owner.                     *)

(* Nobody knows a version of the owner that is not written yet.            *)
VersionsArePast ==
  /\ now \in Nat /\ writes \in Nat
  /\ cached.version \in Nat /\ cached.version <= writes
  /\ DOMAIN revoking = Challenges
  /\ \A c \in Challenges : /\ revoking[c] \in Nat /\ revoking[c] <= writes
                           /\ last[c].version \in Nat /\ last[c].version <= writes

(* A placement that nothing has excused losing is the only record of the   *)
(* owner and of every answer since, and only its own claimant is about to  *)
(* revoke on such an answer.                                               *)
PlacementsHold ==
  \A d \in Challenges :
    last[d].version # 0 =>
      /\ owner = {last[d].record}
      /\ last[d].record.token = d
      /\ last[d].record.domain = "ours"
      /\ last[d].record.expiry \in Nat
      /\ cached.version >= last[d].version => cached.records = {last[d].record}
      /\ \A c \in Challenges : revoking[c] >= last[d].version => c = d

(* The second half of PlacedIsVerified: what the verdict just given says.  *)
VerdictIsFair ==
  \A c \in Challenges :
    (/\ last[c].version # 0
     /\ report.of = c
     /\ report.verdict # "no answer"
     /\ report.version >= last[c].version
     /\ now <= last[c].record.expiry
     /\ report.scope \in {NoScope, last[c].record.scope})
      => report.verdict = "verified"

PlacedInv == VersionsArePast /\ PlacementsHold /\ VerdictIsFair

LEMMA UndecidedIsFair ==
    ASSUME report' = Undecided,
           \A c \in Challenges : last'[c].version \in Nat
    PROVE  VerdictIsFair'
  BY DEF Undecided, VerdictIsFair

(* An answer from a placement or later is that placement.                  *)
LEMMA AnswersArePlacements ==
    ASSUME VersionsArePast, PlacementsHold
    PROVE  /\ Answer.version \in Nat /\ Answer.version <= writes
           /\ \A d \in Challenges :
                (last[d].version # 0 /\ Answer.version >= last[d].version)
                  => Answer.records = {last[d].record}
  BY DEF VersionsArePast, PlacementsHold, Answer

(* The verdict on a placement that has not expired, in its scope.          *)
LEMMA PlacementPasses ==
    ASSUME ChallengeAssumption, NEW c, NEW r, NEW scope \in {NoScope, r.scope},
           r.token = c, r.domain = "ours", r.expiry \in Nat, now \in Nat, now <= r.expiry
    PROVE  Verdicts({r}, c, scope) = {"verified"}
  <1>1. Cardinality({r}) = 1
    BY FS_Singleton
  <1>2. ~ (Cardinality({r}) > MaxRecords)
    BY <1>1 DEF ChallengeAssumption
  <1>3. r \in Named({r}, c) /\ Passes(r, scope)
    BY DEF Named, Passes, Bound
  <1>4. ~ Raises(r, c)
    BY DEF Raises, Unreadable, Naive
  <1> QED
    BY <1>2, <1>3, <1>4 DEF Verdicts

LEMMA JudgedIsFair ==
    ASSUME ChallengeAssumption, VersionsArePast, PlacementsHold,
           NEW c \in Challenges, NEW scope, NEW heard, Judged(c, scope, heard),
           \A d \in Challenges : (last[d].version # 0 /\ heard.version >= last[d].version)
                                   => heard.records = {last[d].record},
           UNCHANGED <<now, last>>
    PROVE  VerdictIsFair'
  <1>1. /\ report'.verdict \in Verdicts(heard.records, c, scope) /\ report'.of = c
        /\ report'.scope = scope /\ report'.version = heard.version
    BY DEF Judged
  <1>2. ASSUME last[c].version # 0, heard.version >= last[c].version,
               now <= last[c].record.expiry, scope \in {NoScope, last[c].record.scope}
        PROVE  Verdicts(heard.records, c, scope) = {"verified"}
    <2>1. /\ last[c].record.token = c /\ last[c].record.domain = "ours"
          /\ last[c].record.expiry \in Nat /\ now \in Nat
      BY <1>2 DEF PlacementsHold, VersionsArePast
    <2>2. heard.records = {last[c].record}
      BY <1>2
    <2>3. Verdicts({last[c].record}, c, scope) = {"verified"}
      <3> DEFINE r == last[c].record
      <3>1. /\ r.token = c /\ r.domain = "ours" /\ r.expiry \in Nat /\ now \in Nat
            /\ now <= r.expiry /\ scope \in {NoScope, r.scope}
        BY <1>2, <2>1
      <3> HIDE DEF r
      <3>2. Verdicts({r}, c, scope) = {"verified"}
        BY <3>1, PlacementPasses
      <3> QED
        BY <3>2 DEF r
    <2> QED
      BY <2>2, <2>3
  <1> QED
    BY <1>1, <1>2 DEF VerdictIsFair

LEMMA PlacedInit == ASSUME chInit PROVE PlacedInv
  BY DEF chInit, PlacedInv, VersionsArePast, PlacementsHold, VerdictIsFair, Nothing,
         NeverPlaced, Undecided

LEMMA PlaceHolds ==
    ASSUME ChallengeAssumption, PlacedInv, NEW c \in Challenges, NEW scope, NEW span \in Spans,
           Place(c, scope, span)
    PROVE  PlacedInv'
  <1> DEFINE r == Record(c, "ours", scope, now + span)
  <1>0. VersionsArePast /\ PlacementsHold
    BY DEF PlacedInv
  <1>1. /\ owner' = {r} /\ writes' = writes + 1
        /\ UNCHANGED <<now, cached, revoking>> /\ report' = Undecided
        /\ last' = [d \in Challenges |->
                      IF d = c THEN [version |-> writes + 1, record |-> r] ELSE NeverPlaced]
    BY DEF Place, Written, Placed
  <1>n. now + span \in Nat
    <2>1. now \in Nat /\ span \in Nat
      BY <1>0, ChallengeAssumption DEF VersionsArePast
    <2>2. QED
      BY <2>1
  <1>2. r.token = c /\ r.domain = "ours" /\ r.expiry \in Nat
    BY <1>n DEF Record
  <1>3. \A d \in Challenges : IF d = c THEN last'[d].version = writes + 1 /\ last'[d].record = r
                                       ELSE last'[d].version = 0
    BY <1>1 DEF NeverPlaced
  <1> HIDE DEF r
  <1>4. VersionsArePast'
    BY <1>0, <1>1, <1>3 DEF VersionsArePast
  <1>5. PlacementsHold'
    BY <1>0, <1>1, <1>2, <1>3 DEF VersionsArePast, PlacementsHold
  <1>6. VerdictIsFair'
    BY <1>1, <1>4, UndecidedIsFair DEF VersionsArePast
  <1> QED
    BY <1>4, <1>5, <1>6 DEF PlacedInv

LEMMA RevocationHolds ==
    ASSUME ChallengeAssumption, PlacedInv, NEW c \in Challenges, RevokeDelete(c)
    PROVE  PlacedInv'
  <1>0. VersionsArePast /\ PlacementsHold
    BY DEF PlacedInv
  <1>1. /\ owner' = {} /\ writes' = writes + 1 /\ revoking[c] # 0
        /\ revoking' = [revoking EXCEPT ![c] = 0]
        /\ last' = [d \in Challenges |->
                      IF d = c \/ d \in Overlapped(c) THEN NeverPlaced ELSE last[d]]
        /\ UNCHANGED <<now, cached>> /\ report' = Undecided
    BY DEF RevokeDelete, Written
  <1>2. \A d \in Challenges : last'[d].version = 0
    <2>1. SUFFICES ASSUME NEW d \in Challenges, d # c, ~ (last[d].version > revoking[c])
                   PROVE  last[d].version = 0
      BY <1>1 DEF Overlapped, NeverPlaced
    <2> QED
      BY <1>0, <2>1 DEF VersionsArePast, PlacementsHold
  <1>3. VersionsArePast'
    BY <1>0, <1>1, <1>2 DEF VersionsArePast
  <1> QED
    BY <1>1, <1>2, <1>3, UndecidedIsFair DEF PlacedInv, VersionsArePast, PlacementsHold

LEMMA PlacedNext == ASSUME ChallengeAssumption, PlacedInv, [chNext]_chVars PROVE PlacedInv'
  <1>0. VersionsArePast /\ PlacementsHold /\ VerdictIsFair
    BY DEF PlacedInv
  <1>K. UNCHANGED <<now, owner, cached, revoking, writes, last>>
          => VersionsArePast' /\ PlacementsHold'
    BY <1>0 DEF VersionsArePast, PlacementsHold
  <1>A. UNCHANGED <<now, owner, revoking, writes, last>> /\ cached' = Answer
          => VersionsArePast' /\ PlacementsHold'
    BY <1>0, AnswersArePlacements DEF VersionsArePast, PlacementsHold
  <1>U. VersionsArePast' /\ report' = Undecided => VerdictIsFair'
    BY UndecidedIsFair DEF VersionsArePast
  <1>1. CASE Tick
    <2>1. VersionsArePast' /\ PlacementsHold'
      BY <1>0, <1>1 DEF Tick, VersionsArePast, PlacementsHold
    <2> QED
      BY <1>1, <1>U, <2>1 DEF Tick, PlacedInv
  <1>2. ASSUME NEW c \in Challenges, Issue(c) \/ RevokeRefused(c) PROVE PlacedInv'
    BY <1>2, <1>K, <1>A, <1>U DEF Issue, RevokeRefused, PlacedInv
  <1>3. ASSUME NEW c \in Challenges, NEW scope \in Scopes \cup {NoScope}, NEW span \in Spans,
               Place(c, scope, span)
        PROVE  PlacedInv'
    BY <1>3, PlaceHolds
  <1>4. ASSUME NEW c \in Challenges, NEW scope \in Scopes \cup {NoScope}, Verify(c, scope)
        PROVE  PlacedInv'
    <2>1. VerdictIsFair'
      BY <1>0, <1>4, AnswersArePlacements, JudgedIsFair DEF Verify
    <2> QED
      BY <1>4, <1>A, <2>1 DEF Verify, PlacedInv
  <1>5. ASSUME NEW c \in Challenges, NEW scope \in Scopes \cup {NoScope}, VerifyFails(c, scope)
        PROVE  PlacedInv'
    <2>1. report'.verdict = "no answer"
      BY <1>5 DEF VerifyFails, Undecided
    <2> QED
      BY <1>5, <1>K, <2>1 DEF VerifyFails, PlacedInv, VerdictIsFair
  <1>6. ASSUME NEW c \in Challenges, NEW scope \in Scopes \cup {NoScope}, VerifyDirect(c, scope)
        PROVE  PlacedInv'
    <2> DEFINE direct == [records |-> owner, version |-> writes]
    <2>1. \A d \in Challenges : (last[d].version # 0 /\ direct.version >= last[d].version)
                                  => direct.records = {last[d].record}
      BY <1>0 DEF PlacementsHold
    <2>2. Judged(c, scope, direct) /\ UNCHANGED <<now, last>>
      BY <1>6 DEF VerifyDirect
    <2>3. VerdictIsFair'
      <3> HIDE DEF direct
      <3> QED
        BY <1>0, <2>1, <2>2, JudgedIsFair
    <2> QED
      BY <1>6, <1>K, <2>3 DEF VerifyDirect, PlacedInv
  <1>7. ASSUME NEW c \in Challenges, RevokeCheck(c) PROVE PlacedInv'
    <2>1. /\ UNCHANGED <<now, owner, writes, last>> /\ cached' = Answer
          /\ revoking' = [revoking EXCEPT ![c] = Answer.version] /\ report' = Undecided
          /\ MayRevoke(Answer, c)
      BY <1>7 DEF RevokeCheck
    <2>2. PICK r \in Answer.records : r.token = c
      BY <2>1, AcceptedIsAnswered DEF MayRevoke
    <2>3. VersionsArePast'
      BY <1>0, <2>1, AnswersArePlacements DEF VersionsArePast
    <2>4. \A d \in Challenges :
            (last[d].version # 0 /\ Answer.version >= last[d].version) => c = d
      BY <1>0, <2>2, AnswersArePlacements DEF PlacementsHold
    <2>5. PlacementsHold'
      BY <1>0, <2>1, <2>4, AnswersArePlacements DEF VersionsArePast, PlacementsHold
    <2> QED
      BY <1>U, <2>1, <2>3, <2>5 DEF PlacedInv
  <1>8. ASSUME NEW c \in Challenges, RevokeDelete(c) PROVE PlacedInv'
    BY <1>8, RevocationHolds
  <1>9. ASSUME NEW c \in Challenges, RevokeFails(c) PROVE PlacedInv'
    <2>1. VersionsArePast' /\ PlacementsHold'
      BY <1>0, <1>9 DEF RevokeFails, VersionsArePast, PlacementsHold
    <2> QED
      BY <1>9, <1>U, <2>1 DEF RevokeFails, PlacedInv
  <1>10. CASE UNCHANGED chVars
    BY <1>0, <1>10, <1>K DEF chVars, PlacedInv, VerdictIsFair
  <1> QED
    BY <1>1, <1>2, <1>3, <1>4, <1>5, <1>6, <1>7, <1>8, <1>9, <1>10 DEF chNext

(* A challenge that nobody could have known is in the zone, or was taken   *)
(* by a revocation checked before it was placed (core/dcv.py:538-596), and *)
(* every verification on a later answer accepts it.                        *)
THEOREM PlacedIsAccepted ==
    ASSUME ChallengeAssumption PROVE chSpec => []PlacedIsVerified
  <1>1. PlacedInv => PlacedIsVerified
    BY DEF PlacedInv, PlacementsHold, VerdictIsFair, PlacedIsVerified
  <1> QED
    BY <1>1, PlacedInit, PlacedNext, PTL DEF chSpec

-----------------------------------------------------------------------------
(* The catalog pointer: editions of the index label.                       *)

IsPlacing(s) ==
  /\ DOMAIN s = {"at", "host", "mixed", "force", "withdraw", "looked", "edition"}
  /\ s.at \in 0 .. 2 /\ s.edition \in Nat

ArePlacings(f) == DOMAIN f = Publishers /\ \A p \in Publishers : IsPlacing(f[p])

PlacingTypes ==
  /\ edition \in Nat \ {0}
  /\ DOMAIN pointer = {"_catalog", "_index"}
  /\ ArePlacings(placing)
  /\ \A p \in Publishers : placing[p].edition <= edition

(* A publisher that has looked, and whose look is still the last word on   *)
(* the index label, found no other host there.                             *)
LookIsTrue ==
  \A p \in Publishers :
    (placing[p].looked /\ placing[p].edition = edition)
      => pointer["_index"].host \in {NoHost, placing[p].host}

GuardInv == PlacingTypes /\ LookIsTrue /\ IndexIsGuarded

LEMMA TwoLabels ==
    /\ Labels[1] = "_catalog" /\ Labels[2] = "_index" /\ Len(Labels) = 2
    /\ ToSet(Labels) = {"_catalog", "_index"}
  BY DEF Labels, ToSet

(* To go on to the next label, or to rest, is to have looked at nothing.   *)
LEMMA AdvancedHasNotLooked ==
    ASSUME PlacingTypes, NEW p \in Publishers, NEW s, IsPlacing(s), Advance(p, s),
           s.at # 0, s.edition <= edition
    PROVE  /\ ArePlacings(placing')
           /\ placing'[p].looked = FALSE /\ placing'[p].edition <= edition
           /\ \A q \in Publishers \ {p} : placing'[q] = placing[q]
  <1>1. IsPlacing(AtRest) /\ AtRest.looked = FALSE /\ AtRest.edition = 0
    BY DEF AtRest, IsPlacing
  <1>2. CASE s.at = 2
    <2>1. placing' = [placing EXCEPT ![p] = AtRest]
      BY <1>2, TwoLabels DEF Advance
    <2> QED
      BY <1>1, <2>1 DEF PlacingTypes, ArePlacings
  <1>3. CASE s.at # 2
    <2> DEFINE next == [s EXCEPT !.at = @ + 1, !.looked = FALSE]
    <2>1. placing' = [placing EXCEPT ![p] = next]
      BY <1>3, TwoLabels DEF Advance
    <2>2. IsPlacing(next) /\ next.looked = FALSE /\ next.edition = s.edition
      BY <1>3 DEF IsPlacing
    <2> HIDE DEF next
    <2> QED
      BY <2>1, <2>2 DEF PlacingTypes, ArePlacings
  <1> QED
    BY <1>2, <1>3

LEMMA GuardInit == ASSUME cpInit PROVE GuardInv
  <1>1. IsPlacing(AtRest) /\ AtRest.looked = FALSE /\ AtRest.edition = 0
    BY DEF AtRest, IsPlacing
  <1> QED
    BY <1>1, TwoLabels DEF cpInit, GuardInv, PlacingTypes, ArePlacings, LookIsTrue, IndexIsGuarded

LEMMA WriteIsGuarded ==
    ASSUME GuardInv, NEW p \in Publishers, Write(p) PROVE GuardInv'
  <1>0. PlacingTypes /\ LookIsTrue /\ IndexIsGuarded
    BY DEF GuardInv
  <1>L. placing[p].at \in 1 .. 2 /\ LabelOf(p) \in {"_catalog", "_index"}
    BY <1>0, TwoLabels DEF Write, Working, PlacingTypes, ArePlacings, IsPlacing, LabelOf
  <1>1. /\ placing[p].at # 0 /\ Advance(p, placing[p])
        /\ ~ MustLook(p)
        /\ edition' = IF LabelOf(p) = "_index" THEN edition + 1 ELSE edition
        /\ pointer' = [pointer EXCEPT ![LabelOf(p)] = Pointer(placing[p].host, FALSE)]
    BY DEF Write, Working
  <1>2. /\ ArePlacings(placing')
        /\ placing'[p].looked = FALSE /\ placing'[p].edition <= edition
        /\ \A q \in Publishers \ {p} : placing'[q] = placing[q]
    BY <1>0, <1>1, AdvancedHasNotLooked DEF PlacingTypes, ArePlacings
  <1>3. CASE LabelOf(p) = "_index"
    <2>1. placing[p].force \/ placing[p].looked
      BY <1>1, <1>3 DEF MustLook
    <2>2. replaced' = NoHost
      BY <1>0, <1>3, <2>1 DEF Write, LookIsTrue, IndexIsGuarded
    <2>3. edition' = edition + 1
      BY <1>1, <1>3
    <2>4. \A q \in Publishers : placing'[q].edition # edition'
      BY <1>0, <1>2, <2>3 DEF PlacingTypes, ArePlacings, IsPlacing
    <2>5. PlacingTypes'
      BY <1>0, <1>1, <1>2, <2>3 DEF PlacingTypes, ArePlacings, IsPlacing
    <2> QED
      BY <2>2, <2>4, <2>5 DEF GuardInv, LookIsTrue, IndexIsGuarded
  <1>4. CASE LabelOf(p) # "_index"
    <2>1. /\ pointer'["_index"] = pointer["_index"] /\ DOMAIN pointer' = DOMAIN pointer
          /\ edition' = edition
      BY <1>0, <1>1, <1>4 DEF PlacingTypes, ArePlacings
    <2>2. replaced' = replaced
      BY <1>4 DEF Write
    <2>3. PlacingTypes' /\ LookIsTrue'
      BY <1>0, <1>2, <2>1 DEF PlacingTypes, ArePlacings, LookIsTrue
    <2> QED
      BY <1>0, <2>2, <2>3 DEF GuardInv, IndexIsGuarded
  <1> QED
    BY <1>3, <1>4

LEMMA WithdrawalIsGuarded ==
    ASSUME GuardInv, NEW p \in Publishers, Withdraw(p) PROVE GuardInv'
  <1>0. PlacingTypes /\ LookIsTrue /\ IndexIsGuarded
    BY DEF GuardInv
  <1>1. placing[p].at # 0 /\ Advance(p, placing[p]) /\ replaced' = replaced
    BY DEF Withdraw
  <1>L. DOMAIN pointer' = DOMAIN pointer
    BY DEF Withdraw
  <1>2. /\ ArePlacings(placing')
        /\ placing'[p].looked = FALSE /\ placing'[p].edition <= edition
        /\ \A q \in Publishers \ {p} : placing'[q] = placing[q]
    BY <1>0, <1>1, AdvancedHasNotLooked DEF PlacingTypes, ArePlacings
  <1>3. CASE edition' = edition /\ pointer'["_index"] = pointer["_index"]
    BY <1>0, <1>1, <1>2, <1>3, <1>L DEF GuardInv, PlacingTypes, ArePlacings, LookIsTrue, IndexIsGuarded
  <1>4. CASE edition' = edition + 1
    <2>1. \A q \in Publishers : placing'[q].edition # edition'
      BY <1>0, <1>2, <1>4 DEF PlacingTypes, ArePlacings, IsPlacing
    <2>2. PlacingTypes'
      BY <1>0, <1>2, <1>4, <1>L DEF PlacingTypes, ArePlacings, IsPlacing
    <2> QED
      BY <1>0, <1>1, <2>1, <2>2 DEF GuardInv, PlacingTypes, ArePlacings, LookIsTrue, IndexIsGuarded
  <1>5. \/ edition' = edition /\ pointer'["_index"] = pointer["_index"]
        \/ edition' = edition + 1
    <2>1. CASE LabelOf(p) = "_index"
      BY <2>1 DEF Withdraw
    <2>2. CASE LabelOf(p) # "_index"
      BY <1>0, <2>2 DEF Withdraw, PlacingTypes, ArePlacings
    <2> QED
      BY <2>1, <2>2
  <1> QED
    BY <1>3, <1>4, <1>5

LEMMA GuardNext == ASSUME GuardInv, [cpNext]_cpVars PROVE GuardInv'
  <1>0. PlacingTypes /\ LookIsTrue /\ IndexIsGuarded
    BY DEF GuardInv
  <1>R. ASSUME NEW p \in Publishers, NEW state, placing' = [placing EXCEPT ![p] = state],
               IsPlacing(state), state.looked = FALSE, state.edition = 0,
               UNCHANGED <<pointer, edition, replaced>>
        PROVE  GuardInv'
    BY <1>0, <1>R DEF GuardInv, PlacingTypes, ArePlacings, LookIsTrue, IndexIsGuarded
  <1>1. ASSUME NEW p \in Publishers, NEW host \in Hosts, NEW two \in BOOLEAN,
               NEW force \in BOOLEAN, BeginPublish(p, host, two, force)
        PROVE  GuardInv'
    <2> DEFINE state == [AtRest EXCEPT !.at = 1, !.host = host, !.mixed = two, !.force = force]
    <2>1. IsPlacing(state) /\ state.looked = FALSE /\ state.edition = 0
      BY DEF AtRest, IsPlacing
    <2>2. placing' = [placing EXCEPT ![p] = state] /\ UNCHANGED <<pointer, edition, replaced>>
      BY <1>1 DEF BeginPublish
    <2> HIDE DEF state
    <2> QED
      BY <1>R, <2>1, <2>2
  <1>2. ASSUME NEW p \in Publishers, BeginUnpublish(p) PROVE GuardInv'
    <2> DEFINE state == [AtRest EXCEPT !.at = 1, !.withdraw = TRUE]
    <2>1. IsPlacing(state) /\ state.looked = FALSE /\ state.edition = 0
      BY DEF AtRest, IsPlacing
    <2>2. placing' = [placing EXCEPT ![p] = state] /\ UNCHANGED <<pointer, edition, replaced>>
      BY <1>2 DEF BeginUnpublish
    <2> HIDE DEF state
    <2> QED
      BY <1>R, <2>1, <2>2
  <1>3. ASSUME NEW p \in Publishers, Look(p) PROVE GuardInv'
    <2>1. UNCHANGED <<pointer, edition, replaced>> /\ placing[p].at # 0
      BY <1>3 DEF Look, Working
    <2>2. CASE Foreign(p, pointer["_index"])
      <3>1. Advance(p, placing[p])
        BY <1>3, <2>2 DEF Look
      <3>2. /\ ArePlacings(placing')
            /\ placing'[p].looked = FALSE /\ placing'[p].edition <= edition
            /\ \A q \in Publishers \ {p} : placing'[q] = placing[q]
        BY <1>0, <2>1, <3>1, AdvancedHasNotLooked DEF PlacingTypes, ArePlacings
      <3> QED
        BY <1>0, <2>1, <3>2 DEF GuardInv, PlacingTypes, ArePlacings, LookIsTrue, IndexIsGuarded
    <2>3. CASE ~ Foreign(p, pointer["_index"])
      <3>1. placing' = [placing EXCEPT ![p].looked = TRUE, ![p].edition = edition]
        BY <1>3, <2>3 DEF Look
      <3>2. pointer["_index"].host \in {NoHost, placing[p].host}
        BY <2>3 DEF Foreign
      <3>3. /\ placing'[p].at = placing[p].at /\ placing'[p].host = placing[p].host
            /\ placing'[p].edition = edition
        BY <1>0, <3>1 DEF PlacingTypes, ArePlacings, IsPlacing
      <3>4. \A q \in Publishers \ {p} : placing'[q] = placing[q]
        BY <1>0, <3>1 DEF PlacingTypes, ArePlacings
      <3>T. ArePlacings(placing')
        BY <1>0, <3>1 DEF PlacingTypes, ArePlacings, IsPlacing
      <3>5. PlacingTypes'
        BY <1>0, <2>1, <3>3, <3>4, <3>T DEF PlacingTypes, ArePlacings
      <3>6. LookIsTrue'
        BY <1>0, <2>1, <3>2, <3>3, <3>4 DEF LookIsTrue
      <3> QED
        BY <1>0, <2>1, <3>5, <3>6 DEF GuardInv, IndexIsGuarded
    <2> QED
      BY <2>2, <2>3
  <1>4. ASSUME NEW p \in Publishers, LookFails(p) PROVE GuardInv'
    <2>1. /\ placing' = [placing EXCEPT ![p].looked = TRUE, ![p].edition = 0]
          /\ UNCHANGED <<pointer, edition, replaced>>
      BY <1>4 DEF LookFails
    <2>2. /\ placing'[p].at = placing[p].at /\ placing'[p].edition = 0
          /\ \A q \in Publishers \ {p} : placing'[q] = placing[q]
      BY <1>0, <2>1 DEF PlacingTypes, ArePlacings, IsPlacing
    <2>T. ArePlacings(placing')
      BY <1>0, <2>1 DEF PlacingTypes, ArePlacings, IsPlacing
    <2>3. PlacingTypes'
      BY <1>0, <2>1, <2>2, <2>T DEF PlacingTypes, ArePlacings
    <2>4. LookIsTrue'
      BY <1>0, <2>1, <2>2 DEF LookIsTrue, PlacingTypes, ArePlacings
    <2> QED
      BY <1>0, <2>1, <2>3, <2>4 DEF GuardInv, IndexIsGuarded
  <1>5. ASSUME NEW p \in Publishers, Write(p) PROVE GuardInv'
    BY <1>5, WriteIsGuarded
  <1>6. ASSUME NEW p \in Publishers, WriteFails(p) PROVE GuardInv'
    <2>1. IsPlacing(AtRest) /\ AtRest.looked = FALSE /\ AtRest.edition = 0
      BY DEF AtRest, IsPlacing
    <2>2. placing' = [placing EXCEPT ![p] = AtRest] /\ UNCHANGED <<pointer, edition, replaced>>
      BY <1>6 DEF WriteFails
    <2> QED
      BY <1>R, <2>1, <2>2
  <1>7. ASSUME NEW p \in Publishers, Withdraw(p) PROVE GuardInv'
    BY <1>7, WithdrawalIsGuarded
  <1>8. CASE Resolve \/ UNCHANGED cpVars
    BY <1>0, <1>8 DEF Resolve, cpVars, GuardInv, PlacingTypes, ArePlacings, LookIsTrue, IndexIsGuarded
  <1> QED
    BY <1>1, <1>2, <1>3, <1>4, <1>5, <1>6, <1>7, <1>8 DEF cpNext

(* publish_catalog_pointer (core/catalog_pointer.py:337) without           *)
(* force_index: for any publishers, hosts and failures, the index label    *)
(* loses another host only to a failed look or to a write in between.      *)
THEOREM IndexIsOverwrittenKnowingly == cpSpec => []IndexIsGuarded
  <1>1. GuardInv => IndexIsGuarded
    BY DEF GuardInv
  <1> QED
    BY <1>1, GuardInit, GuardNext, PTL DEF cpSpec

-----------------------------------------------------------------------------
(* Policy enforcement: a security policy is read and written back whole.   *)

OperationFields ==
  {"what", "left", "all", "list", "action", "found", "read", "version", "errors"}

Rules == [data : ListNames \cup {"by hand"},
          action : Actions \cup {"action_allow", "rollback", "unbind", ""}]

OnLists == {"lists", "list", "policy", "unbind", "rules"}

(* An operation has its fields, and one on a list names that list.         *)
IsOperation(d) ==
  /\ d = [f \in OperationFields |-> d[f]]
  /\ d.action \in Actions \cup {"rollback", "unbind", ""}
  /\ d.what \in OnLists => d.list \in ListNames

(* No two rules of one list.                                               *)
OneRuleEach(rules) ==
  \A l \in ListNames, i, j \in DOMAIN rules :
    rules[i].data = l /\ rules[j].data = l => i = j

(* The rules of every binding that was reported up to version v.           *)
Holds(rules, b, v) ==
  \A l \in ListNames : b[l].version \in 1 .. v => Rule(l, b[l].action) \in ToSet(rules)

(* What an operator is about to write back is the policy of its version:   *)
(* nothing reported by then is missing from it.                            *)
ReadWhole(d, p, v, b) ==
  d.what = "rules" =>
    /\ d.version \in 1 .. v /\ d.read \in Seq(Rules)
    /\ OneRuleEach(d.read) /\ Holds(d.read, b, d.version)
    /\ d.version = v => d.read = p

PolicyIsKept(p, v, b) ==
  /\ v \in Nat \ {0} /\ p \in Seq(Rules) /\ OneRuleEach(p)
  /\ b = [l \in ListNames |-> b[l]]
  /\ \A l \in ListNames : b[l].version \in 0 .. v
  /\ Holds(p, b, v)

PolicyInv ==
  /\ doing = [o \in Operators |-> doing[o]]
  /\ \A o \in Operators : IsOperation(doing[o]) /\ ReadWhole(doing[o], policy, version, bound)
  /\ PolicyIsKept(policy, version, bound)

LEMMA PolicyInit == ASSUME enInit PROVE PolicyInv
  <1>1. doing = [o \in Operators |-> doing[o]]
    BY DEF enInit
  <1>2. \A o \in Operators : IsOperation(doing[o]) /\ ReadWhole(doing[o], policy, version, bound)
    BY DEF enInit, Idle, IsOperation, OperationFields, OnLists, ReadWhole
  <1>i. policy = <<>> \/ policy = <<Rule("by hand", "action_allow")>>
    BY DEF enInit
  <1>3. policy \in Seq(Rules) /\ OneRuleEach(policy)
    <2>1. CASE policy = <<>>
      BY <2>1 DEF OneRuleEach
    <2>2. CASE policy = <<Rule("by hand", "action_allow")>>
      <3> DEFINE r == Rule("by hand", "action_allow")
      <3>1. r \in Rules
        BY DEF Rule, Rules
      <3>2. policy = <<r>>
        BY <2>2
      <3> HIDE DEF r
      <3>3. <<r>> \in Seq(Rules) /\ DOMAIN <<r>> = {1}
        BY <3>1
      <3>4. OneRuleEach(policy)
        BY <3>2, <3>3 DEF OneRuleEach
      <3>5. QED
        BY <3>2, <3>3, <3>4
    <2>3. QED
      BY <1>i, <2>1, <2>2
  <1>b. /\ version = 1 /\ bound = [l \in ListNames |-> bound[l]]
        /\ \A l \in ListNames : bound[l].version = 0
    BY DEF enInit, Unbound
  <1>4. PolicyIsKept(policy, version, bound)
    BY <1>3, <1>b DEF PolicyIsKept, Holds
  <1>5. QED
    BY <1>1, <1>2, <1>4 DEF PolicyInv

(* What a step does to its own operator, the policy left as it was.        *)
LEMMA OneMoves ==
  ASSUME PolicyInv, NEW o \in Operators, NEW d, doing' = [doing EXCEPT ![o] = d],
         IsOperation(d), ReadWhole(d, policy', version', bound'),
         PolicyIsKept(policy', version', bound'),
         \A other \in Operators : ReadWhole(doing[other], policy', version', bound')
  PROVE  PolicyInv'
  <1>1. doing' = [x \in Operators |-> doing'[x]]
    BY DEF PolicyInv
  <1>2. \A x \in Operators : doing'[x] = IF x = o THEN d ELSE doing[x]
    BY DEF PolicyInv
  <1>3. \A x \in Operators : IsOperation(doing'[x]) /\ ReadWhole(doing'[x], policy', version', bound')
    BY <1>2 DEF PolicyInv
  <1>4. QED
    BY <1>1, <1>3 DEF PolicyInv

LEMMA OneMovesQuietly ==
  ASSUME PolicyInv, NEW o \in Operators, NEW d, doing' = [doing EXCEPT ![o] = d],
         IsOperation(d), d.what # "rules", UNCHANGED <<policy, version, bound>>
  PROVE  PolicyInv'
  <1>1. ReadWhole(d, policy', version', bound')
    BY DEF ReadWhole
  <1>2. /\ PolicyIsKept(policy', version', bound')
        /\ \A other \in Operators : ReadWhole(doing[other], policy', version', bound')
    BY DEF PolicyInv
  <1>3. QED
    BY <1>1, <1>2, OneMoves

(* Taking the rules of one list out.                                       *)
LEMMA AloneIs ==
  ASSUME NEW rules \in Seq(Rules), NEW list, OneRuleEach(rules)
  PROVE  /\ Alone(rules, list) \in Seq(Rules)
         /\ OneRuleEach(Alone(rules, list))
         /\ \A i \in DOMAIN Alone(rules, list) : Alone(rules, list)[i].data # list
         /\ \A r \in ToSet(rules) : r.data # list => r \in ToSet(Alone(rules, list))
  <1> DEFINE kept == {i \in DOMAIN rules : rules[i].data # list}
  <1>1. /\ Len(rules) \in Nat /\ DOMAIN rules = 1 .. Len(rules)
    BY LenProperties
  <1>2. kept \in SUBSET (DOMAIN rules) /\ kept \in SUBSET (1 .. Len(rules))
    BY <1>1
  <1>3. Alone(rules, list) = Pick(rules, kept)
    BY DEF Alone
  <1>k. \A i \in kept : i \in DOMAIN rules /\ rules[i].data # list
    OBVIOUS
  <1>m. \A i \in DOMAIN rules : rules[i].data # list => i \in kept
    OBVIOUS
  <1> HIDE DEF kept
  <1>4. Pick(rules, kept) \in Seq(Rules)
    BY <1>2, PickKeeps
  <1>5. PICK f : Selects(f, rules, kept)
    BY <1>1, <1>2, PickIs
  <1>6. /\ f \in [1 .. Cardinality(kept) -> kept]
        /\ \A i, j \in 1 .. Cardinality(kept) : i < j => f[i] < f[j]
        /\ \A k \in kept : \E i \in 1 .. Cardinality(kept) : f[i] = k
        /\ Pick(rules, kept) = [i \in 1 .. Cardinality(kept) |-> rules[f[i]]]
    BY <1>5 DEF Selects
  <1>7. /\ DOMAIN Pick(rules, kept) = 1 .. Cardinality(kept)
        /\ \A i \in 1 .. Cardinality(kept) : f[i] \in DOMAIN rules /\ Pick(rules, kept)[i] = rules[f[i]]
    BY <1>6, <1>k
  <1>8. OneRuleEach(Pick(rules, kept))
    <2>1. ASSUME NEW l \in ListNames, NEW i \in DOMAIN Pick(rules, kept),
                 NEW j \in DOMAIN Pick(rules, kept),
                 Pick(rules, kept)[i].data = l, Pick(rules, kept)[j].data = l
          PROVE  i = j
      <3>1. i \in 1 .. Cardinality(kept) /\ j \in 1 .. Cardinality(kept) /\ i \in Int /\ j \in Int
        BY <1>7
      <3>2. f[i] \in DOMAIN rules /\ f[j] \in DOMAIN rules
        BY <1>7, <3>1
      <3>3. f[i] = f[j]
        BY <1>7, <2>1, <3>1, <3>2 DEF OneRuleEach
      <3>4. ~ (f[i] < f[j]) /\ ~ (f[j] < f[i])
        BY <1>1, <3>2, <3>3
      <3>5. QED
        BY <1>6, <3>1, <3>4
    <2>2. QED
      BY <2>1 DEF OneRuleEach
  <1>9. \A i \in DOMAIN Pick(rules, kept) : Pick(rules, kept)[i].data # list
    <2>1. ASSUME NEW i \in DOMAIN Pick(rules, kept) PROVE Pick(rules, kept)[i].data # list
      <3>1. f[i] \in kept /\ Pick(rules, kept)[i] = rules[f[i]]
        BY <1>6, <1>7
      <3>2. QED
        BY <3>1, <1>k
    <2>2. QED
      BY <2>1
  <1>10. \A r \in ToSet(rules) : r.data # list => r \in ToSet(Pick(rules, kept))
    <2>1. ASSUME NEW i \in DOMAIN rules, rules[i].data # list
          PROVE  \E m \in DOMAIN Pick(rules, kept) : Pick(rules, kept)[m] = rules[i]
      BY <1>6, <1>7, <1>m, <2>1
    <2>2. QED
      BY <2>1 DEF ToSet
  <1>11. QED
    BY <1>3, <1>4, <1>8, <1>9, <1>10

(* Writing back with the rule of one list, in a new first place.           *)
LEMMA ReboundIs ==
  ASSUME NEW rules \in Seq(Rules), NEW list \in ListNames, NEW action, OneRuleEach(rules),
         Rule(list, action) \in Rules
  PROVE  /\ Rebound(rules, list, action) \in Seq(Rules)
         /\ OneRuleEach(Rebound(rules, list, action))
         /\ Rule(list, action) \in ToSet(Rebound(rules, list, action))
         /\ \A r \in ToSet(rules) : r.data # list => r \in ToSet(Rebound(rules, list, action))
  <1> DEFINE rest == Alone(rules, list)
             all == Rebound(rules, list, action)
             first == Rule(list, action)
  <1>1. /\ rest \in Seq(Rules) /\ OneRuleEach(rest)
        /\ \A i \in DOMAIN rest : rest[i].data # list
        /\ \A r \in ToSet(rules) : r.data # list => r \in ToSet(rest)
    BY AloneIs
  <1>2. all = <<first>> \o rest
    BY DEF Rebound
  <1>f. first.data = list /\ first \in Rules
    BY DEF Rule
  <1> HIDE DEF rest, all, first
  <1>3. <<first>> \in Seq(Rules) /\ Len(<<first>>) = 1 /\ <<first>>[1] = first
    BY <1>f
  <1>4. /\ <<first>> \o rest \in Seq(Rules)
        /\ Len(<<first>> \o rest) = Len(<<first>>) + Len(rest)
        /\ \A i \in 1 .. Len(<<first>>) + Len(rest) :
             (<<first>> \o rest)[i] = IF i <= Len(<<first>>) THEN <<first>>[i]
                                      ELSE rest[i - Len(<<first>>)]
    BY <1>1, <1>3, ConcatProperties
  <1>5. /\ Len(rest) \in Nat /\ DOMAIN rest = 1 .. Len(rest)
    BY <1>1, LenProperties
  <1>6. all \in Seq(Rules) /\ DOMAIN all = 1 .. 1 + Len(rest)
    BY <1>2, <1>3, <1>4, LenProperties
  <1>7. all[1] = first /\ \A i \in 2 .. 1 + Len(rest) : all[i] = rest[i - 1] /\ i - 1 \in DOMAIN rest
    BY <1>2, <1>3, <1>4, <1>5
  <1>8. OneRuleEach(all)
    <2>1. ASSUME NEW l \in ListNames, NEW i \in DOMAIN all, NEW j \in DOMAIN all,
                 all[i].data = l, all[j].data = l
          PROVE  i = j
      <3>1. CASE i = 1 /\ j = 1
        BY <3>1
      <3>a. \A k \in DOMAIN all : k # 1 => k \in 2 .. 1 + Len(rest)
        BY <1>5, <1>6
      <3>b. \A k \in DOMAIN all : k # 1 => all[k].data # list
        BY <1>1, <1>7, <3>a
      <3>2. CASE i = 1 /\ j # 1
        BY <1>7, <1>f, <2>1, <3>2, <3>b
      <3>3. CASE i # 1 /\ j = 1
        BY <1>7, <1>f, <2>1, <3>3, <3>b
      <3>4. CASE i # 1 /\ j # 1
        <4>1. i \in 2 .. 1 + Len(rest) /\ j \in 2 .. 1 + Len(rest)
          BY <1>5, <1>6, <3>4
        <4>2. i - 1 = j - 1
          BY <1>1, <1>7, <2>1, <4>1 DEF OneRuleEach
        <4>3. QED
          BY <1>5, <4>1, <4>2
      <3>5. QED
        BY <3>1, <3>2, <3>3, <3>4
    <2>2. QED
      BY <2>1 DEF OneRuleEach
  <1>9. first \in ToSet(all)
    BY <1>5, <1>6, <1>7 DEF ToSet
  <1>10. ASSUME NEW r \in ToSet(rest) PROVE r \in ToSet(all)
    <2>1. PICK m \in DOMAIN rest : r = rest[m]
      BY DEF ToSet
    <2>2. m + 1 \in 2 .. 1 + Len(rest) /\ (m + 1) - 1 = m /\ m + 1 \in DOMAIN all
      BY <1>5, <1>6
    <2>3. QED
      BY <1>7, <2>1, <2>2 DEF ToSet
  <1>11. QED
    BY <1>1, <1>6, <1>8, <1>9, <1>10 DEF all, first

(* An operation that moves on keeps its list and its action.               *)
LEMMA MovesOn ==
  ASSUME PolicyInv, NEW o \in Operators, NEW d, IsOperation(d), d.what # "rules",
         doing' = [doing EXCEPT ![o] = d],
         UNCHANGED <<policy, version, bound>>
  PROVE  PolicyInv'
  BY OneMovesQuietly

LEMMA BeginsQuietly ==
  ASSUME PolicyInv, NEW o \in Operators, NEW d, Begin(o, d), IsOperation(d), d.what # "rules"
  PROVE  PolicyInv'
  <1>1. doing' = [doing EXCEPT ![o] = d] /\ UNCHANGED <<policy, version, bound>>
    BY DEF Begin, To
  <1>2. QED
    BY <1>1, OneMovesQuietly

LEMMA NiosHolds ==
  ASSUME PolicyInv, enNiosNext
  PROVE  PolicyInv'
  <1>1. PICK o \in Operators :
          \/ \E doc \in Documents, saves \in BOOLEAN : StartNios(o, doc, saves)
          \/ RollbackNios(o)
          \/ EnsureZone(o)
          \/ LookRecord(o)
          \/ PutRecord(o)
          \/ RecordFails(o)
          \/ PushEnds(o)
          \/ \E w \in DOMAIN rpz : DeleteRecord(o, w)
          \/ RequestFails(o)
    BY DEF enNiosNext
  <1>2. IsOperation(doing[o])
    BY DEF PolicyInv
  <1>3. CASE \E doc \in Documents, saves \in BOOLEAN : StartNios(o, doc, saves)
    <2>1. PICK doc \in Documents, saves \in BOOLEAN : StartNios(o, doc, saves)
      BY <1>3
    <2> DEFINE d == [Idle EXCEPT !.what = "ensure", !.left = Compiled(doc, FALSE),
                                 !.all = Compiled(doc, FALSE)]
    <2>2. IsOperation(d) /\ d.what # "rules"
      BY DEF Idle, IsOperation, OperationFields, OnLists
    <2>3. Begin(o, d)
      BY <2>1 DEF StartNios
    <2> HIDE DEF d
    <2>4. QED
      BY <2>2, <2>3, BeginsQuietly
  <1>4. CASE RollbackNios(o)
    <2> DEFINE d == [Idle EXCEPT !.what = "ensure", !.left = Latest(NiosList),
                                 !.all = Latest(NiosList)]
    <2>2. IsOperation(d) /\ d.what # "rules"
      BY DEF Idle, IsOperation, OperationFields, OnLists
    <2>3. Begin(o, d)
      BY <1>4 DEF RollbackNios
    <2> HIDE DEF d
    <2>4. QED
      BY <2>2, <2>3, BeginsQuietly
  <1>5. CASE EnsureZone(o)
    <2> DEFINE d == [doing[o] EXCEPT !.what = "look"]
    <2>1. doing' = [doing EXCEPT ![o] = d] /\ UNCHANGED <<policy, version, bound>>
      BY <1>5 DEF EnsureZone, To
    <2>2. IsOperation(d) /\ d.what # "rules"
      BY <1>2 DEF IsOperation, OperationFields, OnLists
    <2> HIDE DEF d
    <2>3. QED
      BY <2>1, <2>2, OneMovesQuietly
  <1>6. CASE LookRecord(o)
    <2> DEFINE d == [doing[o] EXCEPT !.what = "put",
                            !.found = IF Current(o).owner \in DOMAIN rpz THEN 1 ELSE 0]
    <2>1. doing' = [doing EXCEPT ![o] = d] /\ UNCHANGED <<policy, version, bound>>
      BY <1>6 DEF LookRecord, To, StoresSame
    <2>2. IsOperation(d) /\ d.what # "rules"
      BY <1>2 DEF IsOperation, OperationFields, OnLists
    <2> HIDE DEF d
    <2>3. QED
      BY <2>1, <2>2, OneMovesQuietly
  <1>7. ASSUME NEW e \in {0, 1}
        PROVE  IsOperation(NextRecord(o, e)) /\ NextRecord(o, e).what # "rules"
    BY <1>2 DEF NextRecord, IsOperation, OperationFields, OnLists
  <1>8. CASE PutRecord(o)
    <2>1. PICK e \in {0, 1} : doing' = [doing EXCEPT ![o] = NextRecord(o, e)]
      BY <1>8 DEF PutRecord, To
    <2>2. UNCHANGED <<policy, version, bound>>
      BY <1>8 DEF PutRecord
    <2>3. QED
      BY <1>7, <2>1, <2>2, OneMovesQuietly
  <1>9. CASE RecordFails(o)
    <2>1. doing' = [doing EXCEPT ![o] = NextRecord(o, 1)] /\ UNCHANGED <<policy, version, bound>>
      BY <1>9 DEF RecordFails, To, Counted, StoresSame
    <2>2. IsOperation(NextRecord(o, 1)) /\ NextRecord(o, 1).what # "rules"
      BY <1>7
    <2>3. QED
      BY <2>1, <2>2, OneMovesQuietly
  <1>10. CASE PushEnds(o)
    <2> DEFINE d == [doing[o] EXCEPT !.what = "done"]
    <2>1. doing' = [doing EXCEPT ![o] = d] /\ UNCHANGED <<policy, version, bound>>
      BY <1>10 DEF PushEnds, To, StoresSame
    <2>2. IsOperation(d) /\ d.what # "rules"
      BY <1>2 DEF IsOperation, OperationFields, OnLists
    <2> HIDE DEF d
    <2>3. QED
      BY <2>1, <2>2, OneMovesQuietly
  <1>11. CASE \E w \in DOMAIN rpz : DeleteRecord(o, w)
    <2>1. UNCHANGED <<doing, policy, version, bound>>
      BY <1>11 DEF DeleteRecord
    <2>2. QED
      BY <2>1 DEF PolicyInv
  <1>12. CASE RequestFails(o)
    <2>1. doing' = [doing EXCEPT ![o] = Idle] /\ UNCHANGED <<policy, version, bound>>
      BY <1>12 DEF RequestFails, To, StoresSame
    <2>2. IsOperation(Idle) /\ Idle.what # "rules"
      BY DEF Idle, IsOperation, OperationFields, OnLists
    <2>3. QED
      BY <2>1, <2>2, OneMovesQuietly
  <1>13. QED
    BY <1>1, <1>3, <1>4, <1>5, <1>6, <1>8, <1>9, <1>10, <1>11, <1>12

(* The policy is read: what is read is what it says, and a binding found   *)
(* there is reported at this version.                                      *)
LEMMA ReadPolicyHolds ==
  ASSUME PolicyInv, NEW o \in Operators, ReadPolicy(o)
  PROVE  PolicyInv'
  <1> DEFINE rule == Rule(doing[o].list, doing[o].action)
  <1>1. /\ IsOperation(doing[o]) /\ PolicyIsKept(policy, version, bound)
        /\ \A x \in Operators : ReadWhole(doing[x], policy, version, bound)
    BY DEF PolicyInv
  <1>2. doing[o].list \in ListNames /\ UNCHANGED <<policy, version>>
    BY <1>1 DEF ReadPolicy, IsOperation, OnLists
  <1>3. CASE rule \in ToSet(policy)
    <2> DEFINE d == [doing[o] EXCEPT !.what = "done"]
               new == [action |-> doing[o].action, version |-> version]
    <2>1. doing' = [doing EXCEPT ![o] = d] /\ bound' = [bound EXCEPT ![doing[o].list] = new]
      BY <1>3 DEF ReadPolicy, To, BoundAt
    <2>2. IsOperation(d) /\ d.what # "rules"
      BY <1>1 DEF IsOperation, OperationFields, OnLists
    <2>3. /\ bound' = [l \in ListNames |-> bound'[l]]
          /\ \A l \in ListNames : bound'[l] = IF l = doing[o].list THEN new ELSE bound[l]
      BY <1>1, <2>1 DEF PolicyIsKept
    <2>4. PolicyIsKept(policy, version, bound')
      <3>1. \A l \in ListNames : bound'[l].version \in 0 .. version
        BY <1>1, <2>3 DEF PolicyIsKept
      <3>2. Holds(policy, bound', version)
        BY <1>1, <1>3, <2>3 DEF PolicyIsKept, Holds
      <3>3. QED
        BY <1>1, <2>3, <3>1, <3>2 DEF PolicyIsKept
    <2>5. ASSUME NEW x \in Operators PROVE ReadWhole(doing[x], policy, version, bound')
      <3>1. CASE doing[x].what # "rules"
        BY <3>1 DEF ReadWhole
      <3>2. CASE doing[x].what = "rules"
        <4>1. /\ doing[x].version \in 1 .. version /\ doing[x].read \in Seq(Rules)
              /\ OneRuleEach(doing[x].read) /\ Holds(doing[x].read, bound, doing[x].version)
              /\ doing[x].version = version => doing[x].read = policy
          BY <1>1, <3>2 DEF ReadWhole
        <4>2. Holds(doing[x].read, bound', doing[x].version)
          <5>1. CASE doing[x].version = version
            BY <2>4, <4>1, <5>1 DEF PolicyIsKept
          <5>2. CASE doing[x].version # version
            <6>1. new.version \notin 1 .. doing[x].version
              BY <1>1, <4>1, <5>2 DEF PolicyIsKept
            <6>2. QED
              BY <2>3, <4>1, <6>1 DEF Holds
          <5>3. QED
            BY <5>1, <5>2
        <4>3. QED
          BY <4>1, <4>2 DEF ReadWhole
      <3>3. QED
        BY <3>1, <3>2
    <2>6. ReadWhole(d, policy', version', bound')
      BY <2>2 DEF ReadWhole
    <2> HIDE DEF d, new
    <2>7. QED
      BY <1>2, <2>1, <2>2, <2>4, <2>5, <2>6, OneMoves
  <1>4. CASE rule \notin ToSet(policy)
    <2> DEFINE d == [doing[o] EXCEPT !.what = "rules", !.read = policy, !.version = version]
    <2>1. doing' = [doing EXCEPT ![o] = d] /\ bound' = bound
      BY <1>4 DEF ReadPolicy, To
    <2>2. IsOperation(d) /\ d.read = policy /\ d.version = version
      BY <1>1, <1>2 DEF IsOperation, OperationFields, OnLists
    <2>3. ReadWhole(d, policy, version, bound)
      BY <1>1, <2>2 DEF ReadWhole, PolicyIsKept
    <2> HIDE DEF d
    <2>4. QED
      BY <1>1, <1>2, <2>1, <2>2, <2>3, OneMoves
  <1>5. QED
    BY <1>3, <1>4

LEMMA ReadForUnbindHolds ==
  ASSUME PolicyInv, NEW o \in Operators, ReadForUnbind(o)
  PROVE  PolicyInv'
  <1>1. /\ IsOperation(doing[o]) /\ PolicyIsKept(policy, version, bound)
        /\ \A x \in Operators : ReadWhole(doing[x], policy, version, bound)
    BY DEF PolicyInv
  <1>2. doing[o].list \in ListNames /\ UNCHANGED <<policy, version, bound>>
    BY <1>1 DEF ReadForUnbind, IsOperation, OnLists, StoresSame
  <1> DEFINE d == [doing[o] EXCEPT !.what = "rules", !.read = policy, !.version = version]
  <1>3. doing' = [doing EXCEPT ![o] = d] \/ doing' = [doing EXCEPT ![o] = Idle]
    BY DEF ReadForUnbind, To
  <1>4. IsOperation(d) /\ d.read = policy /\ d.version = version
    BY <1>1, <1>2 DEF IsOperation, OperationFields, OnLists
  <1>5. IsOperation(Idle) /\ Idle.what # "rules"
    BY DEF Idle, IsOperation, OperationFields, OnLists
  <1>6. ReadWhole(d, policy, version, bound)
    BY <1>1, <1>4 DEF ReadWhole, PolicyIsKept
  <1> HIDE DEF d
  <1>7. CASE doing' = [doing EXCEPT ![o] = d]
    BY <1>1, <1>2, <1>4, <1>6, <1>7, OneMoves
  <1>8. CASE doing' = [doing EXCEPT ![o] = Idle]
    BY <1>2, <1>5, <1>8, OneMovesQuietly
  <1>9. QED
    BY <1>3, <1>7, <1>8

(* A write of the whole policy takes what was reported after its read, and *)
(* what its own list had; the rest was in what it read.                    *)
WritesWhole(o, d, own) ==
  /\ doing[o].what = "rules" /\ IsOperation(d) /\ d.what # "rules"
  /\ own.version \in {0, version + 1}
  /\ doing' = [doing EXCEPT ![o] = d]
  /\ version' = version + 1
  /\ bound' = [Excused(o, bound) EXCEPT ![doing[o].list] = own]
  /\ policy' \in Seq(Rules) /\ OneRuleEach(policy')
  /\ own.version # 0 => Rule(doing[o].list, own.action) \in ToSet(policy')
  /\ \A r \in ToSet(doing[o].read) : r.data # doing[o].list => r \in ToSet(policy')

LEMMA WholeWriteHolds ==
  ASSUME PolicyInv, NEW o \in Operators, NEW own, NEW d, WritesWhole(o, d, own)
  PROVE  PolicyInv'
  <1>w. /\ doing[o].what = "rules" /\ IsOperation(d) /\ d.what # "rules"
        /\ own.version \in {0, version + 1}
        /\ doing' = [doing EXCEPT ![o] = d]
        /\ version' = version + 1
        /\ bound' = [Excused(o, bound) EXCEPT ![doing[o].list] = own]
        /\ policy' \in Seq(Rules) /\ OneRuleEach(policy')
        /\ own.version # 0 => Rule(doing[o].list, own.action) \in ToSet(policy')
        /\ \A r \in ToSet(doing[o].read) : r.data # doing[o].list => r \in ToSet(policy')
    BY DEF WritesWhole
  <1> USE <1>w
  <1>1. /\ IsOperation(doing[o]) /\ PolicyIsKept(policy, version, bound)
        /\ \A x \in Operators : ReadWhole(doing[x], policy, version, bound)
    BY DEF PolicyInv
  <1>2. /\ doing[o].version \in 1 .. version /\ doing[o].list \in ListNames
        /\ Holds(doing[o].read, bound, doing[o].version)
    BY <1>1 DEF ReadWhole, IsOperation, OnLists
  <1>3. /\ version \in Nat \ {0} /\ \A l \in ListNames : bound[l].version \in 0 .. version
    BY <1>1 DEF PolicyIsKept
  <1>4. /\ bound' = [l \in ListNames |-> bound'[l]]
        /\ \A l \in ListNames : bound'[l] =
             IF l = doing[o].list THEN own
             ELSE IF bound[l].version > doing[o].version THEN Unbound ELSE bound[l]
    BY DEF Excused
  <1>5. Unbound.version = 0
    BY DEF Unbound
  <1> HIDE DEF Unbound
  <1>6. \A l \in ListNames : bound'[l].version \in 0 .. version + 1
    BY <1>3, <1>4, <1>5
  <1>7. ASSUME NEW l \in ListNames, bound'[l].version # 0
        PROVE  Rule(l, bound'[l].action) \in ToSet(policy')
    <2>1. CASE l = doing[o].list
      BY <1>4, <1>7, <2>1
    <2>2. CASE l # doing[o].list
      <3>1. bound'[l] = bound[l] /\ bound[l].version \in 1 .. doing[o].version
        BY <1>2, <1>3, <1>4, <1>5, <1>7, <2>2
      <3>2. Rule(l, bound[l].action) \in ToSet(doing[o].read)
        BY <1>2, <3>1 DEF Holds
      <3>3. Rule(l, bound[l].action).data # doing[o].list
        BY <2>2 DEF Rule
      <3>4. QED
        BY <3>1, <3>2, <3>3
    <2>3. QED
      BY <2>1, <2>2
  <1>8. PolicyIsKept(policy', version', bound')
    <2>1. Holds(policy', bound', version')
      BY <1>7 DEF Holds
    <2>2. version' \in Nat \ {0}
      BY <1>3
    <2>3. QED
      BY <1>4, <1>6, <2>1, <2>2 DEF PolicyIsKept
  <1>9. ASSUME NEW x \in Operators PROVE ReadWhole(doing[x], policy', version', bound')
    <2>1. CASE doing[x].what # "rules"
      BY <2>1 DEF ReadWhole
    <2>2. CASE doing[x].what = "rules"
      <3>1. /\ doing[x].version \in 1 .. version /\ doing[x].read \in Seq(Rules)
            /\ OneRuleEach(doing[x].read) /\ Holds(doing[x].read, bound, doing[x].version)
        BY <1>1, <2>2 DEF ReadWhole
      <3>2. doing[x].version \in 1 .. version' /\ doing[x].version # version'
        BY <1>3, <3>1
      <3>3. ASSUME NEW l \in ListNames, bound'[l].version \in 1 .. doing[x].version
            PROVE  Rule(l, bound'[l].action) \in ToSet(doing[x].read)
        <4>1. bound'[l].version # 0 /\ bound'[l].version # version + 1
          BY <1>3, <3>1, <3>3
        <4>2. bound'[l] = bound[l]
          BY <1>4, <1>5, <4>1
        <4>3. QED
          BY <3>1, <3>3, <4>2 DEF Holds
      <3>4. Holds(doing[x].read, bound', doing[x].version)
        BY <3>3 DEF Holds
      <3>5. QED
        BY <3>1, <3>2, <3>4 DEF ReadWhole
    <2>3. QED
      BY <2>1, <2>2
  <1>10. ReadWhole(d, policy', version', bound')
    BY DEF ReadWhole
  <1>11. QED
    BY <1>8, <1>9, <1>10, OneMoves

LEMMA TdHolds ==
  ASSUME PolicyInv, enTdNext
  PROVE  PolicyInv'
  <1>1. PICK o \in Operators :
          \/ \E list \in ListNames, doc \in Documents, action \in Actions, saves \in BOOLEAN :
               StartTd(o, doc, list, action, saves)
          \/ \E list \in ListNames : RollbackTd(o, list)
          \/ \E list \in ListNames : Unbind(o, list)
          \/ ReadLists(o)
          \/ WriteList(o)
          \/ ReadPolicy(o)
          \/ WritePolicy(o)
          \/ ReadForUnbind(o)
          \/ WriteUnbound(o)
          \/ RequestFails(o)
    BY DEF enTdNext
  <1>2. IsOperation(doing[o]) /\ ReadWhole(doing[o], policy, version, bound)
    BY DEF PolicyInv
  <1>3. CASE \E list \in ListNames, doc \in Documents, action \in Actions, saves \in BOOLEAN :
               StartTd(o, doc, list, action, saves)
    <2>1. PICK list \in ListNames, doc \in Documents, action \in Actions, saves \in BOOLEAN :
            StartTd(o, doc, list, action, saves)
      BY <1>3
    <2> DEFINE d == [Idle EXCEPT !.what = "lists", !.all = Compiled(doc, FALSE), !.list = list,
                                 !.action = action]
    <2>2. IsOperation(d) /\ d.what # "rules"
      BY DEF Idle, IsOperation, OperationFields, OnLists
    <2>3. Begin(o, d)
      BY <2>1 DEF StartTd
    <2> HIDE DEF d
    <2>4. QED
      BY <2>2, <2>3, BeginsQuietly
  <1>4. CASE \E list \in ListNames : RollbackTd(o, list)
    <2>1. PICK list \in ListNames : RollbackTd(o, list)
      BY <1>4
    <2> DEFINE d == [Idle EXCEPT !.what = "lists", !.all = Latest(list), !.list = list,
                                 !.action = "rollback"]
    <2>2. IsOperation(d) /\ d.what # "rules"
      BY DEF Idle, IsOperation, OperationFields, OnLists
    <2>3. Begin(o, d)
      BY <2>1 DEF RollbackTd
    <2> HIDE DEF d
    <2>4. QED
      BY <2>2, <2>3, BeginsQuietly
  <1>5. CASE \E list \in ListNames : Unbind(o, list)
    <2>1. PICK list \in ListNames : Unbind(o, list)
      BY <1>5
    <2> DEFINE d == [Idle EXCEPT !.what = "unbind", !.list = list, !.action = "unbind"]
    <2>2. IsOperation(d) /\ d.what # "rules"
      BY DEF Idle, IsOperation, OperationFields, OnLists
    <2>3. Begin(o, d)
      BY <2>1 DEF Unbind
    <2> HIDE DEF d
    <2>4. QED
      BY <2>2, <2>3, BeginsQuietly
  <1>6. CASE ReadLists(o)
    <2> DEFINE d == [doing[o] EXCEPT !.what = "list", !.found = FirstOf(doing[o].list)]
    <2>1. doing' = [doing EXCEPT ![o] = d] /\ UNCHANGED <<policy, version, bound>>
      BY <1>6 DEF ReadLists, To, StoresSame
    <2>2. IsOperation(d) /\ d.what # "rules"
      <3>1. doing[o].what = "lists"
        BY <1>6 DEF ReadLists
      <3>2. QED
        BY <1>2, <3>1 DEF IsOperation, OperationFields, OnLists
    <2> HIDE DEF d
    <2>3. QED
      BY <2>1, <2>2, OneMovesQuietly
  <1>7. CASE WriteList(o)
    <2> DEFINE d == [doing[o] EXCEPT !.what = IF doing[o].action = "rollback" THEN "done"
                                              ELSE "policy"]
    <2>1. /\ doing' = [doing EXCEPT ![o] = d] /\ UNCHANGED <<policy, version, bound>>
          /\ doing[o].what = "list"
      BY <1>7 DEF WriteList, To
    <2>2. IsOperation(d) /\ d.what # "rules"
      BY <1>2, <2>1 DEF IsOperation, OperationFields, OnLists
    <2> HIDE DEF d
    <2>3. QED
      BY <2>1, <2>2, OneMovesQuietly
  <1>8. CASE WritePolicy(o)
    <2> DEFINE d == [doing[o] EXCEPT !.what = "done", !.read = <<>>]
               own == [action |-> doing[o].action, version |-> version + 1]
    <2>1. /\ doing[o].what = "rules" /\ doing[o].action # "unbind"
          /\ policy' = Rebound(doing[o].read, doing[o].list, doing[o].action)
          /\ version' = version + 1
          /\ bound' = [Excused(o, bound) EXCEPT ![doing[o].list] = own]
          /\ doing' = [doing EXCEPT ![o] = d]
      BY <1>8 DEF WritePolicy, To
    <2>2. IsOperation(d) /\ d.what # "rules"
      BY <1>2 DEF IsOperation, OperationFields, OnLists
    <2>3. /\ doing[o].list \in ListNames /\ Rule(doing[o].list, doing[o].action) \in Rules
          /\ doing[o].read \in Seq(Rules) /\ OneRuleEach(doing[o].read)
      BY <1>2, <2>1 DEF IsOperation, OnLists, ReadWhole, Rule, Rules
    <2>4. /\ policy' \in Seq(Rules) /\ OneRuleEach(policy')
          /\ Rule(doing[o].list, own.action) \in ToSet(policy')
          /\ \A r \in ToSet(doing[o].read) : r.data # doing[o].list => r \in ToSet(policy')
      BY <2>1, <2>3, ReboundIs
    <2>5. own.version \in {0, version + 1}
      OBVIOUS
    <2> HIDE DEF d, own
    <2>6. WritesWhole(o, d, own)
      BY <2>1, <2>2, <2>4, <2>5 DEF WritesWhole
    <2>7. QED
      BY <2>6, WholeWriteHolds
  <1>9. CASE WriteUnbound(o)
    <2> DEFINE own == Unbound
               d == Idle
    <2>1. /\ doing[o].what = "rules"
          /\ policy' = Alone(doing[o].read, doing[o].list)
          /\ version' = version + 1
          /\ bound' = [Excused(o, bound) EXCEPT ![doing[o].list] = own]
          /\ doing' = [doing EXCEPT ![o] = d]
      BY <1>9 DEF WriteUnbound, To
    <2>2. IsOperation(d) /\ d.what # "rules"
      BY DEF Idle, IsOperation, OperationFields, OnLists
    <2>3. doing[o].read \in Seq(Rules) /\ OneRuleEach(doing[o].read)
      BY <1>2, <2>1 DEF ReadWhole
    <2>4. /\ policy' \in Seq(Rules) /\ OneRuleEach(policy')
          /\ \A r \in ToSet(doing[o].read) : r.data # doing[o].list => r \in ToSet(policy')
      BY <2>1, <2>3, AloneIs
    <2>5. own.version = 0 /\ own.version \in {0, version + 1}
      BY DEF Unbound
    <2> HIDE DEF d, own
    <2>6. WritesWhole(o, d, own)
      BY <2>1, <2>2, <2>4, <2>5 DEF WritesWhole
    <2>7. QED
      BY <2>6, WholeWriteHolds
  <1>10. CASE RequestFails(o)
    <2>1. doing' = [doing EXCEPT ![o] = Idle] /\ UNCHANGED <<policy, version, bound>>
      BY <1>10 DEF RequestFails, To, StoresSame
    <2>2. IsOperation(Idle) /\ Idle.what # "rules"
      BY DEF Idle, IsOperation, OperationFields, OnLists
    <2>3. QED
      BY <2>1, <2>2, OneMovesQuietly
  <1>11. CASE ReadPolicy(o) \/ ReadForUnbind(o)
    BY <1>11, ReadPolicyHolds, ReadForUnbindHolds
  <1>12. QED
    BY <1>1, <1>3, <1>4, <1>5, <1>6, <1>7, <1>8, <1>9, <1>10, <1>11

LEMMA PolicyNext ==
  ASSUME PolicyInv, [enNiosNext \/ enTdNext]_enVars
  PROVE  PolicyInv'
  <1>1. CASE UNCHANGED enVars
    <2>1. UNCHANGED <<doing, policy, version, bound>>
      BY <1>1 DEF enVars
    <2>2. QED
      BY <2>1 DEF PolicyInv
  <1>2. QED
    BY <1>1, NiosHolds, TdHolds

(* A list has one rule at most.                                            *)
LEMMA OneRuleIsOne ==
  ASSUME PolicyInv
  PROVE  BoundOnce /\ RulesAreKept
  <1>1. policy \in Seq(Rules) /\ OneRuleEach(policy) /\ PolicyIsKept(policy, version, bound)
    BY DEF PolicyInv, PolicyIsKept
  <1>2. ASSUME NEW l \in ListNames
        PROVE  Cardinality({i \in DOMAIN policy : policy[i].data = l}) <= 1
    <2> DEFINE of == {i \in DOMAIN policy : policy[i].data = l}
    <2>1. CASE of = {}
      BY <2>1, FS_EmptySet
    <2>2. CASE of # {}
      <3>1. PICK i \in of : TRUE
        BY <2>2
      <3>2. of = {i}
        BY <1>1, <3>1 DEF OneRuleEach
      <3>3. Cardinality(of) = 1
        BY <3>2, FS_Singleton
      <3>4. QED
        BY <3>3
    <2>3. QED
      BY <2>1, <2>2
  <1>3. RulesAreKept
    <2>1. ASSUME NEW l \in ListNames, bound[l].version # 0
          PROVE  Rule(l, bound[l].action) \in ToSet(policy)
      <3>1. bound[l].version \in 1 .. version
        BY <1>1, <2>1 DEF PolicyIsKept
      <3>2. QED
        BY <1>1, <3>1 DEF PolicyIsKept, Holds
    <2>2. QED
      BY <2>1 DEF RulesAreKept
  <1>4. QED
    BY <1>2, <1>3 DEF BoundOnce

(* RulesAreKept and BoundOnce: whatever operators read and write the whole *)
(* security policy beside each other (bloxone.py:947-987), a binding that  *)
(* was reported is lost only to a write prepared before it, or on purpose, *)
(* and a list never has two rules.                                         *)
THEOREM BindingsAreKept == enSpec => [](RulesAreKept /\ BoundOnce)
  <1>1. enInit => PolicyInv
    BY PolicyInit
  <1>2. PolicyInv /\ [enNiosNext \/ enTdNext]_enVars => PolicyInv'
    BY PolicyNext
  <1>3. PolicyInv => RulesAreKept /\ BoundOnce
    BY OneRuleIsOne
  <1>4. QED
    BY <1>1, <1>2, <1>3, PTL DEF enSpec

-----------------------------------------------------------------------------
(* Lists of directives.                                                    *)
IsList(s) == s \in Seq(ToSet(s))

LEMMA AnyListIsList ==
  ASSUME NEW V, NEW s \in Seq(V)
  PROVE  IsList(s)
  <1>1. Len(s) \in Nat /\ s \in [1 .. Len(s) -> V]
    BY LenProperties
  <1>2. s \in [1 .. Len(s) -> ToSet(s)]
    BY <1>1 DEF ToSet
  <1>3. QED
    BY <1>1, <1>2, SeqDef DEF IsList

LEMMA ListHasLength ==
  ASSUME NEW s, IsList(s)
  PROVE  Len(s) \in Nat /\ DOMAIN s = 1 .. Len(s) /\ s \in Seq(ToSet(s))
  BY LenProperties DEF IsList

LEMMA PickIsList ==
  ASSUME NEW s, IsList(s), NEW kept \in SUBSET (DOMAIN s)
  PROVE  IsList(Pick(s, kept))
  <1>1. Pick(s, kept) \in Seq(ToSet(s))
    BY PickKeeps DEF IsList
  <1>2. QED
    BY <1>1, AnyListIsList

LEMMA FunctionIsList ==
  ASSUME NEW f, NEW n \in Nat, DOMAIN f = 1 .. n, f = [i \in 1 .. n |-> f[i]]
  PROVE  IsList(f)
  <1>1. f \in [1 .. n -> ToSet(f)]
    BY DEF ToSet
  <1>2. QED
    BY <1>1, SeqDef DEF IsList

LEMMA ConcatIsList ==
  ASSUME NEW s, NEW t, IsList(s), IsList(t)
  PROVE  IsList(s \o t)
  <1> DEFINE V == ToSet(s) \cup ToSet(t)
  <1>1. ToSet(s) \subseteq V /\ ToSet(t) \subseteq V
    OBVIOUS
  <1> HIDE DEF V
  <1>2. s \in Seq(V) /\ t \in Seq(V)
    <2>1. Len(s) \in Nat /\ s \in [1 .. Len(s) -> ToSet(s)]
      BY LenProperties DEF IsList
    <2>2. Len(t) \in Nat /\ t \in [1 .. Len(t) -> ToSet(t)]
      BY LenProperties DEF IsList
    <2>3. s \in [1 .. Len(s) -> V] /\ t \in [1 .. Len(t) -> V]
      BY <1>1, <2>1, <2>2
    <2>4. QED
      BY <2>1, <2>2, <2>3, SeqDef
  <1>3. s \o t \in Seq(V)
    BY <1>2, ConcatProperties
  <1>4. QED
    BY <1>3, AnyListIsList

LEMMA AppendIsList ==
  ASSUME NEW s, NEW e, IsList(s)
  PROVE  IsList(Append(s, e))
  <1> DEFINE V == ToSet(s) \cup {e}
  <1>1. ToSet(s) \subseteq V /\ e \in V
    OBVIOUS
  <1> HIDE DEF V
  <1>2. s \in Seq(V)
    <2>1. Len(s) \in Nat /\ s \in [1 .. Len(s) -> ToSet(s)]
      BY LenProperties DEF IsList
    <2>2. s \in [1 .. Len(s) -> V]
      BY <1>1, <2>1
    <2>3. QED
      BY <2>1, <2>2, SeqDef
  <1>3. Append(s, e) \in Seq(V)
    BY <1>1, <1>2, AppendProperties
  <1>4. QED
    BY <1>3, AnyListIsList

LEMMA CompiledIsList ==
  ASSUME NEW doc, IsDocument(doc)
  PROVE  IsList(Compiled(doc, FALSE))
  <1>1. IsList(doc.blocked) /\ IsList(doc.allowed) /\ IsList(doc.cel)
    BY DEF IsDocument, IsList
  <1>2. ASSUME NEW ps, IsList(ps) PROVE IsList(Blocking(ps))
    <2>1. Len(ps) \in Nat /\ DOMAIN ps = 1 .. Len(ps)
      BY <1>2, ListHasLength
    <2> DEFINE f == [i \in DOMAIN ps |-> Directive(ps[i], "NXDOMAIN")]
    <2>2. DOMAIN f = 1 .. Len(ps) /\ f = [i \in 1 .. Len(ps) |-> f[i]]
      BY <2>1
    <2> HIDE DEF f
    <2>3. IsList(f)
      BY <2>1, <2>2, FunctionIsList
    <2>4. QED
      BY <2>3 DEF f, Blocking
  <1>3. ASSUME NEW ps, IsList(ps) PROVE IsList(AllowedDirectives(ps))
    <2>1. Len(ps) \in Nat /\ DOMAIN ps = 1 .. Len(ps)
      BY <1>3, ListHasLength
    <2> DEFINE f == [i \in DOMAIN ps |-> Directive(ps[i], "PASSTHRU")]
               e == Directive(Everything, "NXDOMAIN")
    <2>2. DOMAIN f = 1 .. Len(ps) /\ f = [i \in 1 .. Len(ps) |-> f[i]]
      BY <2>1
    <2>3. AllowedDirectives(ps) = IF ps = <<>> THEN <<>> ELSE Append(f, e)
      BY DEF AllowedDirectives
    <2> HIDE DEF f, e
    <2>4. IsList(f)
      BY <2>1, <2>2, FunctionIsList
    <2>5. IsList(Append(f, e))
      BY <2>4, AppendIsList
    <2>6. CASE ps = <<>>
      BY <1>3, <2>3, <2>6
    <2>7. CASE ps # <<>>
      BY <2>3, <2>5, <2>7
    <2>8. QED
      BY <2>6, <2>7
  <1>4. ASSUME NEW cel, IsList(cel) PROVE IsList(CelDirectives(cel))
    <2> DEFINE some == Pick(cel, {i \in DOMAIN cel : CelCompiles(cel[i])})
               f == [i \in DOMAIN some |-> CelDirective(some[i])]
    <2>1. IsList(some)
      BY <1>4, PickIsList
    <2>2. CelDirectives(cel) = f
      BY DEF CelDirectives
    <2> HIDE DEF some
    <2>3. Len(some) \in Nat /\ DOMAIN some = 1 .. Len(some)
      BY <2>1, ListHasLength
    <2>4. DOMAIN f = 1 .. Len(some) /\ f = [i \in 1 .. Len(some) |-> f[i]]
      BY <2>3
    <2> HIDE DEF f
    <2>5. QED
      BY <2>2, <2>3, <2>4, FunctionIsList
  <1> DEFINE all == Blocking(doc.blocked) \o AllowedDirectives(doc.allowed) \o CelDirectives(doc.cel)
             kept == {i \in DOMAIN all : FALSE \/ ~ Broad(all[i].owner)}
             some == Pick(all, kept)
             firsts == {i \in DOMAIN some : \A j \in 1 .. i - 1 : some[j] # some[i]}
  <1>5. IsList(all)
    <2>1. IsList(Blocking(doc.blocked) \o AllowedDirectives(doc.allowed))
      BY <1>1, <1>2, <1>3, ConcatIsList
    <2>2. QED
      BY <1>1, <1>4, <2>1, ConcatIsList
  <1>6. Compiled(doc, FALSE) = Pick(some, firsts)
    BY DEF Compiled, FirstOfEach
  <1>7. kept \in SUBSET (DOMAIN all)
    OBVIOUS
  <1> HIDE DEF all, kept
  <1>8. IsList(some)
    BY <1>5, <1>7, PickIsList
  <1>9. firsts \in SUBSET (DOMAIN some)
    OBVIOUS
  <1> HIDE DEF some, firsts
  <1>10. QED
    BY <1>6, <1>8, <1>9, PickIsList

(* What an operation nobody disturbed has achieved.                        *)

(* The directives up to place k are in the zone, the last of an owner      *)
(* winning.                                                                *)
LastUpTo(all, k, w, j) ==
  /\ j \in 1 .. k /\ all[j].owner = w
  /\ \A m \in 1 .. k : all[m].owner = w => m <= j

Settled(all, k, zone) ==
  \A i \in 1 .. k : \E j \in 1 .. k :
    /\ LastUpTo(all, k, all[i].owner, j)
    /\ all[i].owner \in DOMAIN zone /\ zone[all[i].owner] = Canonical(all[j].action)

Remaining(left, all, k) ==
  Len(left) = Len(all) - k /\ \A i \in 1 .. Len(left) : left[i] = all[k + i]

Pushed(d, k, zone) ==
  /\ k \in 0 .. Len(d.all) /\ Remaining(d.left, d.all, k)
  /\ d.errors = 0 => Settled(d.all, k, zone)

FirstNamed(ls, name) ==
  LET at == {i \in DOMAIN ls : ls[i].name = name} IN
  IF at = {} THEN 0 ELSE CHOOSE i \in at : \A j \in at : i <= j

Holding(ls, name, all) ==
  LET first == FirstNamed(ls, name) IN first # 0 /\ ls[first].items = Listed(all)

OnZone == {"ensure", "look", "put"}

Bindable(d) ==
  \/ d.what = "policy"
  \/ d.what = "rules" /\ d.action # "unbind"
  \/ d.what = "done" /\ d.list # ""

InForce(d, zone, ls, p) ==
  /\ d.what \in OnZone =>
       d.list = "" /\ IsList(d.all) /\ IsList(d.left) /\ d.errors \in Nat
  /\ d.what = "ensure" => d.left = d.all
  /\ d.what = "put" => d.left # <<>>
  /\ d.what \in {"look", "put"} => \E k \in 0 .. Len(d.all) : Pushed(d, k, zone)
  /\ d.what = "done" /\ d.list = "" =>
       IsList(d.all) /\ (d.errors = 0 => Settled(d.all, Len(d.all), zone))
  /\ d.what = "unbind" => d.action = "unbind"
  /\ d.what = "list" => d.found = FirstNamed(ls, d.list)
  /\ Bindable(d) => Holding(ls, d.list, d.all)
  /\ d.what = "done" /\ d.list # "" /\ d.action # "rollback" =>
       Rule(d.list, d.action) \in ToSet(p)

StoresAreLists(ss, ls) ==
  /\ ss = [l \in ListNames |-> ss[l]]
  /\ \A l \in ListNames : IsList(ss[l])
  /\ IsList(ls)

EnforceInv ==
  /\ PolicyInv
  /\ StoresAreLists(snapshot, lists)
  /\ undisturbed \subseteq Operators
  /\ \A o \in undisturbed : InForce(doing[o], rpz, lists, policy)

LEMMA EmptyIsList == IsList(<<>>)
  <1> DEFINE e == <<>>
  <1>1. e \in Seq({})
    OBVIOUS
  <1> HIDE DEF e
  <1>2. IsList(e)
    BY <1>1, AnyListIsList
  <1>3. QED
    BY <1>2 DEF e


LEMMA EnforceInit == ASSUME enInit PROVE EnforceInv
  <1>1. snapshot = [l \in ListNames |-> <<>>] /\ lists = <<>> /\ undisturbed = {}
    BY DEF enInit, NoDirectives
  <1>2. StoresAreLists(snapshot, lists)
    BY <1>1, EmptyIsList DEF StoresAreLists
  <1>3. QED
    BY <1>1, <1>2, PolicyInit DEF EnforceInv

(* A step of one operator, that disturbs everybody else or no store.       *)
Steps(o, d) ==
  /\ doing' = [doing EXCEPT ![o] = d]
  /\ undisturbed' \subseteq undisturbed \cup {o}
  /\ undisturbed' \subseteq {o} \/ UNCHANGED <<rpz, lists, policy>>
  /\ o \in undisturbed' => InForce(d, rpz', lists', policy')
  /\ StoresAreLists(snapshot', lists')

LEMMA OneSteps ==
  ASSUME EnforceInv, PolicyInv', NEW o \in Operators, NEW d, Steps(o, d)
  PROVE  EnforceInv'
  <1>1. \A x \in Operators : doing'[x] = IF x = o THEN d ELSE doing[x]
    BY DEF EnforceInv, PolicyInv, Steps
  <1>2. undisturbed' \subseteq Operators
    BY DEF EnforceInv, Steps
  <1>3. ASSUME NEW x \in undisturbed' PROVE InForce(doing'[x], rpz', lists', policy')
    <2>1. CASE x = o
      BY <1>1, <1>3, <2>1 DEF Steps
    <2>2. CASE x # o
      <3>1. x \in undisturbed /\ UNCHANGED <<rpz, lists, policy>>
        BY <1>3, <2>2 DEF Steps
      <3>2. doing'[x] = doing[x]
        BY <1>1, <1>2, <1>3, <2>2
      <3>3. QED
        BY <3>1, <3>2 DEF EnforceInv
    <2>3. QED
      BY <2>1, <2>2
  <1>4. StoresAreLists(snapshot', lists')
    BY DEF Steps
  <1>5. QED
    BY <1>2, <1>3, <1>4 DEF EnforceInv

(* One more directive is put.                                              *)
LEMMA PutSettles ==
  ASSUME NEW all, NEW k \in Nat, NEW zone, Settled(all, k, zone)
  PROVE  Settled(all, k + 1, Stored(zone, all[k + 1]))
  <1> DEFINE new == all[k + 1]
             after == Stored(zone, new)
  <1>1. /\ DOMAIN after = DOMAIN zone \cup {new.owner}
        /\ after[new.owner] = Canonical(new.action)
        /\ \A w \in DOMAIN zone : w # new.owner => after[w] = zone[w]
    BY DEF Stored
  <1> HIDE DEF after
  <1>2. ASSUME NEW i \in 1 .. k + 1
        PROVE  \E j \in 1 .. k + 1 :
                 /\ LastUpTo(all, k + 1, all[i].owner, j)
                 /\ all[i].owner \in DOMAIN after
                 /\ after[all[i].owner] = Canonical(all[j].action)
    <2>1. CASE all[i].owner = new.owner
      <3>1. k + 1 \in 1 .. k + 1 /\ \A m \in 1 .. k + 1 : m <= k + 1
        OBVIOUS
      <3>2. LastUpTo(all, k + 1, all[i].owner, k + 1)
        BY <2>1, <3>1 DEF LastUpTo
      <3>3. QED
        BY <1>1, <2>1, <3>1, <3>2
    <2>2. CASE all[i].owner # new.owner
      <3>1. i # k + 1
        BY <2>2
      <3>2. i \in 1 .. k
        BY <3>1
      <3>3. PICK j \in 1 .. k :
              /\ LastUpTo(all, k, all[i].owner, j)
              /\ all[i].owner \in DOMAIN zone /\ zone[all[i].owner] = Canonical(all[j].action)
        BY <3>2 DEF Settled
      <3>4. j \in 1 .. k + 1 /\ \A m \in 1 .. k + 1 : m \in 1 .. k \/ m = k + 1
        OBVIOUS
      <3>5. LastUpTo(all, k + 1, all[i].owner, j)
        BY <2>2, <3>3, <3>4 DEF LastUpTo
      <3>6. QED
        BY <1>1, <2>2, <3>3, <3>4, <3>5
    <2>3. QED
      BY <2>1, <2>2
  <1>3. Settled(all, k + 1, after)
    BY <1>2 DEF Settled
  <1>4. QED
    BY <1>3 DEF after

(* The head of what is left is the next directive, its tail what follows.  *)
LEMMA NextLeft ==
  ASSUME NEW left, NEW all, NEW k \in 0 .. Len(all), IsList(left), IsList(all), left # <<>>,
         Remaining(left, all, k)
  PROVE  /\ Head(left) = all[k + 1] /\ k + 1 \in 0 .. Len(all)
         /\ IsList(Tail(left)) /\ Remaining(Tail(left), all, k + 1)
  <1>r. Len(left) = Len(all) - k /\ \A i \in 1 .. Len(left) : left[i] = all[k + i]
    BY DEF Remaining
  <1>1. Len(left) \in Nat /\ left \in Seq(ToSet(left)) /\ Len(all) \in Nat
    BY ListHasLength
  <1>2. /\ Tail(left) \in Seq(ToSet(left)) /\ Len(Tail(left)) = Len(left) - 1
        /\ Head(left) = left[1] /\ Len(left) >= 1
        /\ \A i \in 1 .. Len(left) - 1 : Tail(left)[i] = left[i + 1]
    BY <1>1, HeadTailProperties, EmptySeq
  <1>3. k \in Nat /\ 1 \in 1 .. Len(left)
    BY <1>1, <1>2
  <1>4. Head(left) = all[k + 1]
    BY <1>r, <1>2, <1>3
  <1>5. IsList(Tail(left))
    BY <1>2, AnyListIsList
  <1>6. k + 1 \in 0 .. Len(all) /\ Len(Tail(left)) = Len(all) - (k + 1)
    BY <1>r, <1>1, <1>2, <1>3
  <1>7. ASSUME NEW i \in 1 .. Len(Tail(left)) PROVE Tail(left)[i] = all[(k + 1) + i]
    <2>1. i \in 1 .. Len(left) - 1 /\ i + 1 \in 1 .. Len(left) /\ k + (i + 1) = (k + 1) + i
      BY <1>1, <1>2, <1>3
    <2>2. QED
      BY <1>r, <1>2, <2>1
  <1>8. QED
    BY <1>4, <1>5, <1>6, <1>7 DEF Remaining

(* The first list of a name after it is replaced or added.                 *)
LEMMA FirstNamedIs ==
  ASSUME NEW ls, IsList(ls), NEW name
  PROVE  \/ /\ FirstNamed(ls, name) = 0
            /\ \A i \in DOMAIN ls : ls[i].name # name
         \/ /\ FirstNamed(ls, name) \in DOMAIN ls
            /\ ls[FirstNamed(ls, name)].name = name
            /\ \A i \in DOMAIN ls : ls[i].name = name => FirstNamed(ls, name) <= i
  <1> DEFINE at == {i \in DOMAIN ls : ls[i].name = name}
  <1>1. FirstNamed(ls, name) = IF at = {} THEN 0 ELSE CHOOSE i \in at : \A j \in at : i <= j
    BY DEF FirstNamed
  <1>2. CASE at = {}
    BY <1>1, <1>2
  <1>3. CASE at # {}
    <2>1. Len(ls) \in Nat /\ DOMAIN ls = 1 .. Len(ls)
      BY ListHasLength
    <2>2. at \subseteq Nat
      BY <2>1
    <2>3. PICK first \in at : \A j \in at : first <= j
      BY <1>3, <2>2, LeastNat
    <2> DEFINE m == CHOOSE i \in at : \A j \in at : i <= j
    <2>4. m \in at /\ \A j \in at : m <= j
      BY <2>3
    <2>5. FirstNamed(ls, name) = m
      BY <1>1, <1>3
    <2>6. QED
      BY <2>4, <2>5
  <1>4. QED
    BY <1>2, <1>3

LEMMA OnlyFirstNamed ==
  ASSUME NEW ls, IsList(ls), NEW name, NEW k \in DOMAIN ls, ls[k].name = name,
         \A i \in DOMAIN ls : ls[i].name = name => k <= i
  PROVE  FirstNamed(ls, name) = k
  <1>1. Len(ls) \in Nat /\ DOMAIN ls = 1 .. Len(ls)
    BY ListHasLength
  <1>2. /\ FirstNamed(ls, name) \in DOMAIN ls
        /\ ls[FirstNamed(ls, name)].name = name
        /\ \A i \in DOMAIN ls : ls[i].name = name => FirstNamed(ls, name) <= i
    BY FirstNamedIs
  <1>3. FirstNamed(ls, name) <= k /\ k <= FirstNamed(ls, name)
    BY <1>2
  <1>4. QED
    BY <1>1, <1>2, <1>3

LEMMA WrittenIsHeld ==
  ASSUME NEW ls, IsList(ls), NEW name, NEW all, NEW after,
         after = IF FirstNamed(ls, name) = 0 THEN Append(ls, List(name, Listed(all)))
                 ELSE [ls EXCEPT ![FirstNamed(ls, name)] = List(name, Listed(all))]
  PROVE  Holding(after, name, all)
  <1> DEFINE new == List(name, Listed(all))
             first == FirstNamed(ls, name)
  <1>1. Len(ls) \in Nat /\ DOMAIN ls = 1 .. Len(ls) /\ ls \in Seq(ToSet(ls))
    BY ListHasLength
  <1>n. new.name = name /\ new.items = Listed(all)
    BY DEF List
  <1>2. \/ first = 0 /\ \A i \in DOMAIN ls : ls[i].name # name
        \/ /\ first \in DOMAIN ls
           /\ \A i \in DOMAIN ls : ls[i].name = name => first <= i
    BY FirstNamedIs
  <1>a. after = IF first = 0 THEN Append(ls, new) ELSE [ls EXCEPT ![first] = new]
    OBVIOUS
  <1> HIDE DEF new, first
  <1>3. CASE first = 0
    <2>1. IsList(after) /\ after = Append(ls, new)
      BY <1>3, <1>a, AppendIsList
    <2>2. /\ Len(after) = Len(ls) + 1
          /\ \A i \in 1 .. Len(ls) : after[i] = ls[i]
          /\ after[Len(ls) + 1] = new
      <3> DEFINE V == ToSet(ls) \cup {new}
      <3>1. new \in V /\ ls \in Seq(V)
        BY <1>1, SeqDef
      <3> HIDE DEF V
      <3>2. QED
        BY <2>1, <3>1, AppendProperties
    <2>3. DOMAIN after = 1 .. Len(ls) + 1
      BY <2>1, <2>2, ListHasLength
    <2> DEFINE k == Len(ls) + 1
    <2>4. k \in DOMAIN after /\ after[k].name = name
      BY <1>1, <1>n, <2>2, <2>3
    <2>5. \A i \in DOMAIN after : after[i].name = name => k <= i
      BY <1>1, <1>2, <1>3, <2>2, <2>3
    <2>6. FirstNamed(after, name) = k
      BY <2>1, <2>4, <2>5, OnlyFirstNamed
    <2>7. QED
      BY <1>1, <1>n, <2>2, <2>6 DEF Holding
  <1>4. CASE first # 0
    <2>1. first \in DOMAIN ls /\ \A i \in DOMAIN ls : ls[i].name = name => first <= i
      BY <1>2, <1>4
    <2>2. /\ after = [ls EXCEPT ![first] = new] /\ DOMAIN after = 1 .. Len(ls)
          /\ after[first] = new /\ \A i \in DOMAIN ls : i # first => after[i] = ls[i]
      BY <1>1, <1>4, <1>a, <2>1
    <2>3. after = [i \in 1 .. Len(ls) |-> after[i]]
      BY <1>1, <2>2
    <2>4. IsList(after)
      BY <1>1, <2>2, <2>3, FunctionIsList
    <2>5. \A i \in DOMAIN after : after[i].name = name => first <= i
      BY <1>1, <2>1, <2>2
    <2>6. FirstNamed(after, name) = first
      BY <1>1, <1>n, <2>1, <2>2, <2>4, <2>5, OnlyFirstNamed
    <2>7. QED
      BY <1>4, <1>n, <2>2, <2>6 DEF Holding
  <1>5. QED
    BY <1>3, <1>4

(* Writing any list of the lists leaves lists.                             *)
LEMMA ReplacedIsList ==
  ASSUME NEW ls, IsList(ls), NEW k, NEW new
  PROVE  IsList([ls EXCEPT ![k] = new])
  <1> DEFINE after == [ls EXCEPT ![k] = new]
  <1>1. Len(ls) \in Nat /\ DOMAIN ls = 1 .. Len(ls)
    BY ListHasLength
  <1>2. DOMAIN after = 1 .. Len(ls) /\ after = [i \in 1 .. Len(ls) |-> after[i]]
    BY <1>1
  <1> HIDE DEF after
  <1>3. IsList(after)
    BY <1>1, <1>2, FunctionIsList
  <1>4. QED
    BY <1>3 DEF after

LEMMA StepsQuietly ==
  ASSUME EnforceInv, PolicyInv', NEW o \in Operators, NEW d, doing' = [doing EXCEPT ![o] = d],
         UNCHANGED <<rpz, snapshot, lists, policy, undisturbed>>,
         o \in undisturbed => InForce(d, rpz, lists, policy)
  PROVE  EnforceInv'
  <1>1. Steps(o, d)
    BY DEF Steps, EnforceInv
  <1>2. QED
    BY <1>1, OneSteps

LEMMA StepsAtFirst ==
  ASSUME EnforceInv, PolicyInv', NEW o \in Operators, NEW d, Begin(o, d),
         \A zone, ls, p : InForce(d, zone, ls, p), StoresAreLists(snapshot', lists)
  PROVE  EnforceInv'
  <1>1. /\ doing' = [doing EXCEPT ![o] = d] /\ UNCHANGED <<rpz, lists, policy>>
        /\ undisturbed' = undisturbed \cup {o}
    BY DEF Begin, To
  <1>2. Steps(o, d)
    BY <1>1 DEF Steps
  <1>3. QED
    BY <1>2, OneSteps

LEMMA SavedAreLists ==
  ASSUME EnforceInv, NEW list \in ListNames, NEW directives, IsList(directives)
  PROVE  StoresAreLists(Saved(list, directives), lists)
  BY DEF EnforceInv, StoresAreLists, Saved

LEMMA PushBegins ==
  ASSUME NEW all, IsList(all)
  PROVE  \A zone, ls, p :
           InForce([Idle EXCEPT !.what = "ensure", !.left = all, !.all = all], zone, ls, p)
  BY DEF InForce, Idle, OnZone, Bindable

LEMMA ListBegins ==
  ASSUME NEW all, IsList(all), NEW list \in ListNames, NEW action
  PROVE  \A zone, ls, p :
           InForce([Idle EXCEPT !.what = "lists", !.all = all, !.list = list, !.action = action],
                   zone, ls, p)
  BY DEF InForce, Idle, OnZone, Bindable

LEMMA NothingIsInForce == \A zone, ls, p : InForce(Idle, zone, ls, p)
  BY DEF InForce, Idle, OnZone, Bindable

(* A record that was put, or refused, or failed.                           *)
LEMMA NextIsPushed ==
  ASSUME EnforceInv, NEW o \in undisturbed, doing[o].what \in {"look", "put"},
         doing[o].left # <<>>, NEW e \in {0, 1}, NEW zone,
         e = 0 => zone = Stored(rpz, Current(o)),
         NEW ls, NEW p
  PROVE  InForce(NextRecord(o, e), zone, ls, p)
  <1> DEFINE d == NextRecord(o, e)
             all == doing[o].all
             left == doing[o].left
  <1>1. o \in Operators /\ IsOperation(doing[o]) /\ InForce(doing[o], rpz, lists, policy)
    BY DEF EnforceInv, PolicyInv
  <1>2. /\ doing[o].list = "" /\ IsList(all) /\ IsList(left) /\ doing[o].errors \in Nat
    BY <1>1 DEF InForce, OnZone
  <1>3. PICK k \in 0 .. Len(all) : Pushed(doing[o], k, rpz)
    BY <1>1 DEF InForce
  <1>4. /\ d.what = "look" /\ d.left = Tail(left) /\ d.all = all /\ d.list = ""
        /\ d.errors = doing[o].errors + e
    BY <1>1, <1>2 DEF NextRecord, IsOperation, OperationFields
  <1>5. /\ Remaining(left, all, k)
        /\ doing[o].errors = 0 => Settled(all, k, rpz)
    BY <1>3 DEF Pushed
  <1>c. Current(o) = Head(left)
    BY DEF Current
  <1>n. left # <<>>
    OBVIOUS
  <1> HIDE DEF d, all, left
  <1>6. /\ Head(left) = all[k + 1] /\ k + 1 \in 0 .. Len(all)
        /\ IsList(Tail(left)) /\ Remaining(Tail(left), all, k + 1)
    BY <1>2, <1>3, <1>5, <1>n, NextLeft
  <1>7. d.errors \in Nat /\ (d.errors = 0 => doing[o].errors = 0 /\ e = 0)
    <2>1. doing[o].errors \in Nat /\ d.errors = doing[o].errors + e
      BY <1>2, <1>4
    <2> DEFINE were == doing[o].errors
               are == d.errors
    <2>2. were \in Nat /\ are = were + e
      BY <2>1
    <2> HIDE DEF were, are
    <2>3. are \in Nat /\ (are = 0 => were = 0 /\ e = 0)
      BY <2>2
    <2>4. QED
      BY <2>3 DEF were, are
  <1>8. d.errors = 0 => Settled(all, k + 1, zone)
    <2>1. Len(all) \in Nat
      BY <1>2, ListHasLength
    <2>2. k \in Nat
      BY <1>3, <2>1
    <2>3. Settled(all, k, rpz) => Settled(all, k + 1, Stored(rpz, all[k + 1]))
      BY <2>2, PutSettles
    <2>4. QED
      BY <1>5, <1>6, <1>7, <1>c, <2>3
  <1>9. Pushed(d, k + 1, zone)
    BY <1>4, <1>6, <1>8 DEF Pushed
  <1>10. InForce(d, zone, ls, p)
    <2>1. \E n \in 0 .. Len(d.all) : Pushed(d, n, zone)
      BY <1>4, <1>6, <1>9
    <2>2. QED
      BY <1>2, <1>4, <1>6, <1>7, <2>1 DEF InForce, OnZone, Bindable
  <1>11. QED
    BY <1>10 DEF d

LEMMA NiosEnforces ==
  ASSUME EnforceInv, enNiosNext
  PROVE  EnforceInv'
  <1>1. PICK o \in Operators :
          \/ \E doc \in Documents, saves \in BOOLEAN : StartNios(o, doc, saves)
          \/ RollbackNios(o)
          \/ EnsureZone(o)
          \/ LookRecord(o)
          \/ PutRecord(o)
          \/ RecordFails(o)
          \/ PushEnds(o)
          \/ \E w \in DOMAIN rpz : DeleteRecord(o, w)
          \/ RequestFails(o)
    BY DEF enNiosNext
  <1>2. PolicyInv'
    BY NiosHolds DEF EnforceInv
  <1>3. /\ IsOperation(doing[o]) /\ StoresAreLists(snapshot, lists)
        /\ o \in undisturbed => InForce(doing[o], rpz, lists, policy)
    BY DEF EnforceInv, PolicyInv
  <1>4. CASE \E doc \in Documents, saves \in BOOLEAN : StartNios(o, doc, saves)
    <2>1. PICK doc \in Documents, saves \in BOOLEAN : StartNios(o, doc, saves)
      BY <1>4
    <2> DEFINE all == Compiled(doc, FALSE)
               d == [Idle EXCEPT !.what = "ensure", !.left = all, !.all = all]
    <2>2. Begin(o, d) /\ (snapshot' = Saved(NiosList, all) \/ snapshot' = snapshot)
      BY <2>1 DEF StartNios
    <2>3. IsList(all)
      BY CompiledIsList, EnforcementAssumption
    <2> HIDE DEF all
    <2>4. \A zone, ls, p : InForce(d, zone, ls, p)
      BY <2>3, PushBegins
    <2>5. StoresAreLists(snapshot', lists)
      BY <1>3, <2>2, <2>3, SavedAreLists, EnforcementAssumption
    <2> HIDE DEF d
    <2>6. QED
      BY <1>2, <2>2, <2>4, <2>5, StepsAtFirst
  <1>5. CASE RollbackNios(o)
    <2> DEFINE all == Latest(NiosList)
               d == [Idle EXCEPT !.what = "ensure", !.left = all, !.all = all]
    <2>2. Begin(o, d) /\ snapshot' = snapshot
      BY <1>5 DEF RollbackNios
    <2>3. IsList(all)
      BY <1>3, EnforcementAssumption DEF StoresAreLists, Latest
    <2> HIDE DEF all
    <2>4. \A zone, ls, p : InForce(d, zone, ls, p)
      BY <2>3, PushBegins
    <2> HIDE DEF d
    <2>6. QED
      BY <1>2, <1>3, <2>2, <2>4, StepsAtFirst
  <1>6. CASE EnsureZone(o)
    <2> DEFINE d == [doing[o] EXCEPT !.what = "look"]
    <2>1. /\ doing' = [doing EXCEPT ![o] = d] /\ doing[o].what = "ensure"
          /\ UNCHANGED <<rpz, snapshot, lists, policy, undisturbed>>
      BY <1>6 DEF EnsureZone, To, Keep
    <2>2. /\ d.what = "look" /\ d.left = doing[o].left /\ d.all = doing[o].all
          /\ d.list = doing[o].list /\ d.errors = doing[o].errors
      BY <1>3 DEF IsOperation, OperationFields
    <2> HIDE DEF d
    <2>3. ASSUME o \in undisturbed PROVE InForce(d, rpz, lists, policy)
      <3>1. /\ d.list = "" /\ IsList(d.all) /\ IsList(d.left) /\ d.errors \in Nat
            /\ d.left = d.all
        BY <1>3, <2>1, <2>2, <2>3 DEF InForce, OnZone
      <3>2. Len(d.all) \in Nat
        BY <3>1, ListHasLength
      <3>a. Settled(d.all, 0, rpz)
        BY DEF Settled
      <3>b. Remaining(d.left, d.all, 0)
        <4> DEFINE all == d.all
        <4>1. d.left = all /\ Len(all) \in Nat
          BY <3>1, <3>2
        <4> HIDE DEF all
        <4>2. Len(all) = Len(all) - 0 /\ \A i \in 1 .. Len(all) : 0 + i = i
          BY <4>1
        <4>3. Remaining(all, all, 0)
          BY <4>2 DEF Remaining
        <4>4. QED
          BY <4>1, <4>3 DEF all
      <3>c. 0 \in 0 .. Len(d.all)
        BY <3>2
      <3>3. Pushed(d, 0, rpz)
        BY <3>a, <3>b, <3>c DEF Pushed
      <3>4. QED
        BY <2>2, <3>1, <3>3, <3>c DEF InForce, OnZone, Bindable
    <2>4. QED
      BY <1>2, <2>1, <2>3, StepsQuietly
  <1>7. CASE LookRecord(o)
    <2> DEFINE d == [doing[o] EXCEPT !.what = "put",
                            !.found = IF Current(o).owner \in DOMAIN rpz THEN 1 ELSE 0]
    <2>1. /\ doing' = [doing EXCEPT ![o] = d] /\ doing[o].what = "look" /\ doing[o].left # <<>>
          /\ UNCHANGED <<rpz, snapshot, lists, policy, undisturbed>>
      BY <1>7 DEF LookRecord, To, Keep, StoresSame
    <2>2. /\ d.what = "put" /\ d.left = doing[o].left /\ d.all = doing[o].all
          /\ d.list = doing[o].list /\ d.errors = doing[o].errors
      BY <1>3 DEF IsOperation, OperationFields
    <2> HIDE DEF d
    <2>3. ASSUME o \in undisturbed PROVE InForce(d, rpz, lists, policy)
      <3>1. /\ d.list = "" /\ IsList(d.all) /\ IsList(d.left) /\ d.errors \in Nat
            /\ \E k \in 0 .. Len(d.all) : Pushed(doing[o], k, rpz)
        BY <1>3, <2>1, <2>2, <2>3 DEF InForce, OnZone
      <3>2. \A k : Pushed(doing[o], k, rpz) => Pushed(d, k, rpz)
        BY <2>2 DEF Pushed
      <3>3. QED
        BY <2>1, <2>2, <3>1, <3>2 DEF InForce, OnZone, Bindable
    <2>4. QED
      BY <1>2, <2>1, <2>3, StepsQuietly
  <1>8. CASE PutRecord(o)
    <2>1. doing[o].what = "put" /\ UNCHANGED <<snapshot, lists, policy>>
      BY <1>8 DEF PutRecord
    <2>2. CASE (Current(o).owner \in DOMAIN rpz) = (doing[o].found = 1)
      <3> DEFINE d == NextRecord(o, 0)
      <3>1. /\ doing' = [doing EXCEPT ![o] = d] /\ rpz' = Stored(rpz, Current(o))
            /\ undisturbed' = undisturbed \cap {o}
        BY <1>8, <2>2 DEF PutRecord, To, Disturbs
      <3>2. ASSUME o \in undisturbed PROVE InForce(d, rpz', lists', policy')
        <4>1. doing[o].left # <<>>
          BY <1>3, <2>1, <3>2 DEF InForce
        <4>2. QED
          BY <2>1, <3>1, <3>2, <4>1, NextIsPushed
      <3> HIDE DEF d
      <3>3. Steps(o, d)
        BY <1>3, <2>1, <3>1, <3>2 DEF Steps
      <3>4. QED
        BY <1>2, <3>3, OneSteps
    <2>3. CASE (Current(o).owner \in DOMAIN rpz) # (doing[o].found = 1)
      <3> DEFINE d == NextRecord(o, 1)
      <3>1. /\ doing' = [doing EXCEPT ![o] = d] /\ rpz' = rpz /\ undisturbed' = undisturbed
        BY <1>8, <2>3 DEF PutRecord, To, Keep
      <3>2. ASSUME o \in undisturbed PROVE InForce(d, rpz, lists, policy)
        <4>1. doing[o].left # <<>>
          BY <1>3, <2>1, <3>2 DEF InForce
        <4>2. QED
          BY <2>1, <3>2, <4>1, NextIsPushed
      <3> HIDE DEF d
      <3>3. QED
        BY <1>2, <2>1, <3>1, <3>2, StepsQuietly
    <2>4. QED
      BY <2>2, <2>3
  <1>9. CASE RecordFails(o)
    <2> DEFINE d == NextRecord(o, 1)
    <2>1. /\ doing' = [doing EXCEPT ![o] = d]
          /\ doing[o].what \in {"look", "put"} /\ doing[o].left # <<>>
          /\ UNCHANGED <<rpz, snapshot, lists, policy, undisturbed>>
      BY <1>9 DEF RecordFails, To, Counted, StoresSame, Keep
    <2>2. ASSUME o \in undisturbed PROVE InForce(d, rpz, lists, policy)
      BY <2>1, <2>2, NextIsPushed
    <2> HIDE DEF d
    <2>3. QED
      BY <1>2, <2>1, <2>2, StepsQuietly
  <1>10. CASE PushEnds(o)
    <2> DEFINE d == [doing[o] EXCEPT !.what = "done"]
    <2>1. /\ doing' = [doing EXCEPT ![o] = d] /\ doing[o].what = "look" /\ doing[o].left = <<>>
          /\ UNCHANGED <<rpz, snapshot, lists, policy, undisturbed>>
      BY <1>10 DEF PushEnds, To, StoresSame, Keep
    <2>2. /\ d.what = "done" /\ d.left = doing[o].left /\ d.all = doing[o].all
          /\ d.list = doing[o].list /\ d.errors = doing[o].errors
      BY <1>3 DEF IsOperation, OperationFields
    <2> HIDE DEF d
    <2>3. ASSUME o \in undisturbed PROVE InForce(d, rpz, lists, policy)
      <3>1. d.list = "" /\ IsList(d.all)
        BY <1>3, <2>1, <2>2, <2>3 DEF InForce, OnZone
      <3>2. PICK k \in 0 .. Len(d.all) : Pushed(doing[o], k, rpz)
        BY <1>3, <2>1, <2>2, <2>3 DEF InForce
      <3>3. Len(d.all) \in Nat /\ Len(doing[o].left) = 0
        BY <2>1, <3>1, ListHasLength
      <3>4. k = Len(d.all)
        <4>1. Remaining(doing[o].left, d.all, k) /\ k \in 0 .. Len(d.all)
          BY <2>2, <3>2 DEF Pushed
        <4> DEFINE n == Len(d.all)
        <4>2. 0 = n - k /\ n \in Nat /\ k \in 0 .. n
          BY <3>3, <4>1 DEF Remaining
        <4> HIDE DEF n
        <4>3. k = n
          BY <4>2
        <4>4. QED
          BY <4>3 DEF n
      <3>5. d.errors = 0 => Settled(d.all, Len(d.all), rpz)
        BY <2>2, <3>2, <3>4 DEF Pushed
      <3>6. QED
        BY <2>2, <3>1, <3>5 DEF InForce, OnZone, Bindable
    <2>4. QED
      BY <1>2, <2>1, <2>3, StepsQuietly
  <1>11. CASE \E w \in DOMAIN rpz : DeleteRecord(o, w)
    <2>1. /\ doing[o].what = "idle" /\ undisturbed' = undisturbed \cap {o}
          /\ UNCHANGED <<doing, snapshot, lists, policy>>
      BY <1>11 DEF DeleteRecord, Disturbs
    <2>2. InForce(doing[o], rpz', lists', policy')
      BY <2>1 DEF InForce, OnZone, Bindable
    <2>3. QED
      BY <1>2, <2>1, <2>2 DEF EnforceInv
  <1>12. CASE RequestFails(o)
    <2>1. /\ doing' = [doing EXCEPT ![o] = Idle]
          /\ UNCHANGED <<rpz, snapshot, lists, policy, undisturbed>>
      BY <1>12 DEF RequestFails, To, StoresSame, Keep
    <2>2. QED
      BY <1>2, <2>1, NothingIsInForce, StepsQuietly
  <1>13. QED
    BY <1>1, <1>4, <1>5, <1>6, <1>7, <1>8, <1>9, <1>10, <1>11, <1>12

LEMMA TdEnforces ==
  ASSUME EnforceInv, enTdNext
  PROVE  EnforceInv'
  <1>1. PICK o \in Operators :
          \/ \E list \in ListNames, doc \in Documents, action \in Actions, saves \in BOOLEAN :
               StartTd(o, doc, list, action, saves)
          \/ \E list \in ListNames : RollbackTd(o, list)
          \/ \E list \in ListNames : Unbind(o, list)
          \/ ReadLists(o)
          \/ WriteList(o)
          \/ ReadPolicy(o)
          \/ WritePolicy(o)
          \/ ReadForUnbind(o)
          \/ WriteUnbound(o)
          \/ RequestFails(o)
    BY DEF enTdNext
  <1>2. PolicyInv'
    BY TdHolds DEF EnforceInv
  <1>3. /\ IsOperation(doing[o]) /\ StoresAreLists(snapshot, lists) /\ IsList(lists)
        /\ ReadWhole(doing[o], policy, version, bound)
        /\ o \in undisturbed => InForce(doing[o], rpz, lists, policy)
    BY DEF EnforceInv, PolicyInv, StoresAreLists
  <1>n. doing[o].what \in OnLists => doing[o].list \in ListNames /\ doing[o].list # ""
    BY <1>3, EnforcementAssumption DEF IsOperation
  <1>4. CASE \E list \in ListNames, doc \in Documents, action \in Actions, saves \in BOOLEAN :
               StartTd(o, doc, list, action, saves)
    <2>1. PICK list \in ListNames, doc \in Documents, action \in Actions, saves \in BOOLEAN :
            StartTd(o, doc, list, action, saves)
      BY <1>4
    <2> DEFINE all == Compiled(doc, FALSE)
               d == [Idle EXCEPT !.what = "lists", !.all = all, !.list = list, !.action = action]
    <2>2. Begin(o, d) /\ (snapshot' = Saved(list, all) \/ snapshot' = snapshot)
      BY <2>1 DEF StartTd
    <2>3. IsList(all)
      BY CompiledIsList, EnforcementAssumption
    <2> HIDE DEF all
    <2>4. \A zone, ls, p : InForce(d, zone, ls, p)
      BY <2>3, ListBegins
    <2>5. StoresAreLists(snapshot', lists)
      BY <1>3, <2>2, <2>3, SavedAreLists
    <2> HIDE DEF d
    <2>6. QED
      BY <1>2, <2>2, <2>4, <2>5, StepsAtFirst
  <1>5. CASE \E list \in ListNames : RollbackTd(o, list)
    <2>1. PICK list \in ListNames : RollbackTd(o, list)
      BY <1>5
    <2> DEFINE all == Latest(list)
               d == [Idle EXCEPT !.what = "lists", !.all = all, !.list = list,
                                 !.action = "rollback"]
    <2>2. Begin(o, d) /\ snapshot' = snapshot
      BY <2>1 DEF RollbackTd
    <2>3. IsList(all)
      BY <1>3 DEF StoresAreLists, Latest
    <2> HIDE DEF all
    <2>4. \A zone, ls, p : InForce(d, zone, ls, p)
      BY <2>3, ListBegins
    <2> HIDE DEF d
    <2>5. QED
      BY <1>2, <1>3, <2>2, <2>4, StepsAtFirst
  <1>6. CASE \E list \in ListNames : Unbind(o, list)
    <2>1. PICK list \in ListNames : Unbind(o, list)
      BY <1>6
    <2> DEFINE d == [Idle EXCEPT !.what = "unbind", !.list = list, !.action = "unbind"]
    <2>2. Begin(o, d) /\ snapshot' = snapshot
      BY <2>1 DEF Unbind
    <2>3. \A zone, ls, p : InForce(d, zone, ls, p)
      BY DEF InForce, Idle, OnZone, Bindable
    <2> HIDE DEF d
    <2>4. QED
      BY <1>2, <1>3, <2>2, <2>3, StepsAtFirst
  <1>7. CASE ReadLists(o)
    <2> DEFINE d == [doing[o] EXCEPT !.what = "list", !.found = FirstOf(doing[o].list)]
    <2>1. /\ doing' = [doing EXCEPT ![o] = d]
          /\ UNCHANGED <<rpz, snapshot, lists, policy, undisturbed>>
      BY <1>7 DEF ReadLists, To, StoresSame, Keep
    <2>a. /\ d.what = "list" /\ d.list = doing[o].list
          /\ d.found = FirstOf(doing[o].list)
      BY <1>3 DEF IsOperation, OperationFields
    <2>b. FirstOf(doing[o].list) = FirstNamed(lists, doing[o].list)
      BY DEF FirstOf, FirstNamed
    <2>2. d.what = "list" /\ d.list = doing[o].list /\ d.found = FirstNamed(lists, d.list)
      BY <2>a, <2>b
    <2> HIDE DEF d
    <2>3. InForce(d, rpz, lists, policy)
      BY <2>2 DEF InForce, OnZone, Bindable
    <2>4. QED
      BY <1>2, <2>1, <2>3, StepsQuietly
  <1>8. CASE WriteList(o)
    <2> DEFINE d == [doing[o] EXCEPT !.what = IF doing[o].action = "rollback" THEN "done"
                                              ELSE "policy"]
               new == List(doing[o].list, Listed(doing[o].all))
    <2>1. /\ doing' = [doing EXCEPT ![o] = d] /\ doing[o].what = "list"
          /\ lists' = IF doing[o].found = 0 THEN Append(lists, new)
                      ELSE [lists EXCEPT ![doing[o].found] = new]
          /\ undisturbed' = undisturbed \cap {o}
          /\ UNCHANGED <<rpz, snapshot, policy>>
      BY <1>8 DEF WriteList, To, Disturbs
    <2>2. /\ d.what \in {"done", "policy"} /\ (d.what = "done" => d.action = "rollback")
          /\ d.list = doing[o].list /\ d.all = doing[o].all
      BY <1>3 DEF IsOperation, OperationFields
    <2> HIDE DEF d
    <2>3. ASSUME o \in undisturbed PROVE InForce(d, rpz', lists', policy')
      <3>1. doing[o].found = FirstNamed(lists, doing[o].list)
        BY <1>3, <2>1, <2>3 DEF InForce
      <3>2. Holding(lists', doing[o].list, doing[o].all)
        BY <1>3, <2>1, <3>1, WrittenIsHeld
      <3>3. d.list # ""
        BY <1>n, <2>1, <2>2 DEF OnLists
      <3>4. QED
        BY <2>2, <3>2, <3>3 DEF InForce, OnZone, Bindable
    <2>4. IsList(lists')
      <3>1. IsList(Append(lists, new)) /\ IsList([lists EXCEPT ![doing[o].found] = new])
        BY <1>3, AppendIsList, ReplacedIsList
      <3>2. QED
        BY <2>1, <3>1
    <2>5. Steps(o, d)
      BY <1>3, <2>1, <2>3, <2>4 DEF Steps, StoresAreLists
    <2>6. QED
      BY <1>2, <2>5, OneSteps
  <1>9. CASE ReadPolicy(o)
    <2>1. /\ doing[o].what = "policy"
          /\ UNCHANGED <<rpz, snapshot, lists, policy, undisturbed>>
      BY <1>9 DEF ReadPolicy, Keep
    <2>2. o \in undisturbed => Holding(lists, doing[o].list, doing[o].all)
      BY <1>3, <2>1 DEF InForce, Bindable
    <2>3. doing[o].list # ""
      BY <1>n, <2>1 DEF OnLists
    <2>4. CASE Rule(doing[o].list, doing[o].action) \in ToSet(policy)
      <3> DEFINE d == [doing[o] EXCEPT !.what = "done"]
      <3>1. doing' = [doing EXCEPT ![o] = d]
        BY <1>9, <2>4 DEF ReadPolicy, To
      <3>2. /\ d.what = "done" /\ d.action = doing[o].action
            /\ d.list = doing[o].list /\ d.all = doing[o].all
        BY <1>3 DEF IsOperation, OperationFields
      <3> HIDE DEF d
      <3>3. o \in undisturbed => InForce(d, rpz, lists, policy)
        BY <2>2, <2>3, <2>4, <3>2 DEF InForce, OnZone, Bindable
      <3>4. QED
        BY <1>2, <2>1, <3>1, <3>3, StepsQuietly
    <2>5. CASE Rule(doing[o].list, doing[o].action) \notin ToSet(policy)
      <3> DEFINE d == [doing[o] EXCEPT !.what = "rules", !.read = policy, !.version = version]
      <3>1. doing' = [doing EXCEPT ![o] = d]
        BY <1>9, <2>5 DEF ReadPolicy, To
      <3>2. /\ d.what = "rules" /\ d.list = doing[o].list /\ d.all = doing[o].all
        BY <1>3 DEF IsOperation, OperationFields
      <3> HIDE DEF d
      <3>3. o \in undisturbed => InForce(d, rpz, lists, policy)
        BY <2>2, <3>2 DEF InForce, OnZone, Bindable
      <3>4. QED
        BY <1>2, <2>1, <3>1, <3>3, StepsQuietly
    <2>6. QED
      BY <2>4, <2>5
  <1>10. CASE WritePolicy(o)
    <2> DEFINE d == [doing[o] EXCEPT !.what = "done", !.read = <<>>]
    <2>1. /\ doing[o].what = "rules" /\ doing[o].action # "unbind"
          /\ policy' = Rebound(doing[o].read, doing[o].list, doing[o].action)
          /\ doing' = [doing EXCEPT ![o] = d] /\ undisturbed' = undisturbed \cap {o}
          /\ UNCHANGED <<rpz, snapshot, lists>>
      BY <1>10 DEF WritePolicy, To, Disturbs
    <2>2. /\ d.what = "done" /\ d.action = doing[o].action
          /\ d.list = doing[o].list /\ d.all = doing[o].all
      BY <1>3 DEF IsOperation, OperationFields
    <2> HIDE DEF d
    <2>3. ASSUME o \in undisturbed PROVE InForce(d, rpz', lists', policy')
      <3>1. Holding(lists, doing[o].list, doing[o].all)
        BY <1>3, <2>1, <2>3 DEF InForce, Bindable
      <3>2. /\ doing[o].list \in ListNames /\ doing[o].list # ""
            /\ Rule(doing[o].list, doing[o].action) \in Rules
            /\ doing[o].read \in Seq(Rules) /\ OneRuleEach(doing[o].read)
        BY <1>3, <1>n, <2>1 DEF IsOperation, OnLists, ReadWhole, Rule, Rules
      <3>3. Rule(doing[o].list, doing[o].action) \in ToSet(policy')
        BY <2>1, <3>2, ReboundIs
      <3>4. QED
        BY <2>1, <2>2, <3>1, <3>2, <3>3 DEF InForce, OnZone, Bindable
    <2>4. Steps(o, d)
      BY <1>3, <2>1, <2>3 DEF Steps
    <2>5. QED
      BY <1>2, <2>4, OneSteps
  <1>11. CASE ReadForUnbind(o)
    <2> DEFINE d == [doing[o] EXCEPT !.what = "rules", !.read = policy, !.version = version]
    <2>1. /\ doing' = [doing EXCEPT ![o] = d] \/ doing' = [doing EXCEPT ![o] = Idle]
          /\ doing[o].what = "unbind"
          /\ UNCHANGED <<rpz, snapshot, lists, policy, undisturbed>>
      BY <1>11 DEF ReadForUnbind, To, StoresSame, Keep
    <2>2. /\ d.what = "rules" /\ d.action = doing[o].action
      BY <1>3 DEF IsOperation, OperationFields
    <2> HIDE DEF d
    <2>3. CASE doing' = [doing EXCEPT ![o] = Idle]
      BY <1>2, <2>1, <2>3, NothingIsInForce, StepsQuietly
    <2>4. CASE doing' = [doing EXCEPT ![o] = d]
      <3>1. ASSUME o \in undisturbed PROVE InForce(d, rpz, lists, policy)
        <4>1. doing[o].action = "unbind"
          BY <1>3, <2>1, <3>1 DEF InForce
        <4>2. QED
          BY <2>2, <4>1 DEF InForce, OnZone, Bindable
      <3>2. QED
        BY <1>2, <2>1, <2>4, <3>1, StepsQuietly
    <2>5. QED
      BY <2>1, <2>3, <2>4
  <1>12. CASE WriteUnbound(o)
    <2>1. /\ doing' = [doing EXCEPT ![o] = Idle] /\ undisturbed' = undisturbed \cap {o}
          /\ UNCHANGED <<rpz, snapshot, lists>>
      BY <1>12 DEF WriteUnbound, To, Disturbs
    <2> DEFINE d == Idle
    <2>2. \A zone, ls, p : InForce(d, zone, ls, p)
      BY NothingIsInForce
    <2>3. doing' = [doing EXCEPT ![o] = d]
      BY <2>1
    <2> HIDE DEF d
    <2>4. Steps(o, d)
      BY <1>3, <2>1, <2>2, <2>3 DEF Steps
    <2>5. QED
      BY <1>2, <2>4, OneSteps
  <1>13. CASE RequestFails(o)
    <2>1. /\ doing' = [doing EXCEPT ![o] = Idle]
          /\ UNCHANGED <<rpz, snapshot, lists, policy, undisturbed>>
      BY <1>13 DEF RequestFails, To, StoresSame, Keep
    <2>2. QED
      BY <1>2, <2>1, NothingIsInForce, StepsQuietly
  <1>14. QED
    BY <1>1, <1>4, <1>5, <1>6, <1>7, <1>8, <1>9, <1>10, <1>11, <1>12, <1>13

LEMMA EnforceNext ==
  ASSUME EnforceInv, [enNiosNext \/ enTdNext]_enVars
  PROVE  EnforceInv'
  <1>1. CASE UNCHANGED enVars
    <2>1. PolicyInv'
      BY PolicyNext DEF EnforceInv
    <2>2. UNCHANGED <<doing, rpz, snapshot, lists, policy, undisturbed>>
      BY <1>1 DEF enVars
    <2>3. QED
      BY <2>1, <2>2 DEF EnforceInv
  <1>2. QED
    BY <1>1, NiosEnforces, TdEnforces

(* The last directive of an owner is the one the zone settled on.          *)
LEMMA LastForIs ==
  ASSUME NEW all, IsList(all), NEW w, NEW j, LastUpTo(all, Len(all), w, j)
  PROVE  LastFor(all, w) = all[j]
  <1> DEFINE at == {i \in DOMAIN all : all[i].owner = w}
             top == CHOOSE i \in at : \A m \in at : m <= i
  <1>1. Len(all) \in Nat /\ DOMAIN all = 1 .. Len(all)
    BY ListHasLength
  <1>2. j \in at /\ \A m \in at : m <= j
    BY <1>1 DEF LastUpTo
  <1>3. top \in at /\ \A m \in at : m <= top
    BY <1>2
  <1>4. top \in Int /\ j \in Int /\ top <= j /\ j <= top
    BY <1>1, <1>2, <1>3
  <1>5. top = j
    BY <1>4
  <1>6. LastFor(all, w) = all[top]
    BY DEF LastFor
  <1>7. QED
    BY <1>5, <1>6

LEMMA ReportedIsStored ==
  ASSUME EnforceInv, NEW o \in Operators, Reported(o)
  PROVE  IF doing[o].list = "" THEN InZone(o) ELSE InList(o)
  <1>1. InForce(doing[o], rpz, lists, policy) /\ doing[o].what = "done" /\ doing[o].errors = 0
    BY DEF Reported, EnforceInv
  <1>2. CASE doing[o].list = ""
    <2> DEFINE all == doing[o].all
    <2>1. IsList(all) /\ Settled(all, Len(all), rpz)
      BY <1>1, <1>2 DEF InForce
    <2> HIDE DEF all
    <2>2. Len(all) \in Nat /\ DOMAIN all = 1 .. Len(all)
      BY <2>1, ListHasLength
    <2>3. ASSUME NEW i \in DOMAIN all
          PROVE  /\ all[i].owner \in DOMAIN rpz
                 /\ rpz[all[i].owner] = Canonical(LastFor(all, all[i].owner).action)
      <3>1. PICK j \in 1 .. Len(all) :
              /\ LastUpTo(all, Len(all), all[i].owner, j)
              /\ all[i].owner \in DOMAIN rpz /\ rpz[all[i].owner] = Canonical(all[j].action)
        BY <2>1, <2>2 DEF Settled
      <3>2. LastFor(all, all[i].owner) = all[j]
        BY <2>1, <3>1, LastForIs
      <3>3. QED
        BY <3>1, <3>2
    <2>4. InZone(o)
      BY <2>3 DEF InZone, all
    <2>5. QED
      BY <1>2, <2>4
  <1>3. CASE doing[o].list # ""
    <2>1. /\ Holding(lists, doing[o].list, doing[o].all)
          /\ doing[o].action # "rollback" =>
               Rule(doing[o].list, doing[o].action) \in ToSet(policy)
      BY <1>1, <1>3 DEF InForce, Bindable
    <2>2. FirstOf(doing[o].list) = FirstNamed(lists, doing[o].list)
      BY DEF FirstOf, FirstNamed
    <2>3. InList(o)
      BY <2>1, <2>2 DEF InList, Holding
    <2>4. QED
      BY <1>3, <2>3
  <1>4. QED
    BY <1>2, <1>3

-----------------------------------------------------------------------------
(* Names and patterns.                                                     *)

(* Names from the root: of two that a third one begins with, the shorter   *)
(* begins the longer.                                                      *)
LEMMA PrefixIs ==
  ASSUME NEW s, NEW t, IsName(s), IsName(t)
  PROVE  IsPrefix(s, t) <=> Len(s) <= Len(t) /\ \A i \in 1 .. Len(s) : s[i] = t[i]
  <1>1. /\ Len(s) \in Nat /\ s \in Seq(ToSet(s)) /\ DOMAIN s = 1 .. Len(s)
        /\ Len(t) \in Nat /\ t \in Seq(ToSet(t)) /\ DOMAIN t = 1 .. Len(t)
    BY LenProperties DEF IsName
  <1>2. CASE Len(s) <= Len(t)
    <2> DEFINE a == SubSeq(s, 1, Len(s))  b == SubSeq(t, 1, Len(s))
    <2>1. /\ a \in Seq(ToSet(s)) /\ Len(a) = Len(s)
          /\ \A i \in 1 .. Len(s) : a[i] = s[i]
      <3>1. \A i \in 1 .. Len(s) : s[i] \in ToSet(s)
        BY <1>1 DEF ToSet
      <3>2. SubSeq(s, 1, Len(s)) = s
        BY <1>1, SubSeqFull
      <3> QED
        BY <1>1, <3>2
    <2>2. /\ b \in Seq(ToSet(t)) /\ Len(b) = Len(s)
          /\ \A i \in 1 .. Len(s) : b[i] = t[i]
      <3>1. \A i \in 1 .. Len(s) : t[i] \in ToSet(t)
        BY <1>1, <1>2 DEF ToSet
      <3>2. /\ SubSeq(t, 1, Len(s)) \in Seq(ToSet(t))
            /\ Len(SubSeq(t, 1, Len(s))) = IF 1 <= Len(s) THEN Len(s) - 1 + 1 ELSE 0
            /\ \A i \in 1 .. Len(s) - 1 + 1 : SubSeq(t, 1, Len(s))[i] = t[1 + i - 1]
        BY <1>1, <3>1, SubSeqProperties
      <3> QED
        BY <1>1, <3>2
    <2> HIDE DEF a, b
    <2>3. a = b <=> \A i \in 1 .. Len(s) : s[i] = t[i]
      <3>1. ASSUME \A i \in 1 .. Len(s) : s[i] = t[i] PROVE a = b
        <4>1. a \in Seq(ToSet(s) \cup ToSet(t)) /\ b \in Seq(ToSet(s) \cup ToSet(t))
          BY <2>1, <2>2, SeqMonotonic
        <4>2. Len(a) = Len(b) /\ \A i \in 1 .. Len(a) : a[i] = b[i]
          BY <2>1, <2>2, <3>1
        <4> QED
          BY <4>1, <4>2, SeqEqual
      <3> QED
        BY <2>1, <2>2, <3>1
    <2> QED
      BY <1>2, <2>3 DEF IsPrefix, a, b
  <1>3. CASE ~ (Len(s) <= Len(t))
    BY <1>3 DEF IsPrefix
  <1> QED
    BY <1>2, <1>3

LEMMA SameName ==
  ASSUME NEW s, NEW t, IsName(s), IsName(t), Len(s) = Len(t), \A i \in 1 .. Len(s) : s[i] = t[i]
  PROVE  s = t
  <1>1. s \in Seq(ToSet(s) \cup ToSet(t)) /\ t \in Seq(ToSet(s) \cup ToSet(t))
    BY SeqMonotonic DEF IsName
  <1> QED
    BY <1>1, SeqEqual

(* Of two patterns that one name fits, the closer lies inside the other.   *)
LEMMA CloserIsInside ==
  ASSUME NEW p, NEW q, IsPattern(p), IsPattern(q), NEW n, IsName(n),
         Matches(p, n), Matches(q, n),
         p.kind = "exact" \/ (q.kind # "exact" /\ Len(q.name) <= Len(p.name))
  PROVE  Inside(p, q) \/ (p = Everything /\ q.kind = "under" /\ Len(q.name) = 0)
  <1>1. CASE q = Everything
    <2>1. q.kind = "all"
      BY <1>1 DEF Everything
    <2> QED
      BY <2>1 DEF Inside
  <1>2. CASE q # Everything /\ p = Everything
    <2>1. p.kind = "all" /\ p.name = <<>> /\ Len(p.name) = 0
      BY <1>2 DEF Everything
    <2>2. IsName(q.name) /\ q \in {Exactly(q.name), Under(q.name)}
      BY <1>2 DEF IsPattern
    <2>3. q.kind \in {"exact", "under"}
      BY <2>2 DEF Exactly, Under
    <2>4. Len(q.name) \in Nat
      BY <2>2, LenProperties DEF IsName
    <2>5. q.kind # "exact" /\ Len(q.name) <= Len(p.name)
      BY <2>1
    <2>6. q.kind = "under"
      BY <2>3, <2>5
    <2>7. Len(q.name) = 0
      BY <2>1, <2>4, <2>5
    <2> QED
      BY <1>2, <2>6, <2>7
  <1>3. CASE q # Everything /\ p # Everything
    <2>1. /\ IsName(q.name) /\ q \in {Exactly(q.name), Under(q.name)}
          /\ IsName(p.name) /\ p \in {Exactly(p.name), Under(p.name)}
      BY <1>3 DEF IsPattern
    <2>2. q.kind \in {"exact", "under"} /\ p.kind \in {"exact", "under"}
      BY <2>1 DEF Exactly, Under
    <2>3. CASE p.kind = "exact" /\ q.kind = "exact"
      <3>1. n = p.name /\ n = q.name
        BY <2>3 DEF Matches
      <3>2. p = Exactly(p.name) /\ q = Exactly(q.name)
        BY <2>1, <2>3 DEF Exactly, Under
      <3> QED
        BY <3>1, <3>2 DEF Inside
    <2>4. CASE p.kind = "exact" /\ q.kind = "under"
      BY <2>4 DEF Matches, Inside
    <2>5. CASE p.kind = "under" /\ q.kind # "exact"
      <3>1. q.kind = "under" /\ Len(q.name) <= Len(p.name)
        BY <2>2, <2>5
      <3>2. IsPrefix(p.name, n) /\ IsPrefix(q.name, n)
        BY <2>5, <3>1 DEF Matches, IsStrictPrefix
      <3>3. /\ \A i \in 1 .. Len(p.name) : p.name[i] = n[i]
            /\ \A i \in 1 .. Len(q.name) : q.name[i] = n[i]
        BY <2>1, <3>2, PrefixIs
      <3>4. Len(p.name) \in Nat /\ Len(q.name) \in Nat
        BY <2>1, LenProperties DEF IsName
      <3>5. IsPrefix(q.name, p.name)
        BY <2>1, <3>1, <3>3, <3>4, PrefixIs
      <3> QED
        BY <2>5, <3>1, <3>5 DEF Inside
    <2> QED
      BY <2>2, <2>3, <2>4, <2>5
  <1> QED
    BY <1>1, <1>2, <1>3

-----------------------------------------------------------------------------
(* What the compiler makes of a document that a zone can say.              *)

LEMMA PickedAre ==
  ASSUME NEW s, IsList(s), NEW kept \in SUBSET (DOMAIN s)
  PROVE  ToSet(Pick(s, kept)) = {s[i] : i \in kept}
  <1>1. /\ DOMAIN Pick(s, kept) = 1 .. Cardinality(kept)
        /\ \A m \in 1 .. Cardinality(kept) : \E i \in kept : Pick(s, kept)[m] = s[i]
        /\ \A i \in kept : \E m \in 1 .. Cardinality(kept) : Pick(s, kept)[m] = s[i]
    BY PickKeeps DEF IsList
  <1>2. QED
    BY <1>1 DEF ToSet

LEMMA FirstsAre ==
  ASSUME NEW s, IsList(s)
  PROVE  ToSet(FirstOfEach(s)) = ToSet(s)
  <1> DEFINE firsts == {i \in DOMAIN s : \A j \in 1 .. i - 1 : s[j] # s[i]}
  <1>1. Len(s) \in Nat /\ DOMAIN s = 1 .. Len(s)
    BY ListHasLength
  <1>2. ASSUME NEW k \in DOMAIN s PROVE \E i \in firsts : s[i] = s[k]
    <2> DEFINE same == {i \in DOMAIN s : s[i] = s[k]}
    <2>1. same \subseteq Nat /\ same # {}
      BY <1>1
    <2>2. PICK i \in same : \A j \in same : i <= j
      BY <2>1, LeastNat
    <2>3. i \in DOMAIN s /\ s[i] = s[k]
      BY <2>2
    <2>4. ASSUME NEW j \in 1 .. i - 1 PROVE s[j] # s[i]
      <3>1. j \in DOMAIN s /\ j < i /\ j \in Nat /\ i \in Nat
        BY <1>1, <2>3
      <3>2. j \in same => i <= j
        BY <2>2
      <3>3. QED
        BY <2>3, <3>1, <3>2
    <2>5. QED
      BY <2>3, <2>4
  <1>3. firsts \in SUBSET (DOMAIN s) /\ FirstOfEach(s) = Pick(s, firsts)
    BY DEF FirstOfEach
  <1> HIDE DEF firsts
  <1>4. ToSet(FirstOfEach(s)) = {s[i] : i \in firsts}
    BY <1>3, PickedAre
  <1>5. {s[i] : i \in firsts} = {s[k] : k \in DOMAIN s}
    BY <1>2, <1>3
  <1>6. QED
    BY <1>4, <1>5 DEF ToSet

LEMMA JoinedAre ==
  ASSUME NEW s, NEW t, IsList(s), IsList(t)
  PROVE  ToSet(s \o t) = ToSet(s) \cup ToSet(t)
  <1>1. IsList(s \o t)
    BY ConcatIsList
  <1>2. /\ Len(s) \in Nat /\ DOMAIN s = 1 .. Len(s) /\ s \in Seq(ToSet(s))
        /\ Len(t) \in Nat /\ DOMAIN t = 1 .. Len(t) /\ t \in Seq(ToSet(t))
        /\ DOMAIN (s \o t) = 1 .. Len(s \o t)
    BY <1>1, ListHasLength
  <1> DEFINE V == ToSet(s) \cup ToSet(t)
  <1>3. ToSet(s) \subseteq V /\ ToSet(t) \subseteq V
    OBVIOUS
  <1> HIDE DEF V
  <1>4. s \in Seq(V) /\ t \in Seq(V)
    BY <1>2, <1>3, SeqMonotonic
  <1>5. /\ Len(s \o t) = Len(s) + Len(t)
        /\ \A i \in 1 .. Len(s) + Len(t) :
             (s \o t)[i] = IF i <= Len(s) THEN s[i] ELSE t[i - Len(s)]
    BY <1>4, ConcatProperties
  <1> DEFINE st == s \o t
  <1>6. /\ DOMAIN st = 1 .. Len(s) + Len(t)
        /\ \A i \in 1 .. Len(s) : st[i] = s[i]
        /\ \A i \in 1 .. Len(t) : st[Len(s) + i] = t[i]
        /\ \A i \in 1 .. Len(s) + Len(t) : i <= Len(s) => st[i] = s[i]
        /\ \A i \in 1 .. Len(s) + Len(t) :
             ~ (i <= Len(s)) => (i - Len(s) \in 1 .. Len(t) /\ st[i] = t[i - Len(s)])
    BY <1>2, <1>5
  <1> HIDE DEF st
  <1>7. ToSet(st) \subseteq ToSet(s) \cup ToSet(t)
    BY <1>2, <1>6 DEF ToSet
  <1>8. ToSet(s) \subseteq ToSet(st)
    <2>1. ASSUME NEW i \in 1 .. Len(s) PROVE s[i] \in ToSet(st)
      BY <1>2, <1>6 DEF ToSet
    <2>2. QED
      BY <1>2, <2>1 DEF ToSet
  <1>9. ToSet(t) \subseteq ToSet(st)
    <2>1. ASSUME NEW i \in 1 .. Len(t) PROVE t[i] \in ToSet(st)
      <3>1. Len(s) + i \in DOMAIN st
        BY <1>2, <1>6
      <3>2. QED
        BY <1>6, <3>1 DEF ToSet
    <2>2. QED
      BY <1>2, <2>1 DEF ToSet
  <1>10. QED
    BY <1>7, <1>8, <1>9 DEF st

LEMMA AppendedAre ==
  ASSUME NEW s, NEW e, IsList(s)
  PROVE  ToSet(Append(s, e)) = ToSet(s) \cup {e}
  <1> DEFINE V == ToSet(s) \cup {e}
  <1>1. ToSet(s) \subseteq V /\ e \in V
    OBVIOUS
  <1> HIDE DEF V
  <1>2. Len(s) \in Nat /\ DOMAIN s = 1 .. Len(s) /\ s \in Seq(V)
    BY <1>1, ListHasLength, SeqMonotonic
  <1> DEFINE t == Append(s, e)
  <1>3. /\ DOMAIN t = 1 .. Len(s) + 1
        /\ \A i \in 1 .. Len(s) : t[i] = s[i]
        /\ t[Len(s) + 1] = e
    BY <1>1, <1>2, AppendProperties, LenProperties
  <1> HIDE DEF t
  <1>4. /\ 1 .. Len(s) + 1 = (1 .. Len(s)) \cup {Len(s) + 1}
    BY <1>2
  <1>5. ToSet(t) = ToSet(s) \cup {e}
    BY <1>2, <1>3, <1>4 DEF ToSet
  <1>6. QED
    BY <1>5 DEF t

(* The directives of a document that a zone can say, as a set.             *)
Says(doc) ==
       {Directive(w, "NXDOMAIN") : w \in Denied(doc)}
  \cup {Directive(p, "PASSTHRU") : p \in ToSet(doc.allowed)}
  \cup {d \in {Directive(Everything, "NXDOMAIN")} : doc.allowed # <<>>}

LEMMA CelRulesSay ==
  ASSUME NEW cel, IsList(cel),
         \A i \in DOMAIN cel : CelCompiles(cel[i]) /\ cel[i].effect = "deny"
  PROVE  /\ IsList(CelDirectives(cel))
         /\ ToSet(CelDirectives(cel)) =
              {Directive(w, "NXDOMAIN") : w \in {CelDirective(cel[i]).owner : i \in DOMAIN cel}}
  <1> DEFINE some == Pick(cel, {i \in DOMAIN cel : CelCompiles(cel[i])})
             f == [i \in DOMAIN some |-> CelDirective(some[i])]
  <1>1. {i \in DOMAIN cel : CelCompiles(cel[i])} = DOMAIN cel
    OBVIOUS
  <1>2. IsList(some) /\ ToSet(some) = {cel[i] : i \in DOMAIN cel}
    BY <1>1, PickIsList, PickedAre
  <1>3. CelDirectives(cel) = f
    BY DEF CelDirectives
  <1> HIDE DEF some
  <1>4. Len(some) \in Nat /\ DOMAIN some = 1 .. Len(some)
    BY <1>2, ListHasLength
  <1>5. DOMAIN f = 1 .. Len(some) /\ f = [i \in 1 .. Len(some) |-> f[i]]
    BY <1>4
  <1>6. ToSet(f) = {CelDirective(rule) : rule \in ToSet(some)}
    BY DEF ToSet
  <1> HIDE DEF f
  <1>7. IsList(f)
    BY <1>4, <1>5, FunctionIsList
  <1>8. ASSUME NEW i \in DOMAIN cel
        PROVE  CelDirective(cel[i]) = Directive(CelDirective(cel[i]).owner, "NXDOMAIN")
    BY DEF CelDirective, Directive
  <1>9. ToSet(f) = {CelDirective(cel[i]) : i \in DOMAIN cel}
    BY <1>2, <1>6
  <1>10. QED
    BY <1>3, <1>7, <1>8, <1>9

LEMMA ListsSay ==
  ASSUME NEW ps, IsList(ps)
  PROVE  /\ IsList(Blocking(ps)) /\ IsList(AllowedDirectives(ps))
         /\ ToSet(Blocking(ps)) = {Directive(p, "NXDOMAIN") : p \in ToSet(ps)}
         /\ ToSet(AllowedDirectives(ps)) =
              {Directive(p, "PASSTHRU") : p \in ToSet(ps)}
                \cup {d \in {Directive(Everything, "NXDOMAIN")} : ps # <<>>}
  <1>1. Len(ps) \in Nat /\ DOMAIN ps = 1 .. Len(ps)
    BY ListHasLength
  <1>2. ASSUME NEW a
        PROVE  /\ IsList([i \in DOMAIN ps |-> Directive(ps[i], a)])
               /\ ToSet([i \in DOMAIN ps |-> Directive(ps[i], a)])
                    = {Directive(p, a) : p \in ToSet(ps)}
    <2> DEFINE f == [i \in DOMAIN ps |-> Directive(ps[i], a)]
    <2>1. DOMAIN f = 1 .. Len(ps) /\ f = [i \in 1 .. Len(ps) |-> f[i]]
      BY <1>1
    <2>2. ToSet(f) = {Directive(p, a) : p \in ToSet(ps)}
      BY DEF ToSet
    <2> HIDE DEF f
    <2>3. IsList(f)
      BY <1>1, <2>1, FunctionIsList
    <2>4. QED
      BY <2>2, <2>3 DEF f
  <1>3. CASE ps = <<>>
    <2>1. AllowedDirectives(ps) = <<>> /\ ToSet(ps) = {}
      BY <1>1, <1>3 DEF AllowedDirectives, ToSet
    <2>2. QED
      BY <1>2, <1>3, <2>1, EmptyIsList DEF Blocking
  <1>4. CASE ps # <<>>
    <2> DEFINE f == [i \in DOMAIN ps |-> Directive(ps[i], "PASSTHRU")]
               e == Directive(Everything, "NXDOMAIN")
    <2>1. IsList(f) /\ ToSet(f) = {Directive(p, "PASSTHRU") : p \in ToSet(ps)}
      BY <1>2
    <2>2. AllowedDirectives(ps) = Append(f, e)
      BY <1>4 DEF AllowedDirectives
    <2>3. {d \in {e} : ps # <<>>} = {e}
      BY <1>4
    <2> HIDE DEF f, e
    <2>4. IsList(Append(f, e)) /\ ToSet(Append(f, e)) = ToSet(f) \cup {e}
      BY <2>1, AppendIsList, AppendedAre
    <2>5. QED
      BY <1>2, <2>1, <2>2, <2>3, <2>4 DEF Blocking, e
  <1>5. QED
    BY <1>3, <1>4

LEMMA CompiledSays ==
  ASSUME NEW doc, IsDocument(doc), Expressible(doc)
  PROVE  ToSet(Compiled(doc, FALSE)) = Says(doc)
  <1> DEFINE b == Blocking(doc.blocked)  a == AllowedDirectives(doc.allowed)
             c == CelDirectives(doc.cel)
             all == b \o a \o c
             kept == {i \in DOMAIN all : FALSE \/ ~ Broad(all[i].owner)}
             some == Pick(all, kept)
  <1>1. IsList(doc.blocked) /\ IsList(doc.allowed) /\ IsList(doc.cel)
    BY DEF IsDocument, IsList
  <1>2. \A i \in DOMAIN doc.cel : CelCompiles(doc.cel[i]) /\ doc.cel[i].effect = "deny"
    BY DEF Expressible, CelCompiles
  <1>c. Compiled(doc, FALSE) = FirstOfEach(some)
    BY DEF Compiled
  <1>3. /\ IsList(b) /\ IsList(a) /\ IsList(c)
        /\ ToSet(b) \cup ToSet(a) \cup ToSet(c) = Says(doc)
    <2>1. /\ IsList(b) /\ IsList(a)
          /\ ToSet(b) = {Directive(p, "NXDOMAIN") : p \in ToSet(doc.blocked)}
          /\ ToSet(a) = {Directive(p, "PASSTHRU") : p \in ToSet(doc.allowed)}
                \cup {d \in {Directive(Everything, "NXDOMAIN")} : doc.allowed # <<>>}
      BY <1>1, ListsSay
    <2>2. /\ IsList(c)
          /\ ToSet(c) = {Directive(w, "NXDOMAIN") :
                           w \in {CelDirective(doc.cel[i]).owner : i \in DOMAIN doc.cel}}
      BY <1>1, <1>2, CelRulesSay
    <2> HIDE DEF a, b, c
    <2>3. QED
      BY <2>1, <2>2 DEF Says, Denied
  <1>k. kept \in SUBSET (DOMAIN all)
    OBVIOUS
  <1>n. \A d \in Says(doc) : ~ Broad(d.owner)
    <2>1. ~ Broad(Everything)
      BY DEF Broad, Everything
    <2>2. ASSUME NEW d \in Says(doc) PROVE d.owner \in Denied(doc) \cup ToSet(doc.allowed) \cup {Everything}
      BY DEF Says, Directive
    <2>3. QED
      BY <2>1, <2>2 DEF Expressible
  <1> HIDE DEF a, b, c
  <1>4. IsList(b \o a) /\ ToSet(b \o a) = ToSet(b) \cup ToSet(a)
    BY <1>3, ConcatIsList, JoinedAre
  <1>5. IsList(all) /\ ToSet(all) = Says(doc)
    BY <1>3, <1>4, ConcatIsList, JoinedAre
  <1> HIDE DEF all
  <1>6. \A i \in DOMAIN all : ~ Broad(all[i].owner)
    BY <1>5, <1>n DEF ToSet
  <1>7. kept = DOMAIN all
    BY <1>6
  <1> HIDE DEF kept
  <1>8. IsList(some) /\ ToSet(some) = ToSet(all)
    <2>1. kept \in SUBSET (DOMAIN all)
      BY <1>7
    <2>2. IsList(Pick(all, kept)) /\ ToSet(Pick(all, kept)) = {all[i] : i \in kept}
      BY <1>5, <2>1, PickIsList, PickedAre
    <2>3. {all[i] : i \in kept} = ToSet(all)
      BY <1>7 DEF ToSet
    <2>4. QED
      BY <2>2, <2>3
  <1> HIDE DEF some
  <1>9. ToSet(FirstOfEach(some)) = ToSet(some)
    BY <1>8, FirstsAre
  <1>10. QED
    BY <1>c, <1>5, <1>8, <1>9

-----------------------------------------------------------------------------
(* Of the patterns that a name fits, some are closest.                     *)
LEMMA SomeIsClosest ==
  ASSUME NEW owners, \A o \in owners : IsPattern(o), NEW n, IsName(n),
         NEW w \in owners, Matches(w, n)
  PROVE  \E o \in Closest(owners, n) : TRUE
  <1> DEFINE fits == {o \in owners : Matches(o, n)}
             exact == {o \in fits : o.kind = "exact"}
             lacks == {Len(n) - Len(o.name) : o \in fits}
  <1>1. Closest(owners, n) = IF exact # {} THEN exact
                             ELSE {o \in fits : \A p \in fits : Len(p.name) <= Len(o.name)}
    BY DEF Closest
  <1>2. CASE exact # {}
    BY <1>1, <1>2
  <1>3. CASE exact = {}
    <2>0. Len(n) \in Nat
      BY LenProperties DEF IsName
    <2>1. ASSUME NEW o \in fits PROVE Len(o.name) \in Nat /\ Len(o.name) <= Len(n)
      <3>1. IsPattern(o) /\ Matches(o, n) /\ o.kind # "exact"
        BY <1>3
      <3>2. CASE o = Everything
        <4>1. Len(o.name) = 0
          BY <3>2 DEF Everything
        <4>2. QED
          BY <2>0, <4>1
      <3>3. CASE o # Everything
        <4>1. IsName(o.name) /\ o \in {Exactly(o.name), Under(o.name)}
          BY <3>1, <3>3 DEF IsPattern
        <4>2. o.kind = "under"
          BY <3>1, <4>1 DEF Exactly, Under
        <4>3. Len(o.name) <= Len(n)
          BY <3>1, <4>2 DEF Matches, IsStrictPrefix, IsPrefix
        <4>4. QED
          BY <4>1, <4>3, LenProperties DEF IsName
      <3>4. QED
        BY <3>2, <3>3
    <2>2. lacks \subseteq Nat /\ lacks # {}
      <3>1. \A o \in fits : Len(n) - Len(o.name) \in Nat
        BY <2>0, <2>1
      <3>2. w \in fits
        OBVIOUS
      <3> HIDE DEF fits
      <3>3. QED
        BY <3>1, <3>2
    <2>3. PICK x \in lacks : \A y \in lacks : x <= y
      BY <2>2, LeastNat
    <2>4. PICK o \in fits : x = Len(n) - Len(o.name)
      BY <2>3
    <2>5. ASSUME NEW p \in fits PROVE Len(p.name) <= Len(o.name)
      <3>1. Len(n) - Len(o.name) <= Len(n) - Len(p.name)
        BY <2>3, <2>4
      <3>2. Len(p.name) \in Nat /\ Len(o.name) \in Nat
        BY <2>1
      <3>3. QED
        BY <2>0, <3>1, <3>2
    <2>6. QED
      BY <1>1, <1>3, <2>4, <2>5
  <1>4. QED
    BY <1>2, <1>3

(* What a zone says that holds the directives of such a document.          *)
SpeaksFor(zone, doc) ==
  /\ DOMAIN zone = Denied(doc) \cup ToSet(doc.allowed)
                     \cup {w \in {Everything} : doc.allowed # <<>>}
  /\ \A w \in Denied(doc) : zone[w] = "NXDOMAIN"
  /\ \A p \in ToSet(doc.allowed) : zone[p] = "PASSTHRU"
  /\ doc.allowed # <<>> => zone[Everything] = "NXDOMAIN"

LEMMA PatternsAre ==
  ASSUME NEW doc, IsDocument(doc), Expressible(doc)
  PROVE  /\ \A w \in Denied(doc) \cup ToSet(doc.allowed) : IsPattern(w)
         /\ \A p \in ToSet(doc.allowed) : p \notin Denied(doc) /\ p # Everything
  <1>1. ASSUME NEW i \in DOMAIN doc.cel PROVE IsPattern(CelDirective(doc.cel[i]).owner)
    <2>1. IsName(doc.cel[i].name)
      BY DEF IsDocument, ToSet
    <2>2. CelDirective(doc.cel[i]).owner \in {Under(doc.cel[i].name), Exactly(doc.cel[i].name)}
      BY DEF CelDirective, Directive
    <2> DEFINE name == doc.cel[i].name
    <2>3. Under(name).name = name /\ Exactly(name).name = name
      BY DEF Under, Exactly
    <2> HIDE DEF name
    <2>4. IsPattern(Under(name)) /\ IsPattern(Exactly(name))
      BY <2>1, <2>3 DEF IsPattern, name
    <2>5. QED
      BY <2>2, <2>4 DEF name
  <1>2. \A w \in Denied(doc) \cup ToSet(doc.allowed) : IsPattern(w)
    BY <1>1 DEF Denied, IsDocument
  <1>3. ASSUME NEW p \in ToSet(doc.allowed) PROVE p \notin Denied(doc) /\ p # Everything
    <2>1. p.name # <<>> /\ \A q \in Denied(doc) : ~ Inside(p, q)
      BY DEF Expressible
    <2>2. Inside(p, p)
      BY DEF Inside
    <2>3. p # Everything
      BY <2>1 DEF Everything
    <2>4. QED
      BY <2>1, <2>2, <2>3
  <1>4. QED
    BY <1>2, <1>3

(* The evaluator refuses a name that is denied, and with an allow list one *)
(* that is not on it.                                                      *)
LEMMA EvaluatorRefuses ==
  ASSUME NEW doc, IsDocument(doc), Expressible(doc), NEW n, n # NoDomain,
         NEW layer \in {"caller", "target"}
  PROVE  ~ Allowed(doc, n, [r \in doc.others |-> "fits"], layer)
           <=> \/ \E w \in Denied(doc) : Matches(w, n)
               \/ doc.allowed # <<>> /\ ~ \E p \in ToSet(doc.allowed) : Matches(p, n)
  <1> DEFINE standing == [r \in doc.others |-> "fits"]
             others == {rule \in doc.others : layer \in RuleLayers[rule]
                                                /\ Refused(rule, standing[rule])}
             unlisted == {rule \in {"allowed_caller_domains"} :
                            /\ layer \in RuleLayers[rule] /\ doc.allowed # <<>>
                            /\ n = NoDomain \/ ~ MatchesAny(doc.allowed, n)}
             blocked == {rule \in {"blocked_caller_domains"} :
                           /\ layer \in RuleLayers[rule] /\ n # NoDomain
                           /\ MatchesAny(doc.blocked, n)}
             cel == {rule \in {"cel"} : \E i \in DOMAIN doc.cel :
                       /\ AtLayer(doc.cel[i], layer)
                       /\ doc.cel[i].effect = "deny"
                       /\ ~ CelHolds(doc.cel[i], n)}
  <1>1. Violations(doc, n, standing, layer) = others \cup unlisted \cup blocked \cup cel
    BY DEF Violations
  <1>2. others = {}
    <2>1. \A rule : ~ Refused(rule, "fits")
      BY DEF Refused
    <2>2. QED
      BY <2>1
  <1>3. layer \in RuleLayers["allowed_caller_domains"] /\ layer \in RuleLayers["blocked_caller_domains"]
    BY DEF RuleLayers
  <1>4. unlisted # {} <=> doc.allowed # <<>> /\ ~ \E p \in ToSet(doc.allowed) : Matches(p, n)
    BY <1>3 DEF MatchesAny, ToSet
  <1>5. blocked # {} <=> \E p \in ToSet(doc.blocked) : Matches(p, n)
    BY <1>3 DEF MatchesAny, ToSet
  <1>6. ASSUME NEW i \in DOMAIN doc.cel
        PROVE  /\ AtLayer(doc.cel[i], layer) /\ doc.cel[i].effect = "deny"
               /\ ~ CelHolds(doc.cel[i], n) <=> Matches(CelDirective(doc.cel[i]).owner, n)
    <2> DEFINE rule == doc.cel[i]
    <2>1. /\ rule.effect = "deny" /\ rule.form \in {"not under", "differs"}
          /\ AtLayer(rule, layer)
      BY DEF Expressible
    <2> HIDE DEF rule
    <2>2. CASE rule.form = "not under"
      <3>1. CelDirective(rule).owner = Under(rule.name)
        BY <2>2 DEF CelDirective, Directive
      <3>2. CelHolds(rule, n) <=> ~ Matches(Under(rule.name), n)
        BY <2>2 DEF CelHolds
      <3>3. QED
        BY <2>1, <3>1, <3>2 DEF rule
    <2>3. CASE rule.form = "differs"
      <3>1. CelDirective(rule).owner = Exactly(rule.name)
        BY <2>3 DEF CelDirective, Directive
      <3>2. CelHolds(rule, n) <=> n # rule.name
        BY <2>3 DEF CelHolds
      <3>3. Matches(Exactly(rule.name), n) <=> n = rule.name
        BY DEF Matches, Exactly
      <3>4. QED
        BY <2>1, <3>1, <3>2, <3>3 DEF rule
    <2>4. QED
      BY <2>1, <2>2, <2>3
  <1>7. cel # {} <=> \E i \in DOMAIN doc.cel : Matches(CelDirective(doc.cel[i]).owner, n)
    BY <1>6
  <1>8. (\E w \in Denied(doc) : Matches(w, n)) <=> (blocked # {} \/ cel # {})
    BY <1>5, <1>7 DEF Denied
  <1>9. Allowed(doc, n, standing, layer) <=> Violations(doc, n, standing, layer) = {}
    BY DEF Allowed
  <1>10. ~ Allowed(doc, n, standing, layer) <=> (unlisted # {} \/ blocked # {} \/ cel # {})
    <2> HIDE DEF others, unlisted, blocked, cel, standing
    <2>1. QED
      BY <1>1, <1>2, <1>9
  <1> HIDE DEF unlisted, blocked, cel
  <1>11. QED
    BY <1>4, <1>8, <1>10

(* A zone that speaks for a document blocks what the evaluator refuses.    *)
LEMMA ZoneRefuses ==
  ASSUME NEW doc, IsDocument(doc), Expressible(doc), NEW zone, SpeaksFor(zone, doc),
         NEW n, IsName(n)
  PROVE  Blocks(zone, n)
           <=> \/ \E w \in Denied(doc) : Matches(w, n)
               \/ doc.allowed # <<>> /\ ~ \E p \in ToSet(doc.allowed) : Matches(p, n)
  <1> DEFINE owners == DOMAIN zone
             fits == {o \in owners : Matches(o, n)}
  <1>0. IsPattern(Everything) /\ Matches(Everything, n)
    BY DEF IsPattern, Matches, Everything
  <1>1. /\ \A w \in owners : IsPattern(w)
        /\ \A p \in ToSet(doc.allowed) : p \notin Denied(doc) /\ p # Everything
    BY <1>0, PatternsAre DEF SpeaksFor
  <1>2. ASSUME NEW o \in Closest(owners, n)
        PROVE  /\ o \in owners /\ Matches(o, n)
               /\ \A w \in fits : o.kind = "exact" \/ (w.kind # "exact" /\ Len(w.name) <= Len(o.name))
    BY DEF Closest
  <1>3. \A w \in fits : \E o \in Closest(owners, n) : TRUE
    BY <1>1, SomeIsClosest
  <1>z. Blocks(zone, n) <=> \E o \in Closest(owners, n) : zone[o] = "NXDOMAIN"
    BY DEF Blocks
  <1>d. owners = Denied(doc) \cup ToSet(doc.allowed) \cup {w \in {Everything} : doc.allowed # <<>>}
    BY DEF SpeaksFor
  <1> HIDE DEF owners
  <1>4. CASE \E w \in Denied(doc) : Matches(w, n)
    <2>1. PICK w \in Denied(doc) : Matches(w, n)
      BY <1>4
    <2>2. w \in fits /\ IsPattern(w) /\ ~ Broad(w)
      BY <1>1, <1>d, <2>1 DEF Expressible
    <2>3. PICK o \in Closest(owners, n) : TRUE
      BY <1>3, <2>2
    <2>4. Inside(o, w)
      <3>1. /\ o.kind = "exact" \/ (w.kind # "exact" /\ Len(w.name) <= Len(o.name))
            /\ Matches(o, n) /\ IsPattern(o)
        BY <1>1, <1>2, <2>2, <2>3
      <3>2. Inside(o, w) \/ (o = Everything /\ w.kind = "under" /\ Len(w.name) = 0)
        BY <2>1, <2>2, <3>1, CloserIsInside
      <3>3. ~ (w.kind = "under" /\ Len(w.name) = 0)
        BY <2>2 DEF Broad, InAgentsNamespace
      <3>4. QED
        BY <3>2, <3>3
    <2>5. o \notin ToSet(doc.allowed)
      BY <2>1, <2>4 DEF Expressible
    <2>6. zone[o] = "NXDOMAIN"
      BY <1>2, <1>d, <2>3, <2>5 DEF SpeaksFor
    <2>7. QED
      BY <1>4, <1>z, <2>3, <2>6
  <1>5. CASE ~ (\E w \in Denied(doc) : Matches(w, n)) /\ doc.allowed = <<>>
    <2>1. ToSet(doc.allowed) = {}
      BY <1>5 DEF ToSet
    <2>2. owners = Denied(doc)
      BY <1>5, <1>d, <2>1
    <2>3. ~ Blocks(zone, n)
      BY <1>2, <1>5, <1>z, <2>2
    <2>4. QED
      BY <1>5, <2>3
  <1>6. CASE /\ ~ (\E w \in Denied(doc) : Matches(w, n)) /\ doc.allowed # <<>>
             /\ \E p \in ToSet(doc.allowed) : Matches(p, n)
    <2>1. PICK p \in ToSet(doc.allowed) : Matches(p, n)
      BY <1>6
    <2>2. p \in fits /\ IsPattern(p) /\ p # Everything /\ p.name # <<>>
      BY <1>1, <1>d, <2>1 DEF Expressible
    <2>3. Len(p.name) # 0 /\ Len(p.name) \in Nat
      <3>1. IsName(p.name)
        BY <2>2 DEF IsPattern
      <3>2. QED
        BY <2>2, <3>1, LenProperties, EmptySeq DEF IsName
    <2>4. ASSUME NEW o \in Closest(owners, n) PROVE zone[o] # "NXDOMAIN"
      <3>1. o \in owners /\ Matches(o, n) /\ o \notin Denied(doc)
        BY <1>2, <1>6
      <3>2. o # Everything
        <4>1. o.kind = "exact" \/ Len(p.name) <= Len(o.name)
          BY <1>2, <2>2
        <4>2. Everything.kind # "exact" /\ Len(Everything.name) = 0
          BY DEF Everything
        <4>3. QED
          BY <2>3, <4>1, <4>2
      <3>3. o \in ToSet(doc.allowed)
        BY <1>d, <3>1, <3>2
      <3>4. QED
        BY <3>3 DEF SpeaksFor
    <2>5. QED
      BY <1>6, <1>z, <2>4
  <1>7. CASE /\ ~ (\E w \in Denied(doc) : Matches(w, n)) /\ doc.allowed # <<>>
             /\ ~ \E p \in ToSet(doc.allowed) : Matches(p, n)
    <2>1. Everything \in owners /\ Everything \in fits
      BY <1>0, <1>7, <1>d
    <2>2. PICK o \in Closest(owners, n) : TRUE
      BY <1>3, <2>1
    <2>3. o = Everything
      BY <1>2, <1>7, <1>d, <2>2
    <2>4. zone[o] = "NXDOMAIN"
      BY <1>7, <2>3 DEF SpeaksFor
    <2>5. QED
      BY <1>7, <1>z, <2>2, <2>4
  <1>8. QED
    BY <1>4, <1>5, <1>6, <1>7

(* The zone that such a document settled speaks for it.                    *)
LEMMA SettledSpeaks ==
  ASSUME NEW doc, IsDocument(doc), Expressible(doc), NEW all, all = Compiled(doc, FALSE),
         NEW zone, Settled(all, Len(all), zone),
         DOMAIN zone = {all[i].owner : i \in DOMAIN all}
  PROVE  SpeaksFor(zone, doc)
  <1>1. IsList(all) /\ ToSet(all) = Says(doc)
    BY CompiledIsList, CompiledSays
  <1>2. Len(all) \in Nat /\ DOMAIN all = 1 .. Len(all)
    BY <1>1, ListHasLength
  <1>3. \A d : d \in Says(doc) <=> \E i \in DOMAIN all : all[i] = d
    BY <1>1 DEF ToSet
  <1>4. ASSUME NEW d \in Says(doc)
        PROVE  /\ d.owner \in DOMAIN zone
               /\ \E e \in Says(doc) : e.owner = d.owner /\ zone[d.owner] = Canonical(e.action)
    <2>1. PICK i \in DOMAIN all : all[i] = d
      BY <1>3
    <2>2. PICK j \in 1 .. Len(all) : /\ all[j].owner = d.owner /\ d.owner \in DOMAIN zone
                                     /\ zone[d.owner] = Canonical(all[j].action)
      BY <1>2, <2>1 DEF Settled, LastUpTo
    <2>3. all[j] \in Says(doc)
      BY <1>2, <1>3
    <2>4. QED
      BY <2>2, <2>3
  <1>5. \A p \in ToSet(doc.allowed) : p \notin Denied(doc) /\ p # Everything
    BY PatternsAre
  <1>6. \A w, a : Directive(w, a).owner = w /\ Directive(w, a).action = a
    BY DEF Directive
  <1>7. /\ \A w \in Denied(doc) : Directive(w, "NXDOMAIN") \in Says(doc)
        /\ \A p \in ToSet(doc.allowed) : Directive(p, "PASSTHRU") \in Says(doc)
        /\ doc.allowed # <<>> => Directive(Everything, "NXDOMAIN") \in Says(doc)
    BY DEF Says
  <1>8. ASSUME NEW e \in Says(doc)
        PROVE  /\ e.owner \in Denied(doc) \cup ToSet(doc.allowed)
                                \cup {w \in {Everything} : doc.allowed # <<>>}
               /\ IF e.owner \in ToSet(doc.allowed) THEN e.action = "PASSTHRU"
                  ELSE e.action = "NXDOMAIN"
    BY <1>5, <1>6 DEF Says
  <1>9. Canonical("PASSTHRU") = "PASSTHRU" /\ Canonical("NXDOMAIN") = "NXDOMAIN"
    BY DEF Canonical
  <1>10. DOMAIN zone = {d.owner : d \in Says(doc)}
    <2>1. \A i \in DOMAIN all : all[i] \in Says(doc)
      BY <1>3
    <2>2. \A d \in Says(doc) : d.owner \in DOMAIN zone
      BY <1>4
    <2>3. QED
      BY <2>1, <2>2
  <1>e. ASSUME NEW w, NEW a, Directive(w, a) \in Says(doc)
        PROVE  \E e \in Says(doc) : e.owner = w /\ zone[w] = Canonical(e.action)
    <2> DEFINE d == Directive(w, a)
    <2>1. d \in Says(doc) /\ d.owner = w
      BY <1>6, <1>e
    <2> HIDE DEF d
    <2>2. QED
      BY <1>4, <2>1
  <1>11. DOMAIN zone = Denied(doc) \cup ToSet(doc.allowed)
                         \cup {w \in {Everything} : doc.allowed # <<>>}
    <2>1. {d.owner : d \in Says(doc)} \subseteq
             Denied(doc) \cup ToSet(doc.allowed) \cup {w \in {Everything} : doc.allowed # <<>>}
      BY <1>8
    <2>2. \A w \in Denied(doc) \cup ToSet(doc.allowed) \cup {v \in {Everything} : doc.allowed # <<>>} :
            \E d \in Says(doc) : d.owner = w
      BY <1>6, <1>7
    <2>3. QED
      BY <1>10, <2>1, <2>2
  <1>12. \A w \in Denied(doc) : zone[w] = "NXDOMAIN"
    <2>1. ASSUME NEW w \in Denied(doc) PROVE zone[w] = "NXDOMAIN"
      <3>1. PICK e \in Says(doc) : e.owner = w /\ zone[w] = Canonical(e.action)
        BY <1>e, <1>7
      <3>2. e.action = "NXDOMAIN"
        BY <1>5, <1>8, <3>1
      <3>3. QED
        BY <1>9, <3>1, <3>2
    <2>2. QED
      BY <2>1
  <1>13. \A p \in ToSet(doc.allowed) : zone[p] = "PASSTHRU"
    <2>1. ASSUME NEW p \in ToSet(doc.allowed) PROVE zone[p] = "PASSTHRU"
      <3>1. PICK e \in Says(doc) : e.owner = p /\ zone[p] = Canonical(e.action)
        BY <1>e, <1>7
      <3>2. e.action = "PASSTHRU"
        BY <1>8, <3>1
      <3>3. QED
        BY <1>9, <3>1, <3>2
    <2>2. QED
      BY <2>1
  <1>14. doc.allowed # <<>> => zone[Everything] = "NXDOMAIN"
    <2>1. ASSUME doc.allowed # <<>> PROVE zone[Everything] = "NXDOMAIN"
      <3>1. PICK e \in Says(doc) : e.owner = Everything /\ zone[Everything] = Canonical(e.action)
        BY <1>e, <1>7, <2>1
      <3>2. e.action = "NXDOMAIN"
        BY <1>5, <1>8, <3>1
      <3>3. QED
        BY <1>9, <3>1, <3>2
    <2>2. QED
      BY <2>1
  <1>15. QED
    BY <1>11, <1>12, <1>13, <1>14 DEF SpeaksFor

LEMMA AgreesWithTheLayers ==
  ASSUME EnforceInv
  PROVE  LayersAgree
  <1>1. ASSUME NEW o \in Operators, NEW doc \in Documents, Expressible(doc),
               NEW layer \in {"caller", "target"},
               Reported(o), doing[o].list = "", doing[o].all = Compiled(doc, FALSE),
               DOMAIN rpz = {doing[o].all[i].owner : i \in DOMAIN doing[o].all},
               NEW n \in CallerNames
        PROVE  Blocks(rpz, n) <=> ~ Allowed(doc, n, [r \in doc.others |-> "fits"], layer)
    <2>1. InForce(doing[o], rpz, lists, policy) /\ doing[o].what = "done" /\ doing[o].errors = 0
      BY <1>1 DEF Reported, EnforceInv
    <2>2. Settled(doing[o].all, Len(doing[o].all), rpz)
      BY <1>1, <2>1 DEF InForce
    <2>3. IsDocument(doc) /\ n # NoDomain /\ IsName(n)
      BY EnforcementAssumption
    <2>4. SpeaksFor(rpz, doc)
      BY <1>1, <2>2, <2>3, SettledSpeaks
    <2>5. QED
      BY <1>1, <2>3, <2>4, ZoneRefuses, EvaluatorRefuses
  <1>2. QED
    BY <1>1 DEF LayersAgree

(* EnforcedIsInForce: an enforcement or rollback that reports no error     *)
(* while nobody else wrote holds (cli/main.py:2676, mcp/server.py:1873),   *)
(* for any operators, documents, lists and failures; and the zone that was *)
(* filled from a document that a zone can say refuses the callers that the *)
(* evaluator refuses for it (compiler.py:191-259, evaluator.py:226).       *)
THEOREM WhatIsReportedHolds == enSpec => []EnforcedIsInForce
  <1>1. enInit => EnforceInv
    BY EnforceInit
  <1>2. EnforceInv /\ [enNiosNext \/ enTdNext]_enVars => EnforceInv'
    BY EnforceNext
  <1>3. EnforceInv => EnforcedIsInForce
    BY ReportedIsStored, AgreesWithTheLayers DEF EnforcedIsInForce, StoresHoldIt
  <1>4. QED
    BY <1>1, <1>2, <1>3, PTL DEF enSpec

-----------------------------------------------------------------------------
(* The rate limiter: what a caller got through is in the window that is    *)
(* kept of it.                                                             *)

(* f finds each place of s in w, no two at one place.                      *)
Embeds(f, s, w) ==
  /\ f \in [DOMAIN s -> DOMAIN w]
  /\ \A i, j \in DOMAIN s : f[i] = f[j] => i = j
  /\ \A i \in DOMAIN s : w[f[i]] = s[i]

Covered(s, w) == \E f : Embeds(f, s, w)

(* What of times is younger than span at the moment now.                   *)
Young(now_, times, span) == {i \in DOMAIN times : now_ - times[i] < span}
Lately(now_, times, span) == Pick(times, Young(now_, times, span))

LEMMA UpTo ==
  ASSUME NEW n \in Nat
  PROVE  IsFiniteSet(1 .. n) /\ Cardinality(1 .. n) = n
  BY FS_Interval

LEMMA LatelyIs ==
  ASSUME NEW n \in Nat, NEW h \in Nat, NEW s \in Seq(Nat)
  PROVE  /\ Lately(n, s, h) \in Seq(Nat)
         /\ Len(Lately(n, s, h)) = Cardinality(Young(n, s, h))
         /\ IsFiniteSet(Young(n, s, h)) /\ Cardinality(Young(n, s, h)) \in Nat
         /\ DOMAIN Lately(n, s, h) = 1 .. Cardinality(Young(n, s, h))
         /\ \E f : Selects(f, s, Young(n, s, h))
  <1>1. Len(s) \in Nat /\ DOMAIN s = 1 .. Len(s)
    BY LenProperties
  <1>2. Young(n, s, h) \in SUBSET (DOMAIN s) /\ Young(n, s, h) \in SUBSET (1 .. Len(s))
    BY <1>1 DEF Young
  <1>3. IsFiniteSet(Young(n, s, h)) /\ Cardinality(Young(n, s, h)) \in Nat
    <2>1. IsFiniteSet(1 .. Len(s))
      BY <1>1, UpTo
    <2>2. IsFiniteSet(Young(n, s, h))
      BY <1>2, <2>1, FS_Subset
    <2>3. QED
      BY <2>2, FS_CardinalityType
  <1>4. \E f : Selects(f, s, Young(n, s, h))
    BY <1>1, <1>2, PickIs
  <1>5. QED
    BY <1>2, <1>3, <1>4, PickKeeps DEF Lately

LEMMA CoveredIsShorter ==
  ASSUME NEW s \in Seq(Nat), NEW w \in Seq(Nat), Covered(s, w)
  PROVE  Len(s) <= Len(w)
  <1>1. /\ Len(s) \in Nat /\ DOMAIN s = 1 .. Len(s)
        /\ Len(w) \in Nat /\ DOMAIN w = 1 .. Len(w)
    BY LenProperties
  <1>2. PICK f : Embeds(f, s, w)
    BY DEF Covered
  <1>3. f \in Injection(1 .. Len(s), 1 .. Len(w))
    BY <1>1, <1>2 DEF Embeds, Injection, IsInjective
  <1>4. IsFiniteSet(1 .. Len(s)) /\ IsFiniteSet(1 .. Len(w))
        /\ Cardinality(1 .. Len(s)) = Len(s) /\ Cardinality(1 .. Len(w)) = Len(w)
    BY <1>1, UpTo
  <1>5. Cardinality(1 .. Len(s)) <= Cardinality(1 .. Len(w))
    BY <1>3, <1>4, FS_Injection
  <1>6. QED
    BY <1>4, <1>5

LEMMA CoveredIsTransitive ==
  ASSUME NEW s, NEW v, NEW w, Covered(s, v), Covered(v, w)
  PROVE  Covered(s, w)
  <1>1. PICK f : Embeds(f, s, v)
    BY DEF Covered
  <1>2. PICK g : Embeds(g, v, w)
    BY DEF Covered
  <1> DEFINE h == [i \in DOMAIN s |-> g[f[i]]]
  <1>3. Embeds(h, s, w)
    BY <1>1, <1>2 DEF Embeds
  <1>4. QED
    BY <1>3 DEF Covered

LEMMA LatelyIsCovered ==
  ASSUME NEW n \in Nat, NEW h \in Nat, NEW s \in Seq(Nat)
  PROVE  Covered(Lately(n, s, h), s)
  <1> DEFINE kept == Young(n, s, h)
  <1>1. /\ DOMAIN Lately(n, s, h) = 1 .. Cardinality(kept) /\ Cardinality(kept) \in Nat
        /\ \E f : Selects(f, s, kept)
    BY LatelyIs
  <1>2. PICK f : Selects(f, s, kept)
    BY <1>1
  <1>k. kept \in SUBSET (DOMAIN s) /\ Lately(n, s, h) = Pick(s, kept)
    BY DEF Young, Lately
  <1>n. Len(s) \in Nat /\ DOMAIN s = 1 .. Len(s)
    BY LenProperties
  <1> HIDE DEF kept
  <1>3. f \in [1 .. Cardinality(kept) -> kept]
    BY <1>2 DEF Selects
  <1>4. \A i, j \in 1 .. Cardinality(kept) : f[i] = f[j] => i = j
    <2>1. \A i, j \in 1 .. Cardinality(kept) : i < j => f[i] < f[j]
      BY <1>2 DEF Selects
    <2>2. \A i \in 1 .. Cardinality(kept) : f[i] \in Nat
      BY <1>3, <1>k, <1>n
    <2>3. QED
      BY <1>1, <2>1, <2>2
  <1>5. \A i \in 1 .. Cardinality(kept) : Lately(n, s, h)[i] = s[f[i]]
    BY <1>2, <1>k DEF Selects
  <1>6. Embeds(f, Lately(n, s, h), s)
    BY <1>1, <1>3, <1>4, <1>5, <1>k DEF Embeds
  <1>7. QED
    BY <1>6 DEF Covered

(* The young part of what is covered is in the young part of the cover.    *)
LEMMA YoungIsCovered ==
  ASSUME NEW n \in Nat, NEW h \in Nat, NEW v \in Seq(Nat), NEW w \in Seq(Nat), Covered(v, w),
         \A i \in DOMAIN v : n - v[i] < h
  PROVE  Covered(v, Lately(n, w, h))
  <1> DEFINE kept == Young(n, w, h)
  <1>1. /\ DOMAIN Lately(n, w, h) = 1 .. Cardinality(kept)
        /\ \E g : Selects(g, w, kept)
    BY LatelyIs
  <1>2. PICK g : Selects(g, w, kept)
    BY <1>1
  <1>3. PICK f : Embeds(f, v, w)
    BY DEF Covered
  <1>4. ASSUME NEW i \in DOMAIN v PROVE f[i] \in kept
    BY <1>3 DEF Embeds, Young
  <1>k. Lately(n, w, h) = Pick(w, kept)
    BY DEF Lately
  <1> HIDE DEF kept
  <1>5. /\ \A k \in kept : \E j \in 1 .. Cardinality(kept) : g[j] = k
        /\ \A j \in 1 .. Cardinality(kept) : Lately(n, w, h)[j] = w[g[j]]
    BY <1>2, <1>k DEF Selects
  <1> DEFINE e == [i \in DOMAIN v |-> CHOOSE j \in 1 .. Cardinality(kept) : g[j] = f[i]]
  <1>6. ASSUME NEW i \in DOMAIN v PROVE e[i] \in 1 .. Cardinality(kept) /\ g[e[i]] = f[i]
    <2>1. \E j \in 1 .. Cardinality(kept) : g[j] = f[i]
      BY <1>4, <1>5
    <2>2. e[i] = CHOOSE j \in 1 .. Cardinality(kept) : g[j] = f[i]
      OBVIOUS
    <2> HIDE DEF e
    <2>3. QED
      BY <2>1, <2>2
  <1>7. e \in [DOMAIN v -> 1 .. Cardinality(kept)]
    BY <1>6
  <1> HIDE DEF e
  <1>8. \A i, j \in DOMAIN v : e[i] = e[j] => i = j
    BY <1>3, <1>6 DEF Embeds
  <1>9. \A i \in DOMAIN v : Lately(n, w, h)[e[i]] = v[i]
    <2>1. ASSUME NEW i \in DOMAIN v PROVE Lately(n, w, h)[e[i]] = v[i]
      <3>1. w[f[i]] = v[i]
        BY <1>3 DEF Embeds
      <3>2. Lately(n, w, h)[e[i]] = w[g[e[i]]]
        BY <1>5, <1>6
      <3>3. QED
        BY <1>6, <3>1, <3>2
    <2>2. QED
      BY <2>1
  <1>10. Embeds(e, v, Lately(n, w, h))
    BY <1>1, <1>7, <1>8, <1>9 DEF Embeds
  <1>11. QED
    BY <1>10 DEF Covered

LEMMA LatelyIsYoung ==
  ASSUME NEW n \in Nat, NEW h \in Nat, NEW s \in Seq(Nat)
  PROVE  \A i \in DOMAIN Lately(n, s, h) : n - Lately(n, s, h)[i] < h
  <1> DEFINE kept == Young(n, s, h)
  <1>1. /\ DOMAIN Lately(n, s, h) = 1 .. Cardinality(kept)
        /\ \E f : Selects(f, s, kept)
    BY LatelyIs
  <1>2. PICK f : Selects(f, s, kept)
    BY <1>1
  <1>k. Lately(n, s, h) = Pick(s, kept) /\ \A i \in kept : n - s[i] < h
    BY DEF Young, Lately
  <1> HIDE DEF kept
  <1>3. f \in [1 .. Cardinality(kept) -> kept]
        /\ \A i \in 1 .. Cardinality(kept) : Lately(n, s, h)[i] = s[f[i]]
    BY <1>2, <1>k DEF Selects
  <1>4. ASSUME NEW i \in DOMAIN Lately(n, s, h) PROVE n - Lately(n, s, h)[i] < h
    <2>1. f[i] \in kept /\ Lately(n, s, h)[i] = s[f[i]]
      BY <1>1, <1>3
    <2>2. QED
      BY <1>k, <2>1
  <1>5. QED
    BY <1>4

LEMMA LatelyKeepsCover ==
  ASSUME NEW n \in Nat, NEW h \in Nat, NEW v \in Seq(Nat), NEW w \in Seq(Nat), Covered(v, w)
  PROVE  Covered(Lately(n, v, h), Lately(n, w, h))
  <1>1. Covered(Lately(n, v, h), w)
    BY LatelyIsCovered, CoveredIsTransitive
  <1>2. Lately(n, v, h) \in Seq(Nat)
    BY LatelyIs
  <1>3. \A i \in DOMAIN Lately(n, v, h) : n - Lately(n, v, h)[i] < h
    BY LatelyIsYoung
  <1>4. QED
    BY <1>1, <1>2, <1>3, YoungIsCovered

(* Pruning twice loses no more than pruning once, if the first is no       *)
(* stricter.                                                               *)
LEMMA PrunedBefore ==
  ASSUME NEW n \in Nat, NEW m \in Nat, NEW h \in Nat, NEW s \in Seq(Nat), m <= n
  PROVE  Covered(Lately(n, s, h), Lately(n, Lately(m, s, h), h))
  <1> DEFINE young == Lately(n, s, h)
             older == Lately(m, s, h)
  <1>1. young \in Seq(Nat) /\ older \in Seq(Nat) /\ Covered(young, s)
        /\ \A i \in DOMAIN young : n - young[i] < h
    BY LatelyIs, LatelyIsCovered, LatelyIsYoung
  <1>2. \A i \in DOMAIN young : young[i] \in Nat
    BY <1>1, ElementOfSeq, LenProperties
  <1> HIDE DEF young
  <1>3. \A i \in DOMAIN young : m - young[i] < h
    BY <1>1, <1>2
  <1>4. Covered(young, older)
    BY <1>1, <1>3, YoungIsCovered DEF older
  <1> HIDE DEF older
  <1>5. Covered(young, Lately(n, older, h))
    BY <1>1, <1>4, YoungIsCovered
  <1>6. QED
    BY <1>5 DEF young, older

LEMMA AppendKeepsCover ==
  ASSUME NEW v \in Seq(Nat), NEW w \in Seq(Nat), Covered(v, w), NEW x \in Nat
  PROVE  Covered(Append(v, x), Append(w, x))
  <1>1. /\ Len(v) \in Nat /\ DOMAIN v = 1 .. Len(v)
        /\ Len(w) \in Nat /\ DOMAIN w = 1 .. Len(w)
    BY LenProperties
  <1>2. /\ DOMAIN Append(v, x) = 1 .. Len(v) + 1 /\ DOMAIN Append(w, x) = 1 .. Len(w) + 1
        /\ Append(v, x)[Len(v) + 1] = x /\ Append(w, x)[Len(w) + 1] = x
        /\ \A i \in 1 .. Len(v) : Append(v, x)[i] = v[i]
        /\ \A i \in 1 .. Len(w) : Append(w, x)[i] = w[i]
    BY <1>1, AppendProperties
  <1>3. PICK f : Embeds(f, v, w)
    BY DEF Covered
  <1>4. /\ f \in [1 .. Len(v) -> 1 .. Len(w)]
        /\ \A i, j \in 1 .. Len(v) : f[i] = f[j] => i = j
        /\ \A i \in 1 .. Len(v) : w[f[i]] = v[i]
    BY <1>1, <1>3 DEF Embeds
  <1> DEFINE top == Len(v) + 1
             g == [i \in 1 .. top |-> IF i = top THEN Len(w) + 1 ELSE f[i]]
  <1>l. /\ top \in 1 .. top
        /\ \A i \in 1 .. top : i = top \/ i \in 1 .. Len(v)
        /\ \A i \in 1 .. Len(v) : i \in 1 .. top /\ i # top
    BY <1>1
  <1> HIDE DEF top
  <1>5. /\ \A i \in 1 .. Len(v) : g[i] = f[i]
        /\ g[top] = Len(w) + 1
        /\ DOMAIN g = 1 .. top /\ g = [i \in 1 .. top |-> g[i]]
    BY <1>l
  <1> HIDE DEF g
  <1>6. \A i \in 1 .. Len(v) : f[i] \in 1 .. Len(w) /\ f[i] # Len(w) + 1
    BY <1>1, <1>4
  <1>7. g \in [1 .. top -> 1 .. Len(w) + 1]
    <2>1. ASSUME NEW i \in 1 .. top PROVE g[i] \in 1 .. Len(w) + 1
      <3>a. Len(w) + 1 \in 1 .. Len(w) + 1 /\ 1 .. Len(w) \subseteq 1 .. Len(w) + 1
        BY <1>1
      <3>1. CASE i = top
        BY <1>5, <3>1, <3>a
      <3>2. CASE i # top
        BY <1>5, <1>6, <1>l, <3>2, <3>a
      <3>3. QED
        BY <3>1, <3>2
    <2>2. QED
      BY <1>5, <2>1
  <1>8. \A i, j \in 1 .. top : g[i] = g[j] => i = j
    <2>1. ASSUME NEW i \in 1 .. top, NEW j \in 1 .. top, g[i] = g[j] PROVE i = j
      <3>1. CASE i = top /\ j = top
        BY <3>1
      <3>2. CASE i = top /\ j # top
        BY <1>5, <1>6, <1>l, <2>1, <3>2
      <3>3. CASE i # top /\ j = top
        BY <1>5, <1>6, <1>l, <2>1, <3>3
      <3>4. CASE i # top /\ j # top
        BY <1>4, <1>5, <1>l, <2>1, <3>4
      <3>5. QED
        BY <3>1, <3>2, <3>3, <3>4
    <2>2. QED
      BY <2>1
  <1>9. \A i \in 1 .. top : Append(w, x)[g[i]] = Append(v, x)[i]
    <2>1. ASSUME NEW i \in 1 .. top PROVE Append(w, x)[g[i]] = Append(v, x)[i]
      <3>1. CASE i = top
        BY <1>2, <1>5, <3>1 DEF top
      <3>2. CASE i # top
        <4>1. i \in 1 .. Len(v) /\ g[i] = f[i] /\ f[i] \in 1 .. Len(w)
          BY <1>5, <1>6, <1>l, <3>2
        <4>2. QED
          BY <1>2, <1>4, <4>1
      <3>3. QED
        BY <3>1, <3>2
    <2>2. QED
      BY <2>1
  <1>d. DOMAIN Append(v, x) = 1 .. top
    BY <1>2 DEF top
  <1>10. Embeds(g, Append(v, x), Append(w, x))
    BY <1>2, <1>7, <1>8, <1>9, <1>d DEF Embeds
  <1>11. QED
    BY <1>10 DEF Covered

(* One more admission is one more, and time only takes away.               *)
LEMMA OneMore ==
  ASSUME NEW n \in Nat, NEW h \in Nat, NEW s \in Seq(Nat), NEW x \in Nat
  PROVE  Len(Lately(n, Append(s, x), h)) <= Len(Lately(n, s, h)) + 1
  <1>1. Len(s) \in Nat /\ DOMAIN s = 1 .. Len(s)
    BY LenProperties
  <1>2. /\ Append(s, x) \in Seq(Nat) /\ DOMAIN Append(s, x) = 1 .. Len(s) + 1
        /\ \A i \in 1 .. Len(s) : Append(s, x)[i] = s[i]
    BY <1>1, AppendProperties
  <1> DEFINE before == Young(n, s, h)
             after == Young(n, Append(s, x), h)
  <1>3. after \subseteq before \cup {Len(s) + 1}
    BY <1>1, <1>2 DEF Young
  <1>4. /\ Len(Lately(n, s, h)) = Cardinality(before)
        /\ Len(Lately(n, Append(s, x), h)) = Cardinality(after)
        /\ IsFiniteSet(before) /\ IsFiniteSet(after)
        /\ Cardinality(before) \in Nat /\ Cardinality(after) \in Nat
    BY <1>2, LatelyIs
  <1> HIDE DEF before, after
  <1>5. /\ IsFiniteSet(before \cup {Len(s) + 1})
        /\ Cardinality(before \cup {Len(s) + 1}) =
             IF Len(s) + 1 \in before THEN Cardinality(before) ELSE Cardinality(before) + 1
    BY <1>4, FS_AddElement
  <1>6. Cardinality(after) <= Cardinality(before \cup {Len(s) + 1})
    BY <1>3, <1>5, FS_Subset
  <1>7. QED
    BY <1>4, <1>5, <1>6

LEMMA LaterIsFewer ==
  ASSUME NEW n \in Nat, NEW m \in Nat, NEW h \in Nat, NEW s \in Seq(Nat), m <= n
  PROVE  Len(Lately(n, s, h)) <= Len(Lately(m, s, h))
  <1>1. Len(s) \in Nat /\ DOMAIN s = 1 .. Len(s) /\ \A i \in 1 .. Len(s) : s[i] \in Nat
    BY LenProperties, ElementOfSeq
  <1>2. Young(n, s, h) \subseteq Young(m, s, h)
    BY <1>1 DEF Young
  <1>3. /\ Len(Lately(n, s, h)) = Cardinality(Young(n, s, h))
        /\ Len(Lately(m, s, h)) = Cardinality(Young(m, s, h))
        /\ IsFiniteSet(Young(m, s, h))
    BY LatelyIs
  <1>4. QED
    BY <1>2, <1>3, FS_Subset

LEMMA EmptyIsCovered ==
  ASSUME NEW s, NEW w, DOMAIN s = {}
  PROVE  Covered(s, w)
  <1>1. Embeds([i \in {} |-> 0], s, w)
    BY DEF Embeds
  <1>2. QED
    BY <1>1 DEF Covered

LEMMA NothingIsYoung ==
  ASSUME NEW n \in Nat, NEW h \in Nat
  PROVE  /\ Len(Lately(n, <<>>, h)) = 0 /\ DOMAIN Lately(n, <<>>, h) = {}
         /\ <<>> \in Seq(Nat)
  <1> DEFINE e == <<>>
  <1>1. e \in Seq(Nat) /\ DOMAIN e = {}
    OBVIOUS
  <1> HIDE DEF e
  <1>2. Young(n, e, h) = {}
    BY <1>1 DEF Young
  <1>3. /\ Len(Lately(n, e, h)) = 0
        /\ DOMAIN Lately(n, e, h) = 1 .. 0
    <2>1. /\ Len(Lately(n, e, h)) = Cardinality(Young(n, e, h))
          /\ DOMAIN Lately(n, e, h) = 1 .. Cardinality(Young(n, e, h))
      BY <1>1, LatelyIs
    <2>2. Cardinality(Young(n, e, h)) = 0
      BY <1>2, FS_EmptySet
    <2>3. QED
      BY <2>1, <2>2
  <1>4. 1 .. 0 = {}
    OBVIOUS
  <1>5. QED
    BY <1>1, <1>3, <1>4 DEF e

(* The caller that is forgotten is one that so many others came after.     *)
LEMMA DroppedIsOutrun ==
  ASSUME NEW w, NEW s \in Seq(Callers), DOMAIN w \subseteq ToSet(s),
         MaxCallers \in Nat, Cardinality(DOMAIN w) > MaxCallers
  PROVE  Dropped(w, s) \in DOMAIN w /\ Dropped(w, s) \in Outrun(s)
  <1> DEFINE n == Len(s)
             kept == {i \in DOMAIN s : s[i] \in DOMAIN w}
  <1>1. n \in Nat /\ DOMAIN s = 1 .. n
    BY LenProperties
  <1>k. /\ kept \in SUBSET (1 .. n)
        /\ \A d \in DOMAIN w : \E i \in kept : s[i] = d
        /\ \A i \in kept : s[i] \in DOMAIN w
    BY <1>1 DEF ToSet
  <1>2. PICK f : Selects(f, s, kept)
    BY <1>1, <1>k, PickIs
  <1>r. Remembered(w, s) = Pick(s, kept)
    BY DEF Remembered
  <1> HIDE DEF kept
  <1>3. Cardinality(kept) \in Nat
    <2>1. Cardinality(kept) \in 0 .. n
      BY <1>1, <1>k, PickIs
    <2>2. QED
      BY <1>1, <2>1
  <1>4. /\ f \in [1 .. Cardinality(kept) -> kept]
        /\ \A i, j \in 1 .. Cardinality(kept) : i < j => f[i] < f[j]
        /\ \A k \in kept : \E i \in 1 .. Cardinality(kept) : f[i] = k
        /\ Pick(s, kept) = [i \in 1 .. Cardinality(kept) |-> s[f[i]]]
    BY <1>2 DEF Selects
  <1>5. 1 \in 1 .. Cardinality(kept)
    <2>1. kept # {}
      <3>1. CASE DOMAIN w = {}
        BY <3>1, FS_EmptySet
      <3>2. CASE DOMAIN w # {}
        BY <1>k, <3>2
      <3>3. QED
        BY <3>1, <3>2
    <2>2. PICK k \in kept : TRUE
      BY <2>1
    <2>3. PICK i \in 1 .. Cardinality(kept) : f[i] = k
      BY <1>4
    <2>4. QED
      BY <1>3, <2>3
  <1>6. Dropped(w, s) = s[f[1]] /\ f[1] \in kept
    BY <1>4, <1>5, <1>r DEF Dropped
  <1>7. ASSUME NEW k \in kept PROVE f[1] <= k
    <2>1. PICK i \in 1 .. Cardinality(kept) : f[i] = k
      BY <1>4
    <2>2. i = 1 \/ 1 < i
      BY <1>3, <2>1
    <2>3. f[1] \in Nat /\ k \in Nat
      <3>1. f[1] \in 1 .. n /\ k \in 1 .. n
        BY <1>6, <1>k
      <3>2. QED
        BY <1>1, <3>1
    <2>4. QED
      BY <1>4, <1>5, <2>1, <2>2, <2>3
  <1>8. f[1] \in 1 .. n
    BY <1>6, <1>k
  <1>9. n - f[1] + 1 > MaxCallers
    <2> DEFINE places == f[1] .. n
               of == [i \in places |-> s[i]]
    <2>1. IsFiniteSet(places) /\ Cardinality(places) = n - f[1] + 1
      <3> DEFINE low == f[1]
                 high == n
      <3>1. low \in Int /\ high \in Int /\ low <= high
        BY <1>1, <1>8
      <3> HIDE DEF low, high
      <3>2. IsFiniteSet(low .. high) /\ Cardinality(low .. high) = high - low + 1
        BY <3>1, FS_Interval
      <3>3. QED
        BY <3>2 DEF low, high
    <2>2. DOMAIN w \subseteq {of[i] : i \in places}
      <3>1. ASSUME NEW d \in DOMAIN w PROVE \E i \in places : of[i] = d
        <4>1. PICK i \in kept : s[i] = d
          BY <1>k
        <4>2. i \in places
          BY <1>1, <1>7, <1>8, <1>k, <4>1
        <4>3. QED
          BY <4>1, <4>2
      <3>2. QED
        BY <3>1
    <2>3. of \in Surjection(places, {of[i] : i \in places})
      BY DEF Surjection
    <2> HIDE DEF of, places
    <2>4. /\ IsFiniteSet({of[i] : i \in places})
          /\ Cardinality({of[i] : i \in places}) <= Cardinality(places)
      BY <2>1, <2>3, FS_Surjection
    <2>5. IsFiniteSet(DOMAIN w)
      BY <2>2, <2>4, FS_Subset
    <2>6. Cardinality(DOMAIN w) <= Cardinality({of[i] : i \in places})
      BY <2>2, <2>4, FS_Subset
    <2>7. Cardinality(DOMAIN w) \in Nat /\ Cardinality({of[i] : i \in places}) \in Nat
      BY <2>4, <2>5, FS_CardinalityType
    <2>8. QED
      BY <1>1, <1>8, <2>1, <2>4, <2>6, <2>7
  <1>10. f[1] \in 1 .. Len(s) - MaxCallers
    BY <1>1, <1>8, <1>9
  <1>11. QED
    BY <1>6, <1>10, <1>k DEF Outrun

-----------------------------------------------------------------------------
(* What the limiter sees of a caller at the moment n.                      *)
Seen(w, n, c) == IF c \in DOMAIN w THEN Lately(n, w[c], Hour) ELSE <<>>

UnderLimit(s, n) ==
  /\ PerMinute # 0 => Len(Lately(n, s, Minute)) <= PerMinute
  /\ PerHour # 0 => Len(Lately(n, s, Hour)) <= PerHour

(* A window remembers at least what its caller was admitted for since it   *)
(* may have been forgotten.                                                *)
Accounts(w, s, n) ==
  /\ s = [c \in Callers |-> s[c]]
  /\ \A c \in DOMAIN w : w[c] \in Seq(Nat)
  /\ \A c \in Callers : /\ s[c] \in Seq(Nat)
                        /\ Covered(Lately(n, s[c], Hour), Seen(w, n, c))
                        /\ UnderLimit(s[c], n)

LimiterInv ==
  /\ clock \in Nat /\ order \in Seq(Callers)
  /\ DOMAIN windows \subseteq ToSet(order) /\ DOMAIN windows \subseteq Callers
  /\ IsFiniteSet(DOMAIN windows) /\ Cardinality(DOMAIN windows) <= MaxCallers
  /\ Accounts(windows, streak, clock)

LEMMA WithinIsLately ==
  \A times, span : Within(times, span) = Lately(clock, times, span)
  BY DEF Within, Lately, Young

LEMMA EntriesAreSeen == \A c : Entries(c) = Seen(windows, clock, c)
  BY WithinIsLately DEF Entries, Seen

LEMMA SeenIsList ==
  ASSUME ServerPolicyAssumption, NEW w, NEW n \in Nat, NEW c, \A d \in DOMAIN w : w[d] \in Seq(Nat)
  PROVE  Seen(w, n, c) \in Seq(Nat)
  <1>1. <<>> \in Seq(Nat)
    OBVIOUS
  <1>2. c \in DOMAIN w => Lately(n, w[c], Hour) \in Seq(Nat)
    BY LatelyIs DEF ServerPolicyAssumption
  <1>3. QED
    BY <1>1, <1>2 DEF Seen

LEMMA LimiterInit == ASSUME ServerPolicyAssumption, spInit PROVE LimiterInv
  <1>1. clock = 0 /\ order = <<>> /\ DOMAIN windows = {} /\ streak = [c \in Callers |-> <<>>]
    BY DEF spInit
  <1>2. IsFiniteSet(DOMAIN windows) /\ Cardinality(DOMAIN windows) <= MaxCallers
    BY <1>1, FS_EmptySet DEF ServerPolicyAssumption
  <1>3. order \in Seq(Callers)
    BY <1>1
  <1>4. ASSUME NEW c \in Callers
        PROVE  /\ streak[c] \in Seq(Nat) /\ Covered(Lately(clock, streak[c], Hour), Seen(windows, clock, c))
               /\ UnderLimit(streak[c], clock)
    <2>1. streak[c] = <<>> /\ <<>> \in Seq(Nat)
      BY <1>1
    <2>2. /\ Len(Lately(clock, <<>>, Hour)) = 0 /\ Len(Lately(clock, <<>>, Minute)) = 0
          /\ DOMAIN Lately(clock, <<>>, Hour) = {}
      BY <1>1, NothingIsYoung DEF ServerPolicyAssumption
    <2>3. Covered(Lately(clock, streak[c], Hour), Seen(windows, clock, c))
      BY <2>1, <2>2, EmptyIsCovered
    <2>4. UnderLimit(streak[c], clock)
      BY <2>1, <2>2 DEF UnderLimit, ServerPolicyAssumption
    <2>5. QED
      BY <2>1, <2>3, <2>4
  <1>5. Accounts(windows, streak, clock)
    BY <1>1, <1>4 DEF Accounts
  <1>6. QED
    BY <1>1, <1>2, <1>3, <1>5 DEF LimiterInv

(* A refusal prunes the window, which takes nothing that counts.           *)
LEMMA RefusalHolds ==
  ASSUME ServerPolicyAssumption, LimiterInv, NEW c \in Callers, RateLimited(c),
         UNCHANGED clock
  PROVE  LimiterInv'
  <1>1. /\ clock \in Nat /\ Accounts(windows, streak, clock) /\ Hour \in Nat /\ Minute \in Nat
    BY DEF LimiterInv, ServerPolicyAssumption
  <1>2. c \in DOMAIN windows
    <2>1. ASSUME c \notin DOMAIN windows PROVE FALSE
      <3>1. Entries(c) = <<>>
        BY <2>1 DEF Entries
      <3>2. Len(Within(Entries(c), Minute)) = 0 /\ Len(Within(Entries(c), Hour)) = 0
        BY <1>1, <3>1, WithinIsLately, NothingIsYoung
      <3>3. QED
        BY <3>2 DEF RateLimited, Full, ServerPolicyAssumption
    <2>2. QED
      BY <2>1
  <1>3. /\ DOMAIN windows' = DOMAIN windows /\ UNCHANGED <<order, streak, clock>>
        /\ \A d \in DOMAIN windows :
             windows'[d] = IF d = c THEN Seen(windows, clock, c) ELSE windows[d]
    BY <1>2, EntriesAreSeen DEF RateLimited, WithEntries
  <1>4. Seen(windows, clock, c) = Lately(clock, windows[c], Hour) /\ windows[c] \in Seq(Nat)
    BY <1>1, <1>2 DEF Seen, Accounts
  <1>5. ASSUME NEW d \in DOMAIN windows' PROVE windows'[d] \in Seq(Nat)
    <2>1. Lately(clock, windows[c], Hour) \in Seq(Nat)
      BY <1>1, <1>4, LatelyIs
    <2>2. CASE d = c
      BY <1>3, <1>4, <2>1, <2>2
    <2>3. CASE d # c
      BY <1>1, <1>3, <2>3 DEF Accounts
    <2>4. QED
      BY <2>2, <2>3
  <1>6. ASSUME NEW d \in Callers
        PROVE  Covered(Lately(clock, streak[d], Hour), Seen(windows', clock, d))
    <2>1. Covered(Lately(clock, streak[d], Hour), Seen(windows, clock, d))
      BY <1>1 DEF Accounts
    <2>2. CASE d # c
      BY <1>3, <2>1, <2>2 DEF Seen
    <2>3. CASE d = c
      <3>1. Covered(Lately(clock, windows[c], Hour),
                    Lately(clock, Lately(clock, windows[c], Hour), Hour))
        BY <1>1, <1>4, PrunedBefore
      <3>2. Seen(windows', clock, c) = Lately(clock, Lately(clock, windows[c], Hour), Hour)
        BY <1>2, <1>3, <1>4 DEF Seen
      <3>3. QED
        BY <1>4, <2>1, <2>3, <3>1, <3>2, CoveredIsTransitive
    <2>4. QED
      BY <2>2, <2>3
  <1>7. Accounts(windows', streak', clock')
    BY <1>1, <1>3, <1>5, <1>6 DEF Accounts
  <1>8. QED
    BY <1>3, <1>7 DEF LimiterInv

(* An admission is counted in the window and by the caller alike; who is   *)
(* forgotten starts anew.                                                  *)
LEMMA AdmissionHolds ==
  ASSUME ServerPolicyAssumption, LimiterInv, NEW c \in Callers, NEW denied, Admit(c, denied),
         UNCHANGED clock
  PROVE  LimiterInv'
  <1> DEFINE new == Append(Seen(windows, clock, c), clock)
             w == WithEntries(c, new)
  <1>1. /\ clock \in Nat /\ Accounts(windows, streak, clock) /\ Hour \in Nat /\ Minute \in Nat
        /\ MaxCallers \in Nat /\ PerMinute \in Nat /\ PerHour \in Nat /\ clock' = clock
        /\ order \in Seq(Callers)
    BY DEF LimiterInv, ServerPolicyAssumption
  <1>2. /\ DOMAIN w = DOMAIN windows \cup {c} /\ w[c] = new
        /\ \A d \in DOMAIN windows : d # c => w[d] = windows[d]
    BY DEF WithEntries
  <1>3. windows' = Bounded(w, order')
    BY EntriesAreSeen DEF Admit
  <1>s. Seen(windows, clock, c) \in Seq(Nat)
    BY <1>1, SeenIsList DEF Accounts
  <1>n. new \in Seq(Nat)
    BY <1>1, <1>s, AppendProperties
  <1>f. ~ Full(Seen(windows, clock, c))
    BY EntriesAreSeen DEF Admit
  <1>o. order' = Append(Pick(order, {i \in DOMAIN order : order[i] # c}), c)
    BY DEF Admit
  <1>t. /\ streak' = [d \in Callers |-> streak'[d]]
        /\ \A d \in Callers :
             streak'[d] = IF d \in Outrun(order') THEN <<>>
                          ELSE IF d = c THEN Append(Lately(clock, streak[c], Hour), clock)
                          ELSE streak[d]
    BY WithinIsLately DEF Admit
  <1>4. order' \in Seq(Callers) /\ ToSet(order) \cup {c} \subseteq ToSet(order')
    <2> DEFINE kept == {i \in DOMAIN order : order[i] # c}
               rest == Pick(order, kept)
    <2>1. kept \in SUBSET (DOMAIN order)
      OBVIOUS
    <2>k. \A i \in DOMAIN order : order[i] # c => i \in kept
      OBVIOUS
    <2> HIDE DEF kept
    <2>2. /\ rest \in Seq(Callers) /\ DOMAIN rest = 1 .. Cardinality(kept)
          /\ \A i \in kept : \E m \in 1 .. Cardinality(kept) : rest[m] = order[i]
      BY <1>1, <2>1, PickKeeps
    <2> HIDE DEF rest
    <2>3. /\ Append(rest, c) \in Seq(Callers) /\ Append(rest, c)[Len(rest) + 1] = c
          /\ \A i \in 1 .. Len(rest) : Append(rest, c)[i] = rest[i]
          /\ Len(Append(rest, c)) = Len(rest) + 1
      BY <2>2, AppendProperties
    <2>4. /\ Len(rest) \in Nat /\ DOMAIN rest = 1 .. Len(rest)
          /\ DOMAIN Append(rest, c) = 1 .. Len(rest) + 1
      BY <2>2, <2>3, LenProperties
    <2>5. c \in ToSet(Append(rest, c))
      BY <2>3, <2>4 DEF ToSet
    <2>6. ASSUME NEW d \in ToSet(order), d # c PROVE d \in ToSet(Append(rest, c))
      <3>1. PICK i \in DOMAIN order : order[i] = d
        BY DEF ToSet
      <3>2. PICK m \in DOMAIN rest : rest[m] = d
        BY <2>2, <2>6, <2>k, <3>1
      <3>3. m \in DOMAIN Append(rest, c) /\ Append(rest, c)[m] = d
        BY <2>3, <2>4, <3>2
      <3>4. QED
        BY <3>3 DEF ToSet
    <2>7. order' = Append(rest, c)
      BY <1>o DEF rest, kept
    <2>8. QED
      BY <2>3, <2>5, <2>6, <2>7
  <1>5. /\ DOMAIN w \subseteq ToSet(order') /\ DOMAIN w \subseteq Callers
        /\ IsFiniteSet(DOMAIN w) /\ Cardinality(DOMAIN w) \in Nat
        /\ Cardinality(DOMAIN w) <= MaxCallers + 1
    <2>1. IsFiniteSet(DOMAIN windows) /\ Cardinality(DOMAIN windows) <= MaxCallers
      BY DEF LimiterInv
    <2>2. Cardinality(DOMAIN windows) \in Nat
      BY <2>1, FS_CardinalityType
    <2>3. /\ IsFiniteSet(DOMAIN windows \cup {c})
          /\ Cardinality(DOMAIN windows \cup {c}) =
               IF c \in DOMAIN windows THEN Cardinality(DOMAIN windows)
               ELSE Cardinality(DOMAIN windows) + 1
      BY <2>1, FS_AddElement
    <2>4. DOMAIN w \subseteq ToSet(order') /\ DOMAIN w \subseteq Callers
      BY <1>2, <1>4 DEF LimiterInv
    <2> HIDE DEF w
    <2>5. QED
      BY <1>1, <1>2, <2>1, <2>2, <2>3, <2>4
  <1> HIDE DEF w
  <1>6. /\ DOMAIN windows' \subseteq DOMAIN w
        /\ \A d \in DOMAIN windows' : windows'[d] = w[d]
        /\ \A d \in DOMAIN w : d \in DOMAIN windows' \/ d \in Outrun(order')
        /\ IsFiniteSet(DOMAIN windows') /\ Cardinality(DOMAIN windows') <= MaxCallers
    <2>1. CASE Cardinality(DOMAIN w) <= MaxCallers
      <3>1. windows' = w
        BY <1>3, <2>1 DEF Bounded
      <3>2. QED
        BY <1>5, <2>1, <3>1
    <2>2. CASE ~ Cardinality(DOMAIN w) <= MaxCallers
      <3> DEFINE gone == Dropped(w, order')
      <3>1. gone \in DOMAIN w /\ gone \in Outrun(order')
        BY <1>1, <1>4, <1>5, <2>2, DroppedIsOutrun
      <3>2. windows' = [d \in DOMAIN w \ {gone} |-> w[d]]
        BY <1>3, <2>2 DEF Bounded
      <3> HIDE DEF gone
      <3>3. IsFiniteSet(DOMAIN w \ {gone}) /\ Cardinality(DOMAIN w \ {gone}) = Cardinality(DOMAIN w) - 1
        BY <1>5, <3>1, FS_RemoveElement
      <3>4. DOMAIN windows' = DOMAIN w \ {gone}
        BY <3>2
      <3>5. IsFiniteSet(DOMAIN windows') /\ Cardinality(DOMAIN windows') <= MaxCallers
        BY <1>1, <1>5, <3>3, <3>4
      <3>6. QED
        BY <3>1, <3>2, <3>4, <3>5
    <2>3. QED
      BY <2>1, <2>2
  <1>7. ASSUME NEW d \in DOMAIN windows' PROVE windows'[d] \in Seq(Nat)
    <2>1. windows'[d] = w[d] /\ d \in DOMAIN windows \cup {c}
      BY <1>2, <1>6
    <2>2. CASE d = c
      BY <1>2, <1>n, <2>1, <2>2
    <2>3. CASE d # c
      BY <1>1, <1>2, <2>1, <2>3 DEF Accounts
    <2>4. QED
      BY <2>2, <2>3
  <1>8. ASSUME NEW d \in Callers
        PROVE  /\ streak'[d] \in Seq(Nat)
               /\ Covered(Lately(clock, streak'[d], Hour), Seen(windows', clock, d))
               /\ UnderLimit(streak'[d], clock)
    <2>0. /\ streak[d] \in Seq(Nat) /\ UnderLimit(streak[d], clock)
          /\ Covered(Lately(clock, streak[d], Hour), Seen(windows, clock, d))
      BY <1>1 DEF Accounts
    <2>1. CASE d \in Outrun(order')
      <3>1. streak'[d] = <<>> /\ <<>> \in Seq(Nat)
        BY <1>t, <2>1
      <3>2. /\ Len(Lately(clock, <<>>, Hour)) = 0 /\ Len(Lately(clock, <<>>, Minute)) = 0
            /\ DOMAIN Lately(clock, <<>>, Hour) = {}
        BY <1>1, NothingIsYoung
      <3>3. Covered(Lately(clock, streak'[d], Hour), Seen(windows', clock, d))
        BY <3>1, <3>2, EmptyIsCovered
      <3>4. UnderLimit(streak'[d], clock)
        BY <1>1, <3>1, <3>2 DEF UnderLimit
      <3>5. QED
        BY <3>1, <3>3, <3>4
    <2>2. CASE d \notin Outrun(order') /\ d # c
      <3>1. streak'[d] = streak[d]
        BY <1>t, <2>2
      <3>2. Seen(windows', clock, d) = Seen(windows, clock, d)
        BY <1>2, <1>6, <2>2 DEF Seen
      <3>3. QED
        BY <2>0, <3>1, <3>2
    <2>3. CASE d \notin Outrun(order') /\ d = c
      <3> DEFINE past == Lately(clock, streak[c], Hour)
                 seen == Seen(windows, clock, c)
      <3>1. streak'[d] = Append(past, clock) /\ past \in Seq(Nat)
        BY <1>1, <1>t, <2>0, <2>3, LatelyIs
      <3>2. Append(past, clock) \in Seq(Nat)
        BY <1>1, <3>1, AppendProperties
      <3>3. Covered(past, seen)
        BY <2>0, <2>3
      <3>4. Covered(Append(past, clock), new)
        BY <1>1, <1>s, <3>1, <3>3, AppendKeepsCover
      <3>5. Seen(windows', clock, d) = Lately(clock, new, Hour)
        BY <1>2, <1>6, <2>3 DEF Seen
      <3>6. Covered(Lately(clock, Append(past, clock), Hour), Lately(clock, new, Hour))
        BY <1>1, <1>n, <3>2, <3>4, LatelyKeepsCover
      <3>7. ASSUME NEW span \in Nat, NEW limit \in Nat, Len(Lately(clock, seen, span)) < limit
            PROVE  Len(Lately(clock, Append(past, clock), span)) <= limit
        <4>1. Covered(Lately(clock, past, span), Lately(clock, seen, span))
          BY <1>1, <1>s, <3>1, <3>3, LatelyKeepsCover
        <4>2. Lately(clock, past, span) \in Seq(Nat) /\ Lately(clock, seen, span) \in Seq(Nat)
          BY <1>1, <1>s, <3>1, LatelyIs
        <4>3. Len(Lately(clock, past, span)) <= Len(Lately(clock, seen, span))
          BY <4>1, <4>2, CoveredIsShorter
        <4>4. Len(Lately(clock, Append(past, clock), span)) <= Len(Lately(clock, past, span)) + 1
          BY <1>1, <3>1, OneMore
        <4>5. /\ Len(Lately(clock, past, span)) \in Nat /\ Len(Lately(clock, seen, span)) \in Nat
              /\ Len(Lately(clock, Append(past, clock), span)) \in Nat
          BY <1>1, <3>2, <4>2, LatelyIs, LenProperties
        <4>6. QED
          BY <3>7, <4>3, <4>4, <4>5
      <3>8. /\ PerMinute # 0 => ~ Len(Lately(clock, seen, Minute)) >= PerMinute
            /\ PerHour # 0 => ~ Len(Lately(clock, seen, Hour)) >= PerHour
        BY <1>f, WithinIsLately DEF Full
      <3>9. Len(Lately(clock, seen, Minute)) \in Nat /\ Len(Lately(clock, seen, Hour)) \in Nat
        BY <1>1, <1>s, LatelyIs, LenProperties
      <3> HIDE DEF past, seen
      <3>10. UnderLimit(Append(past, clock), clock)
        <4>1. PerMinute # 0 => Len(Lately(clock, Append(past, clock), Minute)) <= PerMinute
          BY <1>1, <3>7, <3>8, <3>9
        <4>2. PerHour # 0 => Len(Lately(clock, Append(past, clock), Hour)) <= PerHour
          BY <1>1, <3>7, <3>8, <3>9
        <4>3. QED
          BY <4>1, <4>2 DEF UnderLimit
      <3>11. QED
        BY <3>1, <3>2, <3>5, <3>6, <3>10
    <2>4. QED
      BY <2>1, <2>2, <2>3
  <1>9. Accounts(windows', streak', clock')
    BY <1>1, <1>7, <1>8, <1>t DEF Accounts
  <1>10. DOMAIN windows' \subseteq ToSet(order') /\ DOMAIN windows' \subseteq Callers
    BY <1>5, <1>6
  <1>11. QED
    BY <1>1, <1>4, <1>6, <1>9, <1>10 DEF LimiterInv

(* Time passes: what counts becomes less, on both sides.                   *)
LEMMA PassHolds ==
  ASSUME ServerPolicyAssumption, LimiterInv, Pass
  PROVE  LimiterInv'
  <1>1. /\ clock \in Nat /\ clock' = clock + 1 /\ Accounts(windows, streak, clock)
        /\ Hour \in Nat /\ Minute \in Nat /\ UNCHANGED <<windows, order, streak>>
        /\ clock' \in Nat /\ clock <= clock' /\ PerMinute \in Nat /\ PerHour \in Nat
    BY DEF LimiterInv, ServerPolicyAssumption, Pass
  <1>2. ASSUME NEW c \in Callers
        PROVE  /\ Covered(Lately(clock', streak[c], Hour), Seen(windows, clock', c))
               /\ UnderLimit(streak[c], clock')
    <2> DEFINE n == clock'
               s == streak[c]
               old == Lately(clock, s, Hour)
               seen == Seen(windows, clock, c)
    <2>0. /\ s \in Seq(Nat) /\ UnderLimit(s, clock) /\ Covered(old, seen)
          /\ n \in Nat /\ clock <= n
      BY <1>1 DEF Accounts
    <2>1. old \in Seq(Nat) /\ seen \in Seq(Nat)
      BY <1>1, <2>0, LatelyIs, SeenIsList DEF Accounts
    <2> HIDE DEF n
    <2>2. Covered(Lately(n, s, Hour), Lately(n, old, Hour))
      BY <1>1, <2>0, PrunedBefore
    <2>3. Covered(Lately(n, old, Hour), Lately(n, seen, Hour))
      BY <1>1, <2>0, <2>1, LatelyKeepsCover
    <2>4. Covered(Lately(n, seen, Hour), Seen(windows, n, c))
      <3>1. CASE c \in DOMAIN windows
        <4>1. windows[c] \in Seq(Nat) /\ seen = Lately(clock, windows[c], Hour)
              /\ Seen(windows, n, c) = Lately(n, windows[c], Hour)
          BY <1>1, <3>1 DEF Accounts, Seen
        <4>2. Covered(seen, windows[c])
          BY <1>1, <4>1, LatelyIsCovered
        <4>3. QED
          BY <1>1, <2>0, <2>1, <4>1, <4>2, LatelyKeepsCover
      <3>2. CASE c \notin DOMAIN windows
        <4>1. seen = <<>>
          BY <3>2 DEF Seen
        <4>2. DOMAIN Lately(n, seen, Hour) = {}
          BY <1>1, <2>0, <4>1, NothingIsYoung
        <4>3. QED
          BY <4>2, EmptyIsCovered
      <3>3. QED
        BY <3>1, <3>2
    <2>5. Covered(Lately(n, s, Hour), Lately(n, seen, Hour))
      BY <2>2, <2>3, CoveredIsTransitive
    <2>6. Covered(Lately(n, s, Hour), Seen(windows, n, c))
      BY <2>4, <2>5, CoveredIsTransitive
    <2>7. /\ Len(Lately(n, s, Minute)) <= Len(Lately(clock, s, Minute))
          /\ Len(Lately(n, s, Hour)) <= Len(Lately(clock, s, Hour))
      BY <1>1, <2>0, LaterIsFewer
    <2>8. /\ Len(Lately(n, s, Minute)) \in Nat /\ Len(Lately(clock, s, Minute)) \in Nat
          /\ Len(Lately(n, s, Hour)) \in Nat /\ Len(Lately(clock, s, Hour)) \in Nat
      BY <1>1, <2>0, LatelyIs, LenProperties
    <2> HIDE DEF s
    <2>9. UnderLimit(s, n)
      BY <1>1, <2>0, <2>7, <2>8 DEF UnderLimit
    <2>10. QED
      BY <2>6, <2>9 DEF n, s
  <1>3. Accounts(windows', streak', clock')
    BY <1>1, <1>2 DEF Accounts
  <1>4. QED
    BY <1>1, <1>3 DEF LimiterInv

LEMMA LimiterNext ==
  ASSUME ServerPolicyAssumption, LimiterInv, [spNext]_spVars
  PROVE  LimiterInv'
  <1>1. CASE UNCHANGED <<clock, windows, order, streak>>
    BY <1>1 DEF LimiterInv, Accounts, Seen, UnderLimit
  <1>2. CASE Serve
    <2>1. UNCHANGED clock
      BY <1>2 DEF Serve
    <2>2. CASE \E c \in Callers : RateLimited(c)
      BY <2>1, <2>2, RefusalHolds
    <2>3. CASE \E c \in Callers, denied \in BOOLEAN : Admit(c, denied)
      BY <2>1, <2>3, AdmissionHolds
    <2>4. CASE NoPolicy \/ \E denied \in BOOLEAN : Anonymous(denied)
      BY <1>1, <2>1, <2>4 DEF NoPolicy, Anonymous
    <2>5. QED
      BY <1>2, <2>2, <2>3, <2>4 DEF Serve
  <1>3. QED
    BY <1>1, <1>2, PassHolds DEF spNext, spVars

(* LimitHolds: however callers take turns and are forgotten                *)
(* (middleware.py:40-74), no caller gets more requests through in a minute *)
(* or an hour than the policy allows, unless so many others came after one *)
(* of them that the limiter may have forgotten it.                         *)
THEOREM LimitsHold == ASSUME ServerPolicyAssumption PROVE spSpec => []LimitHolds
  <1>1. spInit => LimiterInv
    BY LimiterInit
  <1>2. LimiterInv /\ [spNext]_spVars => LimiterInv'
    BY LimiterNext
  <1>3. LimiterInv => LimitHolds
    BY WithinIsLately DEF LimiterInv, Accounts, UnderLimit, LimitHolds
  <1>4. QED
    BY <1>1, <1>2, <1>3, PTL DEF spSpec

-----------------------------------------------------------------------------
(* The services beside each other: a step is one of one service, and the   *)
(* variables of the others stay.                                           *)

LEMMA ServicesBegin ==
  ASSUME svInit
  PROVE  PlacedInv /\ GuardInv /\ EnforceInv
  BY PlacedInit, GuardInit, EnforceInit DEF svInit

LEMMA OneServiceSteps ==
  ASSUME [svNext]_svVars
  PROVE  /\ [chNext]_chVars
         /\ [cpNext]_cpVars
         /\ [enNiosNext \/ enTdNext]_enVars
         /\ [spNext]_spVars
  BY DEF svNext, svVars

LEMMA ServicesStep ==
  ASSUME PlacedInv, GuardInv, EnforceInv, [svNext]_svVars
  PROVE  PlacedInv' /\ GuardInv' /\ EnforceInv'
  <1>1. /\ [chNext]_chVars
        /\ [cpNext]_cpVars
        /\ [enNiosNext \/ enTdNext]_enVars
    BY OneServiceSteps
  <1>2. QED
    BY <1>1, PlacedNext, GuardNext, EnforceNext, ChallengeAssumption

(* NothingForeignIsLost, where the services run beside each other: a       *)
(* placed challenge, a host on the index label and a bound list are lost   *)
(* only to a write that was prepared before them (dcv.py:538,              *)
(* catalog_pointer.py:337, bloxone.py:947-987), for any number of          *)
(* claimants, publishers, operators and versions.                          *)
THEOREM ForeignWorkIsKept == svSpec => []NothingForeignIsLost
  <1>1. svInit => PlacedInv /\ GuardInv /\ EnforceInv
    BY ServicesBegin
  <1>2. PlacedInv /\ GuardInv /\ EnforceInv /\ [svNext]_svVars
          => PlacedInv' /\ GuardInv' /\ EnforceInv'
    BY ServicesStep
  <1>3. PlacedInv /\ GuardInv /\ EnforceInv => NothingForeignIsLost
    BY OneRuleIsOne
    DEF PlacedInv, PlacementsHold, VerdictIsFair, PlacedIsVerified, GuardInv, EnforceInv,
        NothingForeignIsLost
  <1>4. QED
    BY <1>1, <1>2, <1>3, PTL DEF svSpec

-----------------------------------------------------------------------------
(* Types: what each service keeps is made of what it was given.            *)

LEMMA WritesAreFew ==
  /\ MaxPlaced + Cardinality(Challenges) \in Nat \ {0} /\ MaxPlaced \in Nat
  /\ MaxPlaced <= MaxPlaced + Cardinality(Challenges)
  /\ MaxClock \in Nat /\ CacheTTL \in Nat
  BY ChallengeAssumption, FS_CardinalityType

LEMMA AnswerHasType ==
  ASSUME chTypeOK
  PROVE  Answer \in [records : SUBSET Records, until : -1 .. MaxClock + CacheTTL,
                     version : 0 .. MaxPlaced + Cardinality(Challenges)]
  <1>1. CASE StillCached
    BY <1>1 DEF Answer, chTypeOK
  <1>2. CASE ~ StillCached
    <2>1. now + CacheTTL \in -1 .. MaxClock + CacheTTL
      BY WritesAreFew DEF chTypeOK
    <2>2. writes \in 0 .. MaxPlaced + Cardinality(Challenges)
      BY WritesAreFew DEF chTypeOK
    <2>3. QED
      BY <1>2, <2>1, <2>2 DEF Answer, chTypeOK
  <1>3. QED
    BY <1>1, <1>2

LEMMA ChallengeTypesInit == ASSUME chInit PROVE chTypeOK
  <1>1. owner \subseteq Records
    BY ByHandAreRecords DEF chInit
  <1>2. cached \in [records : SUBSET Records, until : -1 .. MaxClock + CacheTTL,
                    version : 0 .. MaxPlaced + Cardinality(Challenges)]
    <2>1. -1 \in -1 .. MaxClock + CacheTTL /\ 0 \in 0 .. MaxPlaced + Cardinality(Challenges)
      BY WritesAreFew
    <2>2. QED
      BY <2>1 DEF chInit, Nothing
  <1>3. /\ revoking \in [Challenges -> 0 .. MaxPlaced + Cardinality(Challenges)]
        /\ writes \in 1 .. MaxPlaced + Cardinality(Challenges) /\ now \in 0 .. MaxClock
    BY WritesAreFew DEF chInit
  <1>4. QED
    BY <1>1, <1>2, <1>3 DEF chTypeOK, chInit

LEMMA ChallengeTypesNext == ASSUME chTypeOK, [chNext]_chVars PROVE chTypeOK'
  <1> DEFINE n == MaxPlaced + Cardinality(Challenges)
             answers == [records : SUBSET Records, until : -1 .. MaxClock + CacheTTL,
                         version : 0 .. n]
  <1>n. n \in Nat \ {0} /\ MaxPlaced \in Nat /\ MaxPlaced <= n
    BY WritesAreFew
  <1>1. /\ now \in 0 .. MaxClock /\ owner \subseteq Records /\ cached \in answers
        /\ issued \subseteq Challenges /\ revoking \in [Challenges -> 0 .. n]
        /\ writes \in 1 .. n
    BY DEF chTypeOK
  <1>2. Answer \in answers /\ Answer.version \in 0 .. n
    BY AnswerHasType
  <1> HIDE DEF answers, n
  <1>3. ASSUME /\ now' \in 0 .. MaxClock /\ owner' \subseteq Records /\ cached' \in answers
               /\ issued' \subseteq Challenges /\ revoking' \in [Challenges -> 0 .. n]
               /\ writes' \in 1 .. n
        PROVE  chTypeOK'
    BY <1>3 DEF chTypeOK, answers, n
  <1>4. CASE UNCHANGED chVars
    BY <1>1, <1>3, <1>4 DEF chVars
  <1>5. CASE Tick
    BY <1>1, <1>3, <1>5, WritesAreFew DEF Tick
  <1>6. ASSUME NEW c \in Challenges, Issue(c) PROVE chTypeOK'
    BY <1>1, <1>3, <1>6 DEF Issue
  <1>7. ASSUME NEW c \in Challenges, NEW scope \in Scopes \cup {NoScope}, NEW span \in Spans,
               Place(c, scope, span)
        PROVE  chTypeOK'
    <2> DEFINE r == Record(c, "ours", scope, now + span)
    <2>1. now + span \in Nat
      BY <1>1, ChallengeAssumption
    <2>2. r \in Records
      BY <2>1 DEF Record, Records
    <2>3. writes' \in 1 .. n
      BY <1>n, <1>1, <1>7 DEF Place, Written
    <2>4. owner' = {r}
      BY <1>7 DEF Place, Written, Placed
    <2> HIDE DEF r
    <2>5. QED
      BY <1>1, <1>3, <1>7, <2>2, <2>3, <2>4 DEF Place
  <1>8. ASSUME NEW c \in Challenges, NEW scope \in Scopes \cup {NoScope},
               Verify(c, scope) \/ VerifyFails(c, scope) \/ VerifyDirect(c, scope)
        PROVE  chTypeOK'
    BY <1>1, <1>2, <1>3, <1>8 DEF Verify, VerifyFails, VerifyDirect
  <1>9. ASSUME NEW c \in Challenges, RevokeCheck(c) PROVE chTypeOK'
    BY <1>1, <1>2, <1>3, <1>9 DEF RevokeCheck
  <1>10. ASSUME NEW c \in Challenges, RevokeRefused(c) PROVE chTypeOK'
    BY <1>1, <1>2, <1>3, <1>10 DEF RevokeRefused
  <1>11. ASSUME NEW c \in Challenges, RevokeDelete(c) PROVE chTypeOK'
    <2>1. writes' \in 1 .. n
      BY <1>n, <1>1, <1>11 DEF RevokeDelete, Written, n
    <2>2. owner' = {} /\ 0 \in 0 .. n
      BY <1>n, <1>11 DEF RevokeDelete, Written
    <2>3. QED
      BY <1>1, <1>3, <1>11, <2>1, <2>2 DEF RevokeDelete
  <1>12. ASSUME NEW c \in Challenges, RevokeFails(c) PROVE chTypeOK'
    <2>1. 0 \in 0 .. n
      BY <1>n
    <2>2. QED
      BY <1>1, <1>3, <1>12, <2>1 DEF RevokeFails
  <1>13. QED
    BY <1>4, <1>5, <1>6, <1>7, <1>8, <1>9, <1>10, <1>11, <1>12 DEF chNext

(* Publishers place the hosts they were given.                             *)
PlacesHost(s) ==
  s.at \in 0 .. 2 /\ (s.at # 0 /\ ~ s.withdraw => s.host \in Hosts)

PointerTypes ==
  /\ cpTypeOK
  /\ placing = [p \in Publishers |-> placing[p]]
  /\ \A p \in Publishers : PlacesHost(placing[p])

LEMMA LabelsAre ==
  /\ ToSet(Labels) = {"_catalog", "_index"} /\ Len(Labels) = 2 /\ DOMAIN Labels = {1, 2}
  /\ \A i \in 1 .. 2 : Labels[i] \in ToSet(Labels)
  BY DEF Labels, ToSet

LEMMA ResolutionHasType ==
  ASSUME cpTypeOK
  PROVE  Resolution \in Hosts \cup {NoHost}
  <1> DEFINE at == {i \in DOMAIN Labels : Usable(pointer[Labels[i]])}
             k == CHOOSE i \in at : \A j \in at : i <= j
  <1>1. at \subseteq {1, 2} /\ \A i \in {1, 2} : pointer[Labels[i]].host \in Hosts \cup {NoHost}
    BY LabelsAre DEF cpTypeOK
  <1>2. CASE at = {}
    BY <1>2 DEF Resolution
  <1>3. CASE at # {}
    <2>1. \E i \in at : \A j \in at : i <= j
      <3>1. at = {1} \/ at = {2} \/ at = {1, 2}
        BY <1>1, <1>3
      <3>2. QED
        BY <3>1
    <2>2. k \in at
      BY <2>1
    <2>3. Resolution = pointer[Labels[k]].host
      BY <1>3 DEF Resolution
    <2>4. QED
      BY <1>1, <2>2, <2>3
  <1>4. QED
    BY <1>2, <1>3

LEMMA PointerTypesInit == ASSUME cpInit PROVE PointerTypes
  <1>1. pointer \in [ToSet(Labels) -> [host : Hosts \cup {NoHost}, alias : BOOLEAN]]
    <2> DEFINE records == [host : Hosts \cup {NoHost}, alias : BOOLEAN]
               first == {Absent} \cup {Pointer(h, a) : h \in Hosts, a \in BOOLEAN}
    <2>1. Absent \in records /\ \A h \in Hosts, a \in BOOLEAN : Pointer(h, a) \in records
      BY DEF Absent, Pointer
    <2>2. first \subseteq records
      BY <2>1
    <2>3. pointer \in [ToSet(Labels) -> first]
      BY DEF cpInit
    <2> HIDE DEF records, first
    <2>4. pointer \in [ToSet(Labels) -> records]
      BY <2>2, <2>3
    <2>5. QED
      BY <2>4 DEF records
  <1>2. \A p \in Publishers : PlacesHost(placing[p])
    BY DEF cpInit, AtRest, PlacesHost
  <1>3. placing = [p \in Publishers |-> placing[p]]
    BY DEF cpInit
  <1>4. QED
    BY <1>1, <1>2, <1>3, LabelsAre DEF PointerTypes, cpTypeOK, PlacesHost, cpInit

LEMMA OnePlaces ==
  ASSUME PointerTypes, NEW p \in Publishers, \A q \in Publishers \ {p} : placing'[q] = placing[q],
         PlacesHost(placing'[p]), UNCHANGED resolved, placing' = [q \in Publishers |-> placing'[q]],
         pointer' \in [ToSet(Labels) -> [host : Hosts \cup {NoHost}, alias : BOOLEAN]]
  PROVE  PointerTypes'
  <1>1. \A q \in Publishers : PlacesHost(placing'[q])
    BY DEF PointerTypes
  <1>2. \A q \in Publishers : placing'[q].at \in 0 .. Len(Labels)
    BY <1>1, LabelsAre DEF PlacesHost
  <1>3. QED
    BY <1>1, <1>2 DEF PointerTypes, cpTypeOK

LEMMA AdvancedPlaces ==
  ASSUME PointerTypes, ArePlacings(placing),
         NEW p \in Publishers, placing[p].at # 0, Advance(p, placing[p])
  PROVE  /\ PlacesHost(placing'[p]) /\ \A q \in Publishers \ {p} : placing'[q] = placing[q]
         /\ placing' = [q \in Publishers |-> placing'[q]]
  <1>1. /\ placing[p].at \in 1 .. 2 /\ PlacesHost(placing[p])
        /\ placing = [q \in Publishers |-> placing[q]]
    BY DEF PointerTypes, PlacesHost
  <1>2. CASE placing[p].at = 2
    <2>1. placing' = [placing EXCEPT ![p] = AtRest]
      BY <1>2, TwoLabels DEF Advance
    <2>2. PlacesHost(AtRest)
      BY DEF AtRest, PlacesHost
    <2>3. QED
      BY <1>1, <2>1, <2>2
  <1>3. CASE placing[p].at = 1
    <2> DEFINE next == [placing[p] EXCEPT !.at = @ + 1, !.looked = FALSE]
    <2>1. placing' = [placing EXCEPT ![p] = next]
      BY <1>3, TwoLabels DEF Advance
    <2>2. /\ next.at = 2 /\ next.withdraw = placing[p].withdraw /\ next.host = placing[p].host
      BY <1>3 DEF ArePlacings, IsPlacing
    <2> HIDE DEF next
    <2>3. PlacesHost(next)
      BY <1>1, <1>3, <2>2 DEF PlacesHost
    <2>4. QED
      BY <1>1, <2>1, <2>3
  <1>4. QED
    BY <1>1, <1>2, <1>3

LEMMA PointerTypesNext ==
  ASSUME PointerTypes, ArePlacings(placing), [cpNext]_cpVars
  PROVE  PointerTypes'
  <1> DEFINE pointers == [ToSet(Labels) -> [host : Hosts \cup {NoHost}, alias : BOOLEAN]]
  <1>1. pointer \in pointers
    BY DEF PointerTypes, cpTypeOK
  <1>p. \A p \in Publishers : PlacesHost(placing[p])
    BY DEF PointerTypes
  <1>f. placing = [q \in Publishers |-> placing[q]]
    BY DEF PointerTypes
  <1>2. CASE UNCHANGED cpVars
    BY <1>2 DEF cpVars, PointerTypes, cpTypeOK
  <1>3. CASE Resolve
    BY <1>3, ResolutionHasType DEF Resolve, PointerTypes, cpTypeOK
  <1>4. ASSUME NEW p \in Publishers, NEW host \in Hosts, NEW two \in BOOLEAN,
               NEW force \in BOOLEAN, BeginPublish(p, host, two, force)
        PROVE  PointerTypes'
    <2> DEFINE d == [AtRest EXCEPT !.at = 1, !.host = host, !.mixed = two, !.force = force]
    <2>1. placing' = [placing EXCEPT ![p] = d] /\ UNCHANGED <<pointer, resolved>>
      BY <1>4 DEF BeginPublish
    <2>2. PlacesHost(d)
      BY DEF AtRest, PlacesHost
    <2> HIDE DEF d
    <2>3. QED
      BY <1>1, <1>f, <2>1, <2>2, OnePlaces
  <1>5. ASSUME NEW p \in Publishers, BeginUnpublish(p) PROVE PointerTypes'
    <2> DEFINE d == [AtRest EXCEPT !.at = 1, !.withdraw = TRUE]
    <2>1. placing' = [placing EXCEPT ![p] = d] /\ UNCHANGED <<pointer, resolved>>
      BY <1>5 DEF BeginUnpublish
    <2>2. PlacesHost(d)
      BY DEF AtRest, PlacesHost
    <2> HIDE DEF d
    <2>3. QED
      BY <1>1, <1>f, <2>1, <2>2, OnePlaces
  <1>6. ASSUME NEW p \in Publishers, NEW e,
               placing' = [placing EXCEPT ![p].looked = TRUE, ![p].edition = e],
               UNCHANGED <<pointer, resolved>>
        PROVE  PointerTypes'
    <2>1. /\ placing'[p].at = placing[p].at /\ placing'[p].withdraw = placing[p].withdraw
          /\ placing'[p].host = placing[p].host
          /\ \A q \in Publishers \ {p} : placing'[q] = placing[q]
          /\ placing' = [q \in Publishers |-> placing'[q]]
      BY <1>6, <1>f DEF ArePlacings, IsPlacing
    <2>2. PlacesHost(placing'[p])
      BY <1>p, <2>1 DEF PlacesHost
    <2>3. QED
      BY <1>1, <1>6, <2>1, <2>2, OnePlaces
  <1>7. ASSUME NEW p \in Publishers, Look(p) PROVE PointerTypes'
    <2>1. placing[p].at # 0 /\ UNCHANGED <<pointer, resolved>>
      BY <1>7 DEF Look, Working
    <2>2. CASE Foreign(p, pointer["_index"])
      <3>1. Advance(p, placing[p])
        BY <1>7, <2>2 DEF Look
      <3>2. QED
        BY <1>1, <1>f, <2>1, <3>1, AdvancedPlaces, OnePlaces
    <2>3. CASE ~ Foreign(p, pointer["_index"])
      <3> DEFINE e == edition
      <3>1. placing' = [placing EXCEPT ![p].looked = TRUE, ![p].edition = e]
        BY <1>7, <2>3 DEF Look
      <3> HIDE DEF e
      <3>2. QED
        BY <1>6, <2>1, <3>1
    <2>4. QED
      BY <2>2, <2>3
  <1>8. ASSUME NEW p \in Publishers, LookFails(p) PROVE PointerTypes'
    <2>1. /\ placing' = [placing EXCEPT ![p].looked = TRUE, ![p].edition = 0]
          /\ UNCHANGED <<pointer, resolved>>
      BY <1>8 DEF LookFails
    <2>2. QED
      BY <1>6, <2>1
  <1>9. ASSUME NEW p \in Publishers, Write(p) PROVE PointerTypes'
    <2>1. /\ placing[p].at # 0 /\ ~ placing[p].withdraw /\ Advance(p, placing[p])
          /\ pointer' = [pointer EXCEPT ![LabelOf(p)] = Pointer(placing[p].host, FALSE)]
          /\ UNCHANGED resolved
      BY <1>9 DEF Write, Working
    <2>2. placing[p].host \in Hosts
      BY <1>p, <2>1 DEF PlacesHost
    <2>3. pointer' \in pointers
      BY <1>1, <2>1, <2>2 DEF Pointer
    <2>4. QED
      BY <1>f, <2>1, <2>3, AdvancedPlaces, OnePlaces
  <1>10. ASSUME NEW p \in Publishers, WriteFails(p) PROVE PointerTypes'
    <2>1. PlacesHost(AtRest)
      BY DEF AtRest, PlacesHost
    <2>2. placing' = [placing EXCEPT ![p] = AtRest] /\ UNCHANGED <<pointer, resolved>>
      BY <1>10 DEF WriteFails
    <2>3. QED
      BY <1>1, <1>f, <2>1, <2>2, OnePlaces
  <1>11. ASSUME NEW p \in Publishers, Withdraw(p) PROVE PointerTypes'
    <2>1. /\ placing[p].at # 0 /\ Advance(p, placing[p]) /\ UNCHANGED resolved
          /\ pointer' = [pointer EXCEPT ![LabelOf(p)] = Absent] \/ pointer' = pointer
      BY <1>11 DEF Withdraw
    <2> DEFINE records == [host : Hosts \cup {NoHost}, alias : BOOLEAN]
    <2>a. Absent \in records
      BY DEF Absent, Pointer
    <2>2. pointer' \in pointers
      <3> HIDE DEF records
      <3>1. pointer \in [ToSet(Labels) -> records]
        BY <1>1 DEF records
      <3>2. pointer' \in [ToSet(Labels) -> records]
        BY <2>1, <2>a, <3>1
      <3>3. QED
        BY <3>2 DEF records
    <2>3. QED
      BY <1>f, <2>1, <2>2, AdvancedPlaces, OnePlaces
  <1>12. QED
    BY <1>2, <1>3, <1>4, <1>5, <1>7, <1>8, <1>9, <1>10, <1>11 DEF cpNext

(* The stores of the policies.                                             *)
ListsAreNamed(ls) == \A i \in DOMAIN ls : ls[i].name \in ListNames

LEMMA RequestsAreFew ==
  /\ MaxRequests \in Nat /\ (\A n \in 0 .. MaxRequests : n < MaxRequests => n + 1 \in 0 .. MaxRequests)
  /\ MaxFailures \in Nat /\ (\A n \in 0 .. MaxFailures : n < MaxFailures => n + 1 \in 0 .. MaxFailures)
  <1>1. MaxRequests \in Nat /\ MaxFailures \in Nat
    BY EnforcementAssumption
  <1>2. QED
    BY <1>1

LEMMA EnforcedTypesInit == ASSUME enInit PROVE enTypeOK
  <1>0. started = 0 /\ failures = 0 /\ lists = <<>> /\ rpz = NoZone
    BY DEF enInit
  <1>1. started \in 0 .. MaxRequests /\ failures \in 0 .. MaxFailures
    BY <1>0, RequestsAreFew
  <1>2. DOMAIN lists = {} /\ DOMAIN rpz = {}
    BY <1>0 DEF NoZone
  <1>3. zoneMade \in BOOLEAN /\ undisturbed \subseteq Operators
    BY DEF enInit
  <1>4. QED
    BY <1>1, <1>2, <1>3 DEF enTypeOK

LEMMA StoredHasType ==
  ASSUME NEW zone, NEW d, \A w \in DOMAIN zone : zone[w] \in {"NXDOMAIN", "PASSTHRU"}
  PROVE  \A w \in DOMAIN Stored(zone, d) : Stored(zone, d)[w] \in {"NXDOMAIN", "PASSTHRU"}
  BY DEF Stored, Canonical

LEMMA WrittenIsNamed ==
  ASSUME NEW ls, IsList(ls), ListsAreNamed(ls), NEW new, new.name \in ListNames
  PROVE  ListsAreNamed(Append(ls, new)) /\ \A k : ListsAreNamed([ls EXCEPT ![k] = new])
  <1>1. Len(ls) \in Nat /\ DOMAIN ls = 1 .. Len(ls) /\ ls \in Seq(ToSet(ls))
    BY ListHasLength
  <1>2. ListsAreNamed(Append(ls, new))
    <2> DEFINE V == ToSet(ls) \cup {new}
               after == Append(ls, new)
    <2>1. new \in V /\ ls \in Seq(V)
      BY <1>1, SeqDef
    <2> HIDE DEF V
    <2>2. /\ after \in Seq(V) /\ Len(after) = Len(ls) + 1
          /\ \A i \in 1 .. Len(ls) : after[i] = ls[i]
          /\ after[Len(ls) + 1] = new
      BY <2>1, AppendProperties
    <2> HIDE DEF after
    <2>3. DOMAIN after = 1 .. Len(ls) + 1
      BY <2>2, LenProperties
    <2>4. \A i \in DOMAIN after : i \in 1 .. Len(ls) \/ i = Len(ls) + 1
      BY <1>1, <2>3
    <2>5. ListsAreNamed(after)
      BY <1>1, <2>2, <2>4 DEF ListsAreNamed
    <2>6. QED
      BY <2>5 DEF after
  <1>3. ASSUME NEW k PROVE ListsAreNamed([ls EXCEPT ![k] = new])
    BY DEF ListsAreNamed
  <1>4. QED
    BY <1>2, <1>3

LEMMA EnforcedTypesNext ==
  ASSUME enTypeOK, PolicyInv, EnforceInv, [enNiosNext \/ enTdNext]_enVars
  PROVE  enTypeOK'
  <1>1. /\ zoneMade \in BOOLEAN /\ ListsAreNamed(lists) /\ IsList(lists)
        /\ \A w \in DOMAIN rpz : rpz[w] \in {"NXDOMAIN", "PASSTHRU"}
        /\ started \in 0 .. MaxRequests /\ failures \in 0 .. MaxFailures
        /\ undisturbed \subseteq Operators
    BY DEF enTypeOK, EnforceInv, StoresAreLists, ListsAreNamed
  <1>2. ASSUME /\ zoneMade' \in BOOLEAN /\ ListsAreNamed(lists')
               /\ \A w \in DOMAIN rpz' : rpz'[w] \in {"NXDOMAIN", "PASSTHRU"}
               /\ started' \in 0 .. MaxRequests /\ failures' \in 0 .. MaxFailures
               /\ undisturbed' \subseteq Operators
        PROVE  enTypeOK'
    BY <1>2 DEF enTypeOK, ListsAreNamed
  <1>3. started < MaxRequests => started + 1 \in 0 .. MaxRequests
    BY <1>1, RequestsAreFew
  <1>4. failures < MaxFailures => failures + 1 \in 0 .. MaxFailures
    BY <1>1, RequestsAreFew
  <1>5. CASE UNCHANGED enVars
    BY <1>1, <1>2, <1>5 DEF enVars
  <1>6. ASSUME NEW o \in Operators, NEW d, Begin(o, d) PROVE enTypeOK'
    BY <1>1, <1>2, <1>3, <1>6 DEF Begin
  <1>7. CASE enNiosNext
    <2>1. PICK o \in Operators :
            \/ \E doc \in Documents, saves \in BOOLEAN : StartNios(o, doc, saves)
            \/ RollbackNios(o)
            \/ EnsureZone(o)
            \/ LookRecord(o)
            \/ PutRecord(o)
            \/ RecordFails(o)
            \/ PushEnds(o)
            \/ \E w \in DOMAIN rpz : DeleteRecord(o, w)
            \/ RequestFails(o)
      BY <1>7 DEF enNiosNext
    <2>2. CASE (\E doc \in Documents, saves \in BOOLEAN : StartNios(o, doc, saves)) \/ RollbackNios(o)
      BY <1>6, <2>2 DEF StartNios, RollbackNios
    <2>3. CASE EnsureZone(o) \/ LookRecord(o) \/ PushEnds(o)
      BY <1>1, <1>2, <2>3 DEF EnsureZone, LookRecord, PushEnds, Keep, StoresSame
    <2>4. CASE PutRecord(o)
      <3>1. \A w \in DOMAIN rpz' : rpz'[w] \in {"NXDOMAIN", "PASSTHRU"}
        <4>1. rpz' = Stored(rpz, Current(o)) \/ rpz' = rpz
          BY <2>4 DEF PutRecord
        <4>2. QED
          BY <1>1, <4>1, StoredHasType
      <3>2. QED
        BY <1>1, <1>2, <2>4, <3>1 DEF PutRecord, Disturbs, Keep
    <2>5. CASE RecordFails(o) \/ RequestFails(o)
      BY <1>1, <1>2, <1>4, <2>5 DEF RecordFails, RequestFails, Keep, StoresSame
    <2>6. CASE \E w \in DOMAIN rpz : DeleteRecord(o, w)
      BY <1>1, <1>2, <1>3, <2>6 DEF DeleteRecord, Disturbs
    <2>7. QED
      BY <2>1, <2>2, <2>3, <2>4, <2>5, <2>6
  <1>8. CASE enTdNext
    <2>1. PICK o \in Operators :
            \/ \E list \in ListNames, doc \in Documents, action \in Actions, saves \in BOOLEAN :
                 StartTd(o, doc, list, action, saves)
            \/ \E list \in ListNames : RollbackTd(o, list)
            \/ \E list \in ListNames : Unbind(o, list)
            \/ ReadLists(o)
            \/ WriteList(o)
            \/ ReadPolicy(o)
            \/ WritePolicy(o)
            \/ ReadForUnbind(o)
            \/ WriteUnbound(o)
            \/ RequestFails(o)
      BY <1>8 DEF enTdNext
    <2>2. CASE \/ \E list \in ListNames, doc \in Documents, action \in Actions, saves \in BOOLEAN :
                    StartTd(o, doc, list, action, saves)
               \/ \E list \in ListNames : RollbackTd(o, list)
               \/ \E list \in ListNames : Unbind(o, list)
      BY <1>6, <2>2 DEF StartTd, RollbackTd, Unbind
    <2>3. CASE ReadLists(o) \/ ReadPolicy(o) \/ ReadForUnbind(o)
      BY <1>1, <1>2, <2>3 DEF ReadLists, ReadPolicy, ReadForUnbind, Keep, StoresSame
    <2>4. CASE WriteList(o)
      <3> DEFINE new == List(doing[o].list, Listed(doing[o].all))
      <3>1. new.name = doing[o].list
        BY DEF List
      <3>2. doing[o].list \in ListNames
        BY <2>4 DEF WriteList, PolicyInv, IsOperation, OnLists
      <3>3. lists' = Append(lists, new) \/ lists' = [lists EXCEPT ![doing[o].found] = new]
        BY <2>4 DEF WriteList
      <3> HIDE DEF new
      <3>a. new.name \in ListNames
        BY <3>1, <3>2
      <3>b. ListsAreNamed(Append(lists, new)) /\ \A k : ListsAreNamed([lists EXCEPT ![k] = new])
        BY <1>1, <3>a, WrittenIsNamed
      <3>4. ListsAreNamed(lists')
        BY <3>3, <3>b
      <3>5. QED
        BY <1>1, <1>2, <2>4, <3>4 DEF WriteList, Disturbs
    <2>5. CASE WritePolicy(o) \/ WriteUnbound(o)
      BY <1>1, <1>2, <2>5 DEF WritePolicy, WriteUnbound, Disturbs
    <2>6. CASE RequestFails(o)
      BY <1>1, <1>2, <1>4, <2>6 DEF RequestFails, Keep, StoresSame
    <2>7. QED
      BY <2>1, <2>2, <2>3, <2>4, <2>5, <2>6
  <1>9. QED
    BY <1>5, <1>7, <1>8

LEMMA LimiterTypesInit == ASSUME spInit PROVE spTypeOK
  BY ServerPolicyAssumption, FS_EmptySet DEF spInit, spTypeOK

LEMMA LimiterTypesNext ==
  ASSUME spTypeOK, LimiterInv', [spNext]_spVars
  PROVE  spTypeOK'
  <1>1. clock' \in 0 .. LastTick
    <2>1. LastTick \in Nat /\ clock \in 0 .. LastTick
      BY ServerPolicyAssumption DEF spTypeOK
    <2>2. clock' = clock \/ (clock < LastTick /\ clock' = clock + 1)
      BY DEF spNext, Serve, Pass, spVars
    <2>3. QED
      BY <2>1, <2>2
  <1>2. answer' \in {"none", "429", "403", "allowed", "denied but served", "no policy"}
    BY DEF spTypeOK, spNext, Serve, Pass, spVars, RateLimited, Admit, Anonymous, NoPolicy, Passed
  <1>3. QED
    BY <1>1, <1>2 DEF LimiterInv, spTypeOK

(* All that is known of the services beside each other.                    *)
ServicesInv ==
  /\ chTypeOK /\ SeenInv
  /\ PointerTypes /\ GuardInv
  /\ enTypeOK /\ EnforceInv
  /\ spTypeOK /\ LimiterInv

LEMMA ServicesInvInit == ASSUME svInit PROVE ServicesInv
  <1>1. chInit /\ cpInit /\ enInit /\ spInit
    BY DEF svInit
  <1>2. chTypeOK /\ SeenInv
    BY <1>1, ChallengeTypesInit, SeenInit
  <1>3. PointerTypes /\ GuardInv
    BY <1>1, PointerTypesInit, GuardInit
  <1>4. enTypeOK /\ EnforceInv
    BY <1>1, EnforcedTypesInit, EnforceInit
  <1>5. spTypeOK /\ LimiterInv
    BY <1>1, LimiterTypesInit, LimiterInit, ServerPolicyAssumption
  <1>6. QED
    BY <1>2, <1>3, <1>4, <1>5 DEF ServicesInv

LEMMA ServicesInvNext == ASSUME ServicesInv, [svNext]_svVars PROVE ServicesInv'
  <1>1. /\ [chNext]_chVars
        /\ [cpNext]_cpVars
        /\ [enNiosNext \/ enTdNext]_enVars
        /\ [spNext]_spVars
    BY OneServiceSteps
  <1>2. chTypeOK' /\ SeenInv'
    BY <1>1, ChallengeTypesNext, SeenNext, ChallengeAssumption DEF ServicesInv
  <1>3. PointerTypes' /\ GuardInv'
    BY <1>1, PointerTypesNext, GuardNext DEF ServicesInv, GuardInv, PlacingTypes
  <1>4. enTypeOK' /\ EnforceInv'
    BY <1>1, EnforcedTypesNext, EnforceNext DEF ServicesInv, EnforceInv
  <1>5. LimiterInv'
    BY <1>1, LimiterNext, ServerPolicyAssumption DEF ServicesInv
  <1>6. spTypeOK'
    BY <1>1, <1>5, LimiterTypesNext DEF ServicesInv
  <1>7. QED
    BY <1>2, <1>3, <1>4, <1>5, <1>6 DEF ServicesInv

(* ServicesTypeOK: of records, hosts, lists and callers there are never    *)
(* others than the services were given, and the limiter never remembers    *)
(* more callers than it may (middleware.py:66-74).                         *)
THEOREM ServicesTypes == svSpec => []ServicesTypeOK
  <1>1. svInit => ServicesInv
    BY ServicesInvInit
  <1>2. ServicesInv /\ [svNext]_svVars => ServicesInv'
    BY ServicesInvNext
  <1>3. ServicesInv => ServicesTypeOK
    BY DEF ServicesInv, PointerTypes, ServicesTypeOK
  <1>4. QED
    BY <1>1, <1>2, <1>3, PTL DEF svSpec

(* What holds of a service on its own holds of it beside the others: only  *)
(* placed challenges are verified (dcv.py:282), what is reported is in     *)
(* force (cli/main.py:2676), and no caller outruns its limit               *)
(* (middleware.py:40-74).                                                  *)
THEOREM ServicesHold == svSpec => [](VerifiedWasPlaced /\ EnforcedIsInForce /\ LimitHolds)
  <1>1. svInit => ServicesInv
    BY ServicesInvInit
  <1>2. ServicesInv /\ [svNext]_svVars => ServicesInv'
    BY ServicesInvNext
  <1>3. ServicesInv => EnforcedIsInForce
    BY ReportedIsStored, AgreesWithTheLayers
    DEF ServicesInv, EnforcedIsInForce, StoresHoldIt
  <1>4. ServicesInv => VerifiedWasPlaced /\ LimitHolds
    BY WithinIsLately DEF ServicesInv, SeenInv, LimiterInv, Accounts, UnderLimit, LimitHolds
  <1>5. QED
    BY <1>1, <1>2, <1>3, <1>4, PTL DEF svSpec
=============================================================================
