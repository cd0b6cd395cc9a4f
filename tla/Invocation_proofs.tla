------------------------- MODULE Invocation_proofs -------------------------
(***************************************************************************)
(* Proofs about Invocation, in four layers.                                *)
(* 1. The OAuth2 token. It was issued at most one request before it        *)
(*    arrived, no request outlives Timeout, and _get_token subtracts       *)
(*    Buffer, which is at least that, from the lifetime it was told.       *)
(* 2. The two locks: each queue holds exactly the calls that wait for it   *)
(*    or work under it, once, and only its head works (LockInv).           *)
(* 3. The circuit of an agent that is calm (CalmInv).                      *)
(* 4. The age of a permission that was withdrawn (PermissionInv).          *)
(* That nothing is stranded rests on fairness and is checked by TLC alone. *)
(***************************************************************************)
EXTENDS Invocation, SequenceTheorems, FiniteSetTheorems, TLAPS

(* No request has been out for longer than its timeout.                    *)
NoRequestIsLate == \A c \in Calls : call[c].age \in 0..Timeout

(* The token lives at the issuer for at least as long as it is kept.       *)
TokenOutlivesItsUse ==
    /\ token.fresh \in Nat /\ token.alive \in Nat
    /\ token.fresh > 0 => token.alive >= token.fresh

TokenInv ==
    /\ DOMAIN call = Calls
    /\ NoRequestIsLate
    /\ TokenOutlivesItsUse

(* A step that only moves one call to a new request, or to none, keeps     *)
(* every request within its timeout.                                       *)
LEMMA GoesIsOnTime ==
    ASSUME InvocationAssumption, DOMAIN call = Calls, NoRequestIsLate,
           NEW c \in Calls, NEW f, NEW stage, Goes(c, f, stage)
    PROVE  DOMAIN call' = Calls /\ NoRequestIsLate'
  BY DEF InvocationAssumption, NoRequestIsLate, Goes

LEMMA EndsIsOnTime ==
    ASSUME InvocationAssumption, DOMAIN call = Calls, NoRequestIsLate,
           NEW c \in Calls, Ends(c)
    PROVE  DOMAIN call' = Calls /\ NoRequestIsLate'
  BY DEF InvocationAssumption, NoRequestIsLate, Ends, Idle

(* Whatever handler.invoke does first, the call's request starts anew.     *)
LEMMA InvokesIsOnTime ==
    ASSUME InvocationAssumption, DOMAIN call = Calls, NoRequestIsLate,
           NEW c \in Calls, NEW f, Invokes(c, f)
    PROVE  DOMAIN call' = Calls /\ NoRequestIsLate'
  BY GoesIsOnTime DEF Invokes, Sends, Asks

LEMMA JudgedIsOnTime ==
    ASSUME InvocationAssumption, DOMAIN call = Calls, NoRequestIsLate,
           NEW c \in Calls, NEW f, NEW says, Judged(c, f, says)
    PROVE  DOMAIN call' = Calls /\ NoRequestIsLate'
  BY EndsIsOnTime, InvokesIsOnTime DEF Judged

(* The arithmetic of a token's arrival.                                    *)
LEMMA IssuedTokenOutlivesItsUse ==
    ASSUME InvocationAssumption,
           NEW lifetime \in Lifetimes, NEW since \in 0..Timeout,
           token' = Held(Kept(lifetime),
                         IF since < lifetime THEN lifetime - since ELSE 0)
    PROVE  TokenOutlivesItsUse'
  <1>1. lifetime \in Nat /\ since \in Nat /\ Buffer \in Nat /\ since <= Buffer
    BY DEF InvocationAssumption
  <1>2. CASE lifetime <= Buffer
    BY <1>1, <1>2 DEF TokenOutlivesItsUse, Held, Kept, NoToken
  <1>3. CASE lifetime > Buffer
    <2>1. token' = [fresh |-> lifetime - Buffer, alive |-> lifetime - since]
      BY <1>1, <1>3 DEF Held, Kept
    <2> QED
      BY <1>1, <1>3, <2>1 DEF TokenOutlivesItsUse
  <1> QED
    BY <1>1, <1>2, <1>3

LEMMA TokenInit == ASSUME InvocationAssumption, Init PROVE TokenInv
  BY DEF InvocationAssumption, Init, TokenInv, NoRequestIsLate,
         TokenOutlivesItsUse, Idle, NoToken

LEMMA TokenNext ==
    ASSUME InvocationAssumption, TokenInv, [Next]_vars PROVE TokenInv'
  <1>0. DOMAIN call = Calls /\ NoRequestIsLate /\ TokenOutlivesItsUse
    BY DEF TokenInv
  <1>K. token' = token => TokenOutlivesItsUse'
    BY <1>0 DEF TokenOutlivesItsUse
  <1>S. call' = call => DOMAIN call' = Calls /\ NoRequestIsLate'
    BY <1>0 DEF NoRequestIsLate
  <1>1. ASSUME NEW c \in Calls, NEW f \in Agents, Begin(c, f) PROVE TokenInv'
    <2>1. DOMAIN call' = Calls /\ NoRequestIsLate'
      BY <1>0, <1>1, InvokesIsOnTime, JudgedIsOnTime, GoesIsOnTime DEF Begin
    <2> QED
      BY <1>1, <1>K, <2>1 DEF Begin, TokenInv
  <1>2. ASSUME NEW c \in Calls, PolicyTurn(c) PROVE TokenInv'
    <2>1. DOMAIN call' = Calls /\ NoRequestIsLate'
      BY <1>0, <1>2, JudgedIsOnTime, GoesIsOnTime DEF PolicyTurn
    <2> QED
      BY <1>2, <1>K, <2>1 DEF PolicyTurn, TokenInv
  <1>3. ASSUME NEW c \in Calls, PolicyAnswered(c) PROVE TokenInv'
    <2>1. DOMAIN call' = Calls /\ NoRequestIsLate'
      BY <1>0, <1>3, JudgedIsOnTime, InvokesIsOnTime DEF PolicyAnswered
    <2> QED
      BY <1>3, <1>K, <2>1 DEF PolicyAnswered, TokenInv
  <1>4. ASSUME NEW c \in Calls, TokenTurn(c) PROVE TokenInv'
    <2>1. DOMAIN call' = Calls /\ NoRequestIsLate'
      BY <1>0, <1>4, GoesIsOnTime DEF TokenTurn, Sends, Asks
    <2> QED
      BY <1>4, <1>K, <2>1 DEF TokenTurn, TokenInv
  <1>5. ASSUME NEW c \in Calls, TokenIssued(c) PROVE TokenInv'
    <2>1. DOMAIN call' = Calls /\ NoRequestIsLate'
      BY <1>0, <1>5, GoesIsOnTime DEF TokenIssued, Sends, Asks
    <2>2. PICK lifetime \in Lifetimes, since \in 0..call[c].age :
             token' = Held(Kept(lifetime),
                           IF since < lifetime THEN lifetime - since ELSE 0)
      BY <1>5 DEF TokenIssued
    <2>3. since \in 0..Timeout
      BY <1>0, <1>5, <2>2 DEF NoRequestIsLate, InvocationAssumption
    <2>4. TokenOutlivesItsUse'
      BY <2>2, <2>3, IssuedTokenOutlivesItsUse
    <2> QED
      BY <2>1, <2>4 DEF TokenInv
  <1>6. ASSUME NEW c \in Calls, TokenFailed(c) PROVE TokenInv'
    <2>1. DOMAIN call' = Calls /\ NoRequestIsLate'
      BY <1>0, <1>6, EndsIsOnTime DEF TokenFailed
    <2> QED
      BY <1>6, <1>K, <2>1 DEF TokenFailed, TokenInv
  <1>7. ASSUME NEW c \in Calls, AgentAnswers(c) PROVE TokenInv'
    <2>1. DOMAIN call' = Calls /\ NoRequestIsLate'
      BY <1>0, <1>7, EndsIsOnTime DEF AgentAnswers
    <2> QED
      BY <1>7, <1>K, <2>1 DEF AgentAnswers, TokenInv
  <1>8. ASSUME NEW c \in Calls, Cancel(c) PROVE TokenInv'
    <2>1. DOMAIN call' = Calls /\ NoRequestIsLate'
      BY <1>0, <1>8, EndsIsOnTime DEF Cancel
    <2> QED
      BY <1>8, <1>K, <2>1 DEF Cancel, TokenInv
  <1>9. ASSUME NEW s \in Agents \cup {Issuer}, GoesDown(s) \/ ComesUp(s)
        PROVE  TokenInv'
    BY <1>9, <1>K, <1>S DEF GoesDown, ComesUp, shared, locals, TokenInv
  <1>10. ASSUME NEW f \in Agents, PolicyChanges(f) PROVE TokenInv'
    BY <1>10, <1>K, <1>S DEF PolicyChanges, shared, locals, TokenInv
  <1>11. CASE Tick
    <2>1. DOMAIN call' = Calls /\ NoRequestIsLate'
      BY <1>0, <1>11 DEF Tick, NoRequestIsLate, InvocationAssumption
    <2>2. token' = Held(Less(token.fresh), Less(token.alive))
      BY <1>11 DEF Tick
    <2>3. TokenOutlivesItsUse'
      BY <1>0, <2>2 DEF TokenOutlivesItsUse, Held, Less, NoToken
    <2> QED
      BY <2>1, <2>3 DEF TokenInv
  <1>12. CASE UNCHANGED vars
    BY <1>12, <1>K, <1>S DEF vars, shared, locals, TokenInv
  <1> QED
    BY <1>1, <1>2, <1>3, <1>4, <1>5, <1>6, <1>7, <1>8, <1>9, <1>10, <1>11, <1>12
       DEF Next, Step

(* A cached token that calls may still attach has not expired at the       *)
(* issuer: OAuth2AuthHandler._get_token, for every set of lifetimes.       *)
THEOREM CachedTokenNeverExpired ==
    ASSUME InvocationAssumption PROVE Spec => []CachedTokenIsAlive
  <1>1. TokenInv => CachedTokenIsAlive
    BY DEF TokenInv, TokenOutlivesItsUse, CachedTokenIsAlive
  <1> QED
    BY <1>1, TokenInit, TokenNext, PTL DEF Spec
-----------------------------------------------------------------------------
(* The two locks. Removing a call from a queue it is in at most once.      *)

Distinct(q) == \A i, j \in DOMAIN q : q[i] = q[j] => i = j

LEMMA RemovedAt ==
    ASSUME NEW S, NEW q \in Seq(S), NEW k \in 1..Len(q)
    PROVE  /\ RemoveAt(q, k) \in Seq(S)
           /\ Len(RemoveAt(q, k)) = Len(q) - 1
           /\ \A i \in 1..Len(q) - 1 :
                 RemoveAt(q, k)[i] = IF i < k THEN q[i] ELSE q[i + 1]
  <1> DEFINE front == SubSeq(q, 1, k - 1)
             back == SubSeq(q, k + 1, Len(q))
  <1>0. /\ Len(q) \in Nat /\ k \in Int /\ 1 <= k /\ k <= Len(q)
        /\ \A i \in 1..Len(q) : q[i] \in S
    BY LenProperties, ElementOfSeq
  <1>1. /\ front \in Seq(S) /\ Len(front) = k - 1
        /\ \A i \in 1..k - 1 : front[i] = q[i]
    <2>1. \A i \in 1..k - 1 : q[i] \in S
      BY <1>0
    <2>2. /\ front \in Seq(S)
          /\ Len(front) = IF 1 <= k - 1 THEN (k - 1) - 1 + 1 ELSE 0
          /\ \A i \in 1..(k - 1) - 1 + 1 : front[i] = q[1 + i - 1]
      BY <1>0, <2>1, SubSeqProperties
    <2> QED
      BY <1>0, <2>2
  <1>2. /\ back \in Seq(S) /\ Len(back) = Len(q) - k
        /\ \A i \in 1..Len(q) - k : back[i] = q[k + i]
    <2>1. \A i \in k + 1..Len(q) : q[i] \in S
      BY <1>0
    <2>2. /\ back \in Seq(S)
          /\ Len(back) = IF k + 1 <= Len(q) THEN Len(q) - (k + 1) + 1 ELSE 0
          /\ \A i \in 1..Len(q) - (k + 1) + 1 : back[i] = q[(k + 1) + i - 1]
      BY <1>0, <2>1, SubSeqProperties
    <2> QED
      BY <1>0, <2>2
  <1>3. /\ front \o back \in Seq(S)
        /\ Len(front \o back) = Len(front) + Len(back)
        /\ \A i \in 1..Len(front) + Len(back) : (front \o back)[i] =
              IF i <= Len(front) THEN front[i] ELSE back[i - Len(front)]
    BY <1>1, <1>2, ConcatProperties
  <1>4. RemoveAt(q, k) = front \o back
    BY DEF RemoveAt
  <1> HIDE DEF front, back
  <1>5. Len(front \o back) = Len(q) - 1
    BY <1>0, <1>1, <1>2, <1>3
  <1>6. ASSUME NEW i \in 1..Len(q) - 1
        PROVE  (front \o back)[i] = IF i < k THEN q[i] ELSE q[i + 1]
    <2>1. i \in 1..Len(front) + Len(back) /\ Len(front) = k - 1
      BY <1>0, <1>1, <1>2
    <2>2. (front \o back)[i] = IF i <= k - 1 THEN front[i] ELSE back[i - (k - 1)]
      BY <1>3, <2>1
    <2>3. CASE i < k
      BY <1>0, <1>1, <2>2, <2>3
    <2>4. CASE i >= k
      <3>1. i - (k - 1) \in 1..Len(q) - k /\ k + (i - (k - 1)) = i + 1
        BY <1>0, <2>4
      <3>2. back[i - (k - 1)] = q[i + 1]
        BY <1>2, <3>1
      <3> QED
        BY <1>0, <2>2, <2>4, <3>2
    <2>5. i < k \/ i >= k
      BY <1>0
    <2> QED
      BY <2>3, <2>4, <2>5
  <1> QED
    BY <1>3, <1>4, <1>5, <1>6

LEMMA WithoutProperties ==
    ASSUME NEW S, NEW q \in Seq(S), Distinct(q), NEW c
    PROVE  /\ Without(q, c) \in Seq(S)
           /\ Distinct(Without(q, c))
           /\ ToSet(Without(q, c)) = ToSet(q) \ {c}
           /\ q # <<>> /\ Head(q) # c
                 => Without(q, c) # <<>> /\ Head(Without(q, c)) = Head(q)
  <1> DEFINE places == {i \in DOMAIN q : q[i] = c}
             k == CHOOSE i \in places : TRUE
             r == RemoveAt(q, k)
  <1>0. Len(q) \in Nat /\ DOMAIN q = 1..Len(q)
    BY LenProperties
  <1>1. CASE places = {}
    <2>1. Without(q, c) = q
      BY <1>1 DEF Without
    <2> QED
      BY <1>1, <2>1 DEF ToSet
  <1>2. CASE places # {}
    <2>1. k \in 1..Len(q) /\ q[k] = c
      BY <1>0, <1>2
    <2>2. Without(q, c) = r
      BY <1>2 DEF Without
    <2>3. /\ r \in Seq(S) /\ Len(r) = Len(q) - 1
          /\ \A i \in 1..Len(q) - 1 : r[i] = IF i < k THEN q[i] ELSE q[i + 1]
      BY <2>1, RemovedAt
    <2>4. DOMAIN r = 1..Len(q) - 1
      BY <2>3, LenProperties
    <2> HIDE DEF k, r
    <2>5. Distinct(r)
      <3> DEFINE from(i) == IF i < k THEN i ELSE i + 1
      <3>1. \A i \in DOMAIN r : from(i) \in DOMAIN q /\ r[i] = q[from(i)]
        BY <1>0, <2>1, <2>3, <2>4
      <3>2. \A i, j \in DOMAIN r : from(i) = from(j) => i = j
        BY <1>0, <2>1, <2>4
      <3> HIDE DEF from
      <3> QED
        BY <3>1, <3>2 DEF Distinct
    <2>6. ToSet(r) = ToSet(q) \ {c}
      <3>1. ASSUME NEW d \in ToSet(r) PROVE d \in ToSet(q) \ {c}
        <4>1. PICK i \in 1..Len(q) - 1 : r[i] = d
          BY <2>4 DEF ToSet
        <4>2. CASE i < k
          BY <1>0, <2>1, <2>3, <4>1, <4>2 DEF ToSet, Distinct
        <4>3. CASE i >= k
          <5>1. i + 1 \in 1..Len(q) /\ i + 1 # k /\ d = q[i + 1]
            BY <1>0, <2>1, <2>3, <4>1, <4>3
          <5> QED
            BY <1>0, <2>1, <5>1 DEF ToSet, Distinct
        <4> QED
          BY <2>1, <4>2, <4>3
      <3>2. ASSUME NEW d \in ToSet(q) \ {c} PROVE d \in ToSet(r)
        <4>1. PICK i \in 1..Len(q) : q[i] = d
          BY <1>0 DEF ToSet
        <4>2. i # k
          BY <2>1, <4>1
        <4>3. CASE i < k
          <5>1. i \in 1..Len(q) - 1
            BY <1>0, <2>1, <4>1, <4>3
          <5>2. r[i] = q[i]
            BY <2>3, <4>3, <5>1
          <5> QED
            BY <2>4, <4>1, <5>1, <5>2 DEF ToSet
        <4>4. CASE i > k
          <5>1. i - 1 \in 1..Len(q) - 1 /\ r[i - 1] = q[i]
            BY <1>0, <2>1, <2>3, <4>1, <4>4
          <5> QED
            BY <2>4, <4>1, <5>1 DEF ToSet
        <4> QED
          BY <2>1, <4>2, <4>3, <4>4
      <3> QED
        BY <3>1, <3>2
    <2>7. ASSUME q # <<>>, Head(q) # c PROVE r # <<>> /\ Head(r) = Head(q)
      <3>1. Head(q) = q[1] /\ k # 1
        BY <2>1, <2>7, HeadTailProperties
      <3>2. 1 \in 1..Len(q) - 1 /\ r[1] = q[1]
        BY <1>0, <2>1, <2>3, <3>1
      <3> QED
        BY <2>3, <3>1, <3>2
    <2> QED
      BY <2>2, <2>3, <2>5, <2>6, <2>7
  <1> QED
    BY <1>1, <1>2

LEMMA AppendKeepsDistinct ==
    ASSUME NEW S, NEW q \in Seq(S), Distinct(q), NEW c \in S, c \notin ToSet(q)
    PROVE  /\ Append(q, c) \in Seq(S)
           /\ Distinct(Append(q, c))
           /\ ToSet(Append(q, c)) = ToSet(q) \cup {c}
           /\ Append(q, c) # <<>>
           /\ Head(Append(q, c)) = IF q = <<>> THEN c ELSE Head(q)
  <1> DEFINE r == Append(q, c)
  <1>1. /\ r \in Seq(S) /\ r # <<>> /\ Len(r) = Len(q) + 1
        /\ \A i \in 1..Len(q) : r[i] = q[i]
        /\ r[Len(q) + 1] = c
    BY AppendProperties
  <1>2. /\ Len(q) \in Nat /\ DOMAIN q = 1..Len(q)
        /\ DOMAIN r = 1..Len(q) + 1
    BY <1>1, LenProperties
  <1>3. Head(r) = IF q = <<>> THEN c ELSE Head(q)
    BY HeadTailAppend
  <1> HIDE DEF r
  <1>4. Distinct(r)
    BY <1>1, <1>2 DEF Distinct, ToSet
  <1>5. ToSet(r) = ToSet(q) \cup {c}
    <2>1. ASSUME NEW d \in ToSet(r) PROVE d \in ToSet(q) \cup {c}
      BY <1>1, <1>2 DEF ToSet
    <2>2. ASSUME NEW d \in ToSet(q) PROVE d \in ToSet(r)
      BY <1>1, <1>2 DEF ToSet
    <2>3. c \in ToSet(r)
      BY <1>1, <1>2 DEF ToSet
    <2> QED
      BY <2>1, <2>2, <2>3
  <1> QED
    BY <1>1, <1>3, <1>4, <1>5 DEF r

LEMMA TailKeepsDistinct ==
    ASSUME NEW S, NEW q \in Seq(S), Distinct(q), q # <<>>
    PROVE  /\ Tail(q) \in Seq(S)
           /\ Distinct(Tail(q))
           /\ ToSet(Tail(q)) = ToSet(q) \ {Head(q)}
  <1> DEFINE r == Tail(q)
  <1>1. /\ r \in Seq(S) /\ Len(r) = Len(q) - 1
        /\ \A i \in 1..Len(r) : r[i] = q[i + 1]
    BY HeadTailProperties
  <1>2. /\ Len(q) \in Nat /\ Len(q) > 0 /\ DOMAIN q = 1..Len(q)
        /\ DOMAIN r = 1..Len(q) - 1
    BY <1>1, LenProperties, EmptySeq
  <1>3. Head(q) = q[1]
    OBVIOUS
  <1> HIDE DEF r
  <1>4. Distinct(r)
    <2>1. ASSUME NEW i \in DOMAIN r, NEW j \in DOMAIN r, r[i] = r[j]
          PROVE  i = j
      <3>1. i + 1 \in DOMAIN q /\ j + 1 \in DOMAIN q /\ q[i + 1] = q[j + 1]
        BY <1>1, <1>2, <2>1
      <3>2. i + 1 = j + 1
        BY <3>1 DEF Distinct
      <3> QED
        BY <1>2, <3>2
    <2> QED
      BY <2>1 DEF Distinct
  <1>5. ASSUME NEW d \in ToSet(r) PROVE d \in ToSet(q) \ {Head(q)}
    BY <1>1, <1>2, <1>3 DEF ToSet, Distinct
  <1>6. ASSUME NEW d \in ToSet(q) \ {Head(q)} PROVE d \in ToSet(r)
    <2>1. PICK i \in 1..Len(q) : q[i] = d
      BY <1>2 DEF ToSet
    <2>2. i - 1 \in 1..Len(r) /\ r[i - 1] = q[i]
      BY <1>1, <1>2, <1>3, <2>1
    <2> QED
      BY <1>1, <1>2, <2>1, <2>2 DEF ToSet
  <1> QED
    BY <1>1, <1>4, <1>5, <1>6 DEF r

-----------------------------------------------------------------------------
(* What a lock's queue q says of the stages of the calls: the calls that   *)
(* wait for the lock (at w) or work under it (at h) are the ones in the    *)
(* queue, each once, and only the first works.                             *)
Locked(q, at, w, h) ==
    /\ q \in Seq(Calls) /\ Distinct(q)
    /\ ToSet(q) = {c \in Calls : at[c] \in {w, h}}
    /\ \A c \in Calls : at[c] = h => q # <<>> /\ Head(q) = c

(* What a step of c may do to a queue: leave it while c stays where it was *)
(* or starts to work as its first; release c; join; take the lock over.    *)
Moves(q, r, at, bt, c, w, h) ==
    /\ \A d \in Calls \ {c} : bt[d] = at[d]
    /\ \/ /\ r = q /\ (bt[c] \in {w, h} <=> at[c] \in {w, h})
          /\ bt[c] = h => q # <<>> /\ Head(q) = c
       \/ r = Without(q, c) /\ bt[c] \notin {w, h}
       \/ /\ r = Append(q, c) /\ at[c] \notin {w, h} /\ bt[c] \in {w, h}
          /\ bt[c] = h => q = <<>>
       \/ /\ r = Tail(q) /\ at[c] = w /\ Head(q) = c /\ bt[c] \notin {w, h}

LEMMA MovesKeepLocked ==
    ASSUME NEW q, NEW r, NEW at, NEW bt, NEW c \in Calls, NEW w, NEW h, w # h,
           Locked(q, at, w, h), Moves(q, r, at, bt, c, w, h)
    PROVE  Locked(r, bt, w, h)
  <1>0. /\ q \in Seq(Calls) /\ Distinct(q)
        /\ ToSet(q) = {d \in Calls : at[d] \in {w, h}}
        /\ \A d \in Calls : at[d] = h => q # <<>> /\ Head(q) = d
        /\ \A d \in Calls \ {c} : bt[d] = at[d]
    BY DEF Locked, Moves
  <1>1. CASE /\ r = q /\ (bt[c] \in {w, h} <=> at[c] \in {w, h})
             /\ bt[c] = h => q # <<>> /\ Head(q) = c
    <2>1. {d \in Calls : at[d] \in {w, h}} = {d \in Calls : bt[d] \in {w, h}}
      BY <1>0, <1>1
    <2> QED
      BY <1>0, <1>1, <2>1 DEF Locked
  <1>2. CASE r = Without(q, c) /\ bt[c] \notin {w, h}
    <2>1. /\ r \in Seq(Calls) /\ Distinct(r) /\ ToSet(r) = ToSet(q) \ {c}
          /\ q # <<>> /\ Head(q) # c => r # <<>> /\ Head(r) = Head(q)
      BY <1>0, <1>2, WithoutProperties
    <2>2. {d \in Calls : bt[d] \in {w, h}} = {d \in Calls : at[d] \in {w, h}} \ {c}
      BY <1>0, <1>2
    <2>3. \A d \in Calls : bt[d] = h => r # <<>> /\ Head(r) = d
      BY <1>0, <1>2, <2>1
    <2> QED
      BY <1>0, <2>1, <2>2, <2>3 DEF Locked
  <1>3. CASE /\ r = Append(q, c) /\ at[c] \notin {w, h} /\ bt[c] \in {w, h}
             /\ bt[c] = h => q = <<>>
    <2>1. /\ r \in Seq(Calls) /\ Distinct(r) /\ ToSet(r) = ToSet(q) \cup {c}
          /\ r # <<>> /\ Head(r) = IF q = <<>> THEN c ELSE Head(q)
      BY <1>0, <1>3, AppendKeepsDistinct
    <2>2. {d \in Calls : bt[d] \in {w, h}} = {d \in Calls : at[d] \in {w, h}} \cup {c}
      BY <1>0, <1>3
    <2>3. \A d \in Calls : bt[d] = h => r # <<>> /\ Head(r) = d
      BY <1>0, <1>3, <2>1
    <2> QED
      BY <1>0, <2>1, <2>2, <2>3 DEF Locked
  <1>4. CASE /\ r = Tail(q) /\ at[c] = w /\ Head(q) = c /\ bt[c] \notin {w, h}
    <2>0. q # <<>>
      <3>1. c \in ToSet(q)
        BY <1>0, <1>4
      <3>2. PICK i \in DOMAIN q : q[i] = c
        BY <3>1 DEF ToSet
      <3> QED
        BY <1>0, <3>2, LenProperties, EmptySeq
    <2>1. /\ r \in Seq(Calls) /\ Distinct(r) /\ ToSet(r) = ToSet(q) \ {c}
      BY <1>0, <1>4, <2>0, TailKeepsDistinct
    <2>2. {d \in Calls : bt[d] \in {w, h}} = {d \in Calls : at[d] \in {w, h}} \ {c}
      BY <1>0, <1>4
    <2>3. \A d \in Calls : bt[d] # h
      BY <1>0, <1>4
    <2> QED
      BY <1>0, <2>1, <2>2, <2>3 DEF Locked
  <1> QED
    BY <1>1, <1>2, <1>3, <1>4 DEF Moves

-----------------------------------------------------------------------------
(* 2. The types of the variables, the two locks, and what is fetched.      *)

Stage == [c \in Calls |-> call[c].at]

BreakerOK ==
    /\ circuits \in [Agents -> [state : {"closed", "open", "half_open"},
                                failures : 0..Threshold]]
    /\ cool \in [Agents -> 0..Cooldown]

CallsOK ==
    /\ DOMAIN call = Calls
    /\ \A c \in Calls :
          call[c] \in {Idle} \cup [at : Stages, agent : Agents, age : 0..Timeout]

DoomedOK == doomed \subseteq {c \in Calls : call[c].at \in {"tokenFetch", "sent"}}
DocumentsOK == documents \in [Agents -> [says : Verdict, fresh : 0..PolicyTTL]]
TokenOK == \E l \in Lifetimes \cup {0} : token \in [fresh : 0..l, alive : 0..l]

PolicyLock == Locked(policyQueue, Stage, "policyWait", "policyFetch")
TokenLock == Locked(tokenQueue, Stage, "tokenWait", "tokenFetch")

WorldOK ==
    /\ up \subseteq Agents \cup {Issuer}
    /\ policy \in [Agents -> Verdict]
    /\ lapse \in [Agents -> 0..Staleness]
    /\ calm \in [Agents -> 0..Horizon]
    /\ trouble \in 0..MaxTrouble

(* Nothing is requested that is in the cache.                              *)
FetchesAreNeeded ==
    \A c \in Calls : /\ call[c].at = "tokenFetch" => token.fresh = 0
                     /\ call[c].at = "policyFetch" => ~Fresh(call[c].agent)

LockInv ==
    /\ BreakerOK /\ CallsOK /\ DoomedOK /\ DocumentsOK /\ TokenOK
    /\ PolicyLock /\ TokenLock /\ WorldOK /\ FetchesAreNeeded

(* A step of c moves its call, on behalf of f, to one of the stages.       *)
Reaches(c, f, stages) ==
    /\ DOMAIN call' = Calls
    /\ \A d \in Calls \ {c} : call'[d] = call[d]
    /\ \/ "idle" \in stages /\ call'[c] = Idle
       \/ \E stage \in stages \cap Stages :
             call'[c] = [at |-> stage, agent |-> f, age |-> 0]

PolicyMove(c) == Moves(policyQueue, policyQueue', Stage, Stage', c,
                       "policyWait", "policyFetch")
TokenMove(c) == Moves(tokenQueue, tokenQueue', Stage, Stage', c,
                      "tokenWait", "tokenFetch")

LEMMA StageOf ==
    /\ \A c \in Calls : Stage[c] = call[c].at
    /\ \A c \in Calls : Stage'[c] = call'[c].at
  BY DEF Stage

LEMMA ReachesKeepsTypes ==
    ASSUME InvocationAssumption, CallsOK, NEW c \in Calls, NEW f \in Agents,
           NEW stages, Reaches(c, f, stages)
    PROVE  /\ CallsOK'
           /\ call'[c].at \in stages
           /\ call'[c].at # "idle" => call'[c].agent = f /\ call'[c].age = 0
  BY DEF InvocationAssumption, CallsOK, Reaches, Idle, Stages, Requests

LEMMA StageOfOthers ==
    ASSUME NEW c \in Calls, NEW f, NEW stages, Reaches(c, f, stages)
    PROVE  \A d \in Calls \ {c} : Stage'[d] = Stage[d]
  BY StageOf DEF Reaches

LEMMA RecordsKeepTypes ==
    ASSUME InvocationAssumption, BreakerOK, NEW f \in Agents,
           RecordFailure(f) \/ RecordSuccess(f) \/ RecordNothing
    PROVE  BreakerOK'
  <1>0. Threshold \in Nat /\ Threshold > 0 /\ Cooldown \in Nat
    BY DEF InvocationAssumption
  <1>1. CASE RecordFailure(f)
    BY <1>0, <1>1 DEF BreakerOK, RecordFailure, More
  <1>2. CASE RecordSuccess(f)
    BY <1>0, <1>2 DEF BreakerOK, RecordSuccess
  <1>3. CASE RecordNothing
    BY <1>3 DEF BreakerOK, RecordNothing
  <1> QED
    BY <1>1, <1>2, <1>3

LEMMA ProbedKeepsTypes ==
    ASSUME BreakerOK, NEW f \in Agents, circuits' = Probed(f), cool' = cool
    PROVE  BreakerOK'
  BY DEF BreakerOK, Probed

(* Ends and Sends, from wherever c stands.                                 *)
LEMMA EndsReaches ==
    ASSUME DOMAIN call = Calls, DoomedOK, NEW c \in Calls, NEW f, Ends(c)
    PROVE  Reaches(c, f, {"idle"}) /\ DoomedOK'
  BY DEF Ends, Reaches, DoomedOK

LEMMA GoesReaches ==
    ASSUME DOMAIN call = Calls, NEW c \in Calls, NEW f,
           NEW stage \in Stages, Goes(c, f, stage)
    PROVE  Reaches(c, f, {stage})
  BY DEF Goes, Reaches

LEMMA AsksReaches ==
    ASSUME DOMAIN call = Calls, DoomedOK, NEW c \in Calls, NEW f, NEW s,
           NEW stage \in {"tokenFetch", "sent"}, Asks(c, f, stage, s)
    PROVE  Reaches(c, f, {stage}) /\ DoomedOK'
  <1>1. Reaches(c, f, {stage})
    BY GoesReaches DEF Asks, Stages, Requests
  <1>2. call'[c].at = stage /\ \A d \in Calls \ {c} : call'[d] = call[d]
    BY DEF Asks, Goes
  <1> QED
    BY <1>1, <1>2 DEF Asks, DoomedOK

(* handler.invoke: the three ways it can go, and its step at the lock.     *)
LEMMA InvokesReaches ==
    ASSUME DOMAIN call = Calls, DoomedOK, TokenOK, InvocationAssumption,
           NEW c \in Calls, NEW f, Invokes(c, f),
           At(c, {"idle", "policyWait", "policyFetch"})
    PROVE  /\ Reaches(c, f, {"sent", "tokenWait", "tokenFetch"})
           /\ DoomedOK' /\ TokenMove(c)
           /\ call'[c].at = "tokenFetch" => token.fresh = 0
  <1> DEFINE stages == {"sent", "tokenWait", "tokenFetch"}
  <1>0. token.fresh \in Nat
    BY DEF TokenOK, InvocationAssumption
  <1>1. CASE ~TokenAuth \/ token.fresh > 0
    <2>1. Asks(c, f, "sent", f) /\ tokenQueue' = Without(tokenQueue, c)
      BY <1>1 DEF Invokes, Sends
    <2>2. Reaches(c, f, {"sent"}) /\ DoomedOK' /\ call'[c].at = "sent"
      BY <2>1, AsksReaches DEF Asks, Goes
    <2>3. TokenMove(c)
      BY <2>1, <2>2, StageOf, StageOfOthers DEF TokenMove, Moves
    <2> QED
      BY <2>2, <2>3 DEF Reaches
  <1>2. CASE ~(~TokenAuth \/ token.fresh > 0) /\ tokenQueue = <<>>
    <2>1. Asks(c, f, "tokenFetch", Issuer) /\ tokenQueue' = Append(tokenQueue, c)
      BY <1>2 DEF Invokes
    <2>2. Reaches(c, f, {"tokenFetch"}) /\ DoomedOK' /\ call'[c].at = "tokenFetch"
      BY <2>1, AsksReaches DEF Asks, Goes
    <2>3. TokenMove(c)
      BY <1>2, <2>1, <2>2, StageOf, StageOfOthers DEF TokenMove, Moves, At
    <2> QED
      BY <1>0, <1>2, <2>2, <2>3 DEF Reaches
  <1>3. CASE ~(~TokenAuth \/ token.fresh > 0) /\ tokenQueue # <<>>
    <2>1. /\ Goes(c, f, "tokenWait") /\ doomed' = doomed
          /\ tokenQueue' = Append(tokenQueue, c)
      BY <1>3 DEF Invokes
    <2>2. Reaches(c, f, {"tokenWait"}) /\ call'[c].at = "tokenWait"
      BY <2>1, GoesReaches DEF Goes, Stages
    <2>3. TokenMove(c)
      BY <1>3, <2>1, <2>2, StageOf, StageOfOthers DEF TokenMove, Moves, At
    <2>4. DoomedOK'
      BY <2>1, <2>2 DEF DoomedOK, Reaches, At
    <2> QED
      BY <2>2, <2>3, <2>4 DEF Reaches
  <1> QED
    BY <1>1, <1>2, <1>3

LEMMA ReachesMore ==
    ASSUME NEW c, NEW f, NEW few, NEW many, few \subseteq many, Reaches(c, f, few)
    PROVE  Reaches(c, f, many)
  BY DEF Reaches

LEMMA JudgedReaches ==
    ASSUME DOMAIN call = Calls, DoomedOK, TokenOK, InvocationAssumption,
           NEW c \in Calls, NEW f, NEW says, Judged(c, f, says),
           At(c, {"idle", "policyWait", "policyFetch"})
    PROVE  /\ Reaches(c, f, {"idle", "sent", "tokenWait", "tokenFetch"})
           /\ DoomedOK' /\ TokenMove(c)
           /\ call'[c].at = "tokenFetch" => token.fresh = 0
  <1>1. CASE Invokes(c, f)
    BY <1>1, InvokesReaches DEF Reaches
  <1>2. CASE Ends(c) /\ tokenQueue' = tokenQueue
    <2>1. Reaches(c, f, {"idle"}) /\ DoomedOK' /\ call'[c].at = "idle"
      BY <1>2, EndsReaches DEF Ends, Idle
    <2>2. TokenMove(c)
      BY <1>2, <2>1, StageOf, StageOfOthers DEF TokenMove, Moves, At
    <2> QED
      BY <2>1, <2>2 DEF Reaches
  <1> QED
    BY <1>1, <1>2 DEF Judged

(* A step of one call, put together. Only the call at work under a lock    *)
(* writes what the lock guards, so no other call is at work then.          *)
LEMMA CallStepKeepsLockInv ==
    ASSUME InvocationAssumption, LockInv, NEW c \in Calls, NEW f \in Agents,
           NEW stages, Reaches(c, f, stages), DoomedOK',
           PolicyMove(c), TokenMove(c),
           BreakerOK', DocumentsOK', TokenOK', WorldOK',
           token' = token \/ call[c].at = "tokenFetch",
           documents' = documents \/ call[c].at = "policyFetch",
           call'[c].at = "tokenFetch" => token' = token /\ token.fresh = 0,
           call'[c].at = "policyFetch" => documents' = documents /\ ~Fresh(f)
    PROVE  LockInv'
  <1>1. CallsOK' /\ (call'[c].at # "idle" => call'[c].agent = f)
    BY ReachesKeepsTypes DEF LockInv
  <1>2. PolicyLock'
    <2>1. Locked(policyQueue', Stage', "policyWait", "policyFetch")
      BY MovesKeepLocked DEF LockInv, PolicyLock, PolicyMove
    <2> QED
      BY <2>1 DEF PolicyLock
  <1>3. TokenLock'
    <2>1. Locked(tokenQueue', Stage', "tokenWait", "tokenFetch")
      BY MovesKeepLocked DEF LockInv, TokenLock, TokenMove
    <2> QED
      BY <2>1 DEF TokenLock
  <1>4. FetchesAreNeeded'
    <2> SUFFICES ASSUME NEW d \in Calls
                 PROVE  /\ call'[d].at = "tokenFetch" => token'.fresh = 0
                        /\ call'[d].at = "policyFetch"
                              => ~(documents'[call'[d].agent].fresh > 0)
      BY DEF FetchesAreNeeded, Fresh
    <2>1. CASE d = c
      BY <1>1, <2>1 DEF Fresh
    <2>2. CASE d # c
      <3>0. call'[d] = call[d]
        BY <2>2 DEF Reaches
      <3>1. ASSUME call[d].at = "tokenFetch" PROVE token'.fresh = 0
        <4>1. call[c].at # "tokenFetch"
          BY <2>2, <3>1, StageOf DEF LockInv, TokenLock, Locked
        <4> QED
          BY <3>1, <4>1 DEF LockInv, FetchesAreNeeded
      <3>2. ASSUME call[d].at = "policyFetch"
            PROVE  ~(documents'[call'[d].agent].fresh > 0)
        <4>1. call[c].at # "policyFetch"
          BY <2>2, <3>2, StageOf DEF LockInv, PolicyLock, Locked
        <4> QED
          BY <3>0, <3>2, <4>1 DEF LockInv, FetchesAreNeeded, Fresh
      <3> QED
        BY <3>0, <3>1, <3>2
    <2> QED
      BY <2>1, <2>2
  <1> QED
    BY <1>1, <1>2, <1>3, <1>4 DEF LockInv

LEMMA AgentOfCall ==
    ASSUME CallsOK, NEW c \in Calls, call[c].at # "idle"
    PROVE  call[c].agent \in Agents /\ call[c].age \in 0..Timeout
  BY DEF CallsOK, Idle

(* The queue c is not in stays as it is.                                   *)
LEMMA PolicyQueueStays ==
    ASSUME NEW c \in Calls, NEW f, NEW stages, Reaches(c, f, stages),
           policyQueue' = policyQueue,
           call[c].at \notin {"policyWait", "policyFetch"},
           call'[c].at \notin {"policyWait", "policyFetch"}
    PROVE  PolicyMove(c)
  BY StageOf, StageOfOthers DEF PolicyMove, Moves

LEMMA TokenQueueStays ==
    ASSUME NEW c \in Calls, NEW f, NEW stages, Reaches(c, f, stages),
           tokenQueue' = tokenQueue,
           call[c].at \notin {"tokenWait", "tokenFetch"},
           call'[c].at \notin {"tokenWait", "tokenFetch"}
    PROVE  TokenMove(c)
  BY StageOf, StageOfOthers DEF TokenMove, Moves

LEMMA UnchangedTypes ==
    /\ documents' = documents /\ DocumentsOK => DocumentsOK'
    /\ token' = token /\ TokenOK => TokenOK'
    /\ UNCHANGED world /\ WorldOK => WorldOK'
    /\ circuits' = circuits /\ cool' = cool /\ BreakerOK => BreakerOK'
  <1>1. documents' = documents /\ DocumentsOK => DocumentsOK'
    BY DEF DocumentsOK
  <1>2. token' = token /\ TokenOK => TokenOK'
    BY DEF TokenOK
  <1>3. UNCHANGED world /\ WorldOK => WorldOK'
    BY DEF WorldOK, world
  <1>4. circuits' = circuits /\ cool' = cool /\ BreakerOK => BreakerOK'
    BY DEF BreakerOK
  <1> QED
    BY <1>1, <1>2, <1>3, <1>4

LEMMA BeginKeepsLockInv ==
    ASSUME InvocationAssumption, LockInv,
           NEW c \in Calls, NEW f \in Agents, Begin(c, f)
    PROVE  LockInv'
  <1>0. /\ DOMAIN call = Calls /\ DoomedOK /\ TokenOK /\ BreakerOK
        /\ DocumentsOK /\ WorldOK /\ CallsOK /\ call[c].at = "idle"
        /\ circuits' = Probed(f) /\ cool' = cool
        /\ documents' = documents /\ token' = token /\ UNCHANGED world
    BY DEF LockInv, CallsOK, Begin
  <1>1. BreakerOK' /\ DocumentsOK' /\ TokenOK' /\ WorldOK'
    BY <1>0, UnchangedTypes, ProbedKeepsTypes
  <1>2. CASE policyQueue' = policyQueue /\ (Invokes(c, f)
                \/ Judged(c, f, documents[f].says))
    <2>1. /\ Reaches(c, f, {"idle", "sent", "tokenWait", "tokenFetch"})
          /\ DoomedOK' /\ TokenMove(c)
          /\ call'[c].at = "tokenFetch" => token.fresh = 0
      <3>0. At(c, {"idle", "policyWait", "policyFetch"})
        BY <1>0 DEF At
      <3>1. CASE Invokes(c, f)
        <4>1. /\ Reaches(c, f, {"sent", "tokenWait", "tokenFetch"})
              /\ DoomedOK' /\ TokenMove(c)
              /\ call'[c].at = "tokenFetch" => token.fresh = 0
          BY <1>0, <3>0, <3>1, InvokesReaches
        <4> QED
          BY <4>1, ReachesMore
      <3>2. CASE Judged(c, f, documents[f].says)
        BY <1>0, <3>0, <3>2, JudgedReaches
      <3> QED
        BY <1>2, <3>1, <3>2
    <2>2. call'[c].at \in {"idle", "sent", "tokenWait", "tokenFetch"}
      BY <1>0, <2>1, ReachesKeepsTypes
    <2>3. PolicyMove(c)
      BY <1>0, <1>2, <2>1, <2>2, PolicyQueueStays
    <2> QED
      BY <1>0, <1>1, <2>1, <2>2, <2>3, CallStepKeepsLockInv
  <1>3. CASE /\ ~Fresh(f) /\ policyQueue' = Append(policyQueue, c)
             /\ Goes(c, f, IF policyQueue = <<>> THEN "policyFetch" ELSE "policyWait")
             /\ UNCHANGED <<doomed, tokenQueue>>
    <2> DEFINE stage == IF policyQueue = <<>> THEN "policyFetch" ELSE "policyWait"
    <2>1. Reaches(c, f, {stage}) /\ call'[c].at = stage
      BY <1>0, <1>3, GoesReaches DEF Goes, Stages, Requests
    <2>2. PolicyMove(c)
      BY <1>0, <1>3, <2>1, StageOf, StageOfOthers DEF PolicyMove, Moves
    <2>3. TokenMove(c)
      BY <1>0, <1>3, <2>1, TokenQueueStays
    <2>4. DoomedOK'
      BY <1>0, <1>3, <2>1 DEF DoomedOK, Reaches
    <2> QED
      BY <1>0, <1>1, <1>3, <2>1, <2>2, <2>3, <2>4, CallStepKeepsLockInv
  <1> QED
    BY <1>2, <1>3 DEF Begin

LEMMA PolicyTurnKeepsLockInv ==
    ASSUME InvocationAssumption, LockInv, NEW c \in Calls, PolicyTurn(c)
    PROVE  LockInv'
  <1> DEFINE f == call[c].agent
  <1>0. /\ DOMAIN call = Calls /\ DoomedOK /\ TokenOK /\ CallsOK
        /\ call[c].at = "policyWait" /\ Head(policyQueue) = c /\ f \in Agents
        /\ documents' = documents /\ token' = token
    BY AgentOfCall DEF LockInv, CallsOK, PolicyTurn
  <1>1. BreakerOK' /\ DocumentsOK' /\ TokenOK' /\ WorldOK'
    BY UnchangedTypes DEF LockInv, PolicyTurn
  <1>2. CASE /\ Judged(c, f, documents[f].says)
             /\ policyQueue' = Tail(policyQueue)
    <2>1. /\ Reaches(c, f, {"idle", "sent", "tokenWait", "tokenFetch"})
          /\ DoomedOK' /\ TokenMove(c)
          /\ call'[c].at = "tokenFetch" => token.fresh = 0
      BY <1>0, <1>2, JudgedReaches DEF At
    <2>2. call'[c].at \in {"idle", "sent", "tokenWait", "tokenFetch"}
      BY <1>0, <2>1, ReachesKeepsTypes
    <2>3. PolicyMove(c)
      BY <1>0, <1>2, <2>1, <2>2, StageOf, StageOfOthers DEF PolicyMove, Moves
    <2> QED
      BY <1>0, <1>1, <2>1, <2>2, <2>3, CallStepKeepsLockInv
  <1>3. CASE /\ ~Fresh(f) /\ Goes(c, f, "policyFetch")
             /\ UNCHANGED <<doomed, policyQueue, tokenQueue>>
    <2>1. Reaches(c, f, {"policyFetch"}) /\ call'[c].at = "policyFetch"
      BY <1>0, <1>3, GoesReaches DEF Goes, Stages, Requests
    <2>2. policyQueue # <<>>
      <3>1. c \in ToSet(policyQueue) /\ policyQueue \in Seq(Calls)
        BY <1>0, StageOf DEF LockInv, PolicyLock, Locked
      <3> QED
        BY <3>1, LenProperties, EmptySeq DEF ToSet
    <2>3. PolicyMove(c)
      BY <1>0, <1>3, <2>1, <2>2, StageOf, StageOfOthers DEF PolicyMove, Moves
    <2>4. TokenMove(c)
      BY <1>0, <1>3, <2>1, TokenQueueStays
    <2>5. DoomedOK'
      BY <1>0, <1>3, <2>1 DEF DoomedOK, Reaches
    <2> QED
      BY <1>0, <1>1, <1>3, <2>1, <2>3, <2>4, <2>5, CallStepKeepsLockInv
  <1> QED
    BY <1>2, <1>3 DEF PolicyTurn

LEMMA PolicyAnsweredKeepsLockInv ==
    ASSUME InvocationAssumption, LockInv, NEW c \in Calls, PolicyAnswered(c)
    PROVE  LockInv'
  <1> DEFINE f == call[c].agent
  <1>0. /\ DOMAIN call = Calls /\ DoomedOK /\ TokenOK /\ CallsOK
        /\ call[c].at = "policyFetch" /\ f \in Agents
        /\ policyQueue' = Without(policyQueue, c) /\ token' = token
    BY AgentOfCall DEF LockInv, CallsOK, PolicyAnswered
  <1>1. BreakerOK' /\ TokenOK' /\ WorldOK'
    BY UnchangedTypes DEF LockInv, PolicyAnswered
  <1>2. DocumentsOK' /\ (Invokes(c, f) \/ \E says : Judged(c, f, says))
    <2>1. CASE Invokes(c, f) /\ documents' = documents
      BY <2>1, UnchangedTypes DEF LockInv
    <2>2. CASE \E says \in Verdict :
                  documents' = Stored(f, says) /\ Judged(c, f, says)
      <3>1. PICK says \in Verdict : documents' = Stored(f, says) /\ Judged(c, f, says)
        BY <2>2
      <3>2. PolicyTTL \in 0..PolicyTTL /\ DocumentsOK
        BY DEF InvocationAssumption, LockInv
      <3>3. DocumentsOK'
        BY <1>0, <3>1, <3>2 DEF DocumentsOK, Stored
      <3> QED
        BY <3>1, <3>3
    <2>3. policy[f] \in Verdict
      BY <1>0 DEF LockInv, WorldOK
    <2>4. \/ Invokes(c, f) /\ documents' = documents
          \/ \E says \in Verdict : documents' = Stored(f, says) /\ Judged(c, f, says)
      BY <2>3 DEF PolicyAnswered
    <2> QED
      BY <2>1, <2>2, <2>4
  <1>3. /\ Reaches(c, f, {"idle", "sent", "tokenWait", "tokenFetch"})
        /\ DoomedOK' /\ TokenMove(c)
        /\ call'[c].at = "tokenFetch" => token.fresh = 0
    <2>0. At(c, {"idle", "policyWait", "policyFetch"})
      BY <1>0 DEF At
    <2>1. CASE Invokes(c, f)
      <3>1. /\ Reaches(c, f, {"sent", "tokenWait", "tokenFetch"})
            /\ DoomedOK' /\ TokenMove(c)
            /\ call'[c].at = "tokenFetch" => token.fresh = 0
        BY <1>0, <2>0, <2>1, InvokesReaches
      <3> QED
        BY <3>1, ReachesMore
    <2>2. CASE \E says : Judged(c, f, says)
      BY <1>0, <2>0, <2>2, JudgedReaches
    <2> QED
      BY <1>2, <2>1, <2>2
  <1>4. call'[c].at \in {"idle", "sent", "tokenWait", "tokenFetch"}
    BY <1>0, <1>3, ReachesKeepsTypes
  <1>5. PolicyMove(c)
    BY <1>0, <1>3, <1>4, StageOf, StageOfOthers DEF PolicyMove, Moves
  <1> QED
    BY <1>0, <1>1, <1>2, <1>3, <1>4, <1>5, CallStepKeepsLockInv

(* A call that asks for, or sends with, the token it waited for.           *)
LEMMA SendsReaches ==
    ASSUME DOMAIN call = Calls, DoomedOK, NEW c \in Calls, NEW f, Sends(c, f)
    PROVE  /\ Reaches(c, f, {"sent"}) /\ DoomedOK' /\ TokenMove(c)
           /\ call'[c].at = "sent"
  <1>1. Reaches(c, f, {"sent"}) /\ DoomedOK' /\ call'[c].at = "sent"
    BY AsksReaches DEF Sends, Asks, Goes
  <1>2. TokenMove(c)
    BY <1>1, StageOf, StageOfOthers DEF Sends, TokenMove, Moves
  <1> QED
    BY <1>1, <1>2

LEMMA TokenTurnKeepsLockInv ==
    ASSUME InvocationAssumption, LockInv, NEW c \in Calls, TokenTurn(c)
    PROVE  LockInv'
  <1> DEFINE f == call[c].agent
  <1>0. /\ DOMAIN call = Calls /\ DoomedOK /\ TokenOK /\ CallsOK
        /\ call[c].at = "tokenWait" /\ Head(tokenQueue) = c /\ f \in Agents
        /\ documents' = documents /\ token' = token /\ policyQueue' = policyQueue
    BY AgentOfCall DEF LockInv, CallsOK, TokenTurn
  <1>1. BreakerOK' /\ DocumentsOK' /\ TokenOK' /\ WorldOK'
    BY UnchangedTypes DEF LockInv, TokenTurn
  <1>2. CASE Sends(c, f)
    <2>1. /\ Reaches(c, f, {"sent"}) /\ DoomedOK' /\ TokenMove(c)
          /\ call'[c].at = "sent"
      BY <1>0, <1>2, SendsReaches
    <2>2. PolicyMove(c)
      BY <1>0, <2>1, PolicyQueueStays
    <2> QED
      BY <1>0, <1>1, <2>1, <2>2, CallStepKeepsLockInv
  <1>3. CASE /\ ~(token.fresh > 0) /\ Asks(c, f, "tokenFetch", Issuer)
             /\ tokenQueue' = tokenQueue
    <2>0. token.fresh = 0
      BY <1>0, <1>3 DEF TokenOK, InvocationAssumption
    <2>1. Reaches(c, f, {"tokenFetch"}) /\ DoomedOK' /\ call'[c].at = "tokenFetch"
      BY <1>0, <1>3, AsksReaches DEF Asks, Goes
    <2>2. tokenQueue # <<>>
      <3>1. c \in ToSet(tokenQueue) /\ tokenQueue \in Seq(Calls)
        BY <1>0, StageOf DEF LockInv, TokenLock, Locked
      <3> QED
        BY <3>1, LenProperties, EmptySeq DEF ToSet
    <2>3. TokenMove(c)
      BY <1>0, <1>3, <2>1, <2>2, StageOf, StageOfOthers DEF TokenMove, Moves
    <2>4. PolicyMove(c)
      BY <1>0, <2>1, PolicyQueueStays
    <2> QED
      BY <1>0, <1>1, <2>0, <2>1, <2>3, <2>4, CallStepKeepsLockInv
  <1> QED
    BY <1>2, <1>3 DEF TokenTurn

LEMMA HeldKeepsTypes ==
    ASSUME NEW l \in Nat, NEW fresh \in 0..l, NEW alive \in 0..l
    PROVE  Held(fresh, alive) \in [fresh : 0..l, alive : 0..l]
  BY DEF Held, NoToken

LEMMA TokenIssuedKeepsLockInv ==
    ASSUME InvocationAssumption, LockInv, NEW c \in Calls, TokenIssued(c)
    PROVE  LockInv'
  <1> DEFINE f == call[c].agent
  <1>0. /\ DOMAIN call = Calls /\ DoomedOK /\ call[c].at = "tokenFetch"
        /\ f \in Agents /\ call[c].age \in 0..Timeout
        /\ documents' = documents /\ policyQueue' = policyQueue /\ Sends(c, f)
    BY AgentOfCall DEF LockInv, CallsOK, TokenIssued
  <1>1. BreakerOK' /\ DocumentsOK' /\ WorldOK'
    BY UnchangedTypes DEF LockInv, TokenIssued
  <1>2. TokenOK'
    <2>1. PICK l \in Lifetimes, since \in 0..call[c].age :
             token' = Held(Kept(l), IF since < l THEN l - since ELSE 0)
      BY DEF TokenIssued
    <2>0. Timeout \in Nat /\ Buffer \in Nat /\ Lifetimes \subseteq Nat
      BY DEF InvocationAssumption
    <2>2. l \in Nat /\ since \in Nat /\ Buffer \in Nat
      <3>1. call[c].age \in Nat
        BY <1>0, <2>0
      <3>2. \A i \in 0..call[c].age : i \in Nat
        BY <3>1
      <3> QED
        BY <2>0, <2>1, <3>2
    <2>3. Kept(l) \in 0..l /\ (IF since < l THEN l - since ELSE 0) \in 0..l
      BY <2>2 DEF Kept
    <2>4. token' \in [fresh : 0..l, alive : 0..l]
      BY <2>1, <2>2, <2>3, HeldKeepsTypes
    <2> QED
      BY <2>4 DEF TokenOK
  <1>3. /\ Reaches(c, f, {"sent"}) /\ DoomedOK' /\ TokenMove(c)
        /\ call'[c].at = "sent"
    BY <1>0, SendsReaches
  <1>4. PolicyMove(c)
    BY <1>0, <1>3, PolicyQueueStays
  <1> QED
    BY <1>0, <1>1, <1>2, <1>3, <1>4, CallStepKeepsLockInv

LEMMA TokenFailedKeepsLockInv ==
    ASSUME InvocationAssumption, LockInv, NEW c \in Calls, TokenFailed(c)
    PROVE  LockInv'
  <1> DEFINE f == call[c].agent
  <1>0. /\ DOMAIN call = Calls /\ DoomedOK /\ call[c].at = "tokenFetch"
        /\ f \in Agents /\ documents' = documents /\ token' = token
        /\ policyQueue' = policyQueue /\ Ends(c)
        /\ tokenQueue' = Without(tokenQueue, c)
    BY AgentOfCall DEF LockInv, CallsOK, TokenFailed
  <1>1. BreakerOK' /\ DocumentsOK' /\ TokenOK' /\ WorldOK'
    BY <1>0, UnchangedTypes, RecordsKeepTypes DEF LockInv, TokenFailed
  <1>2. Reaches(c, f, {"idle"}) /\ DoomedOK' /\ call'[c].at = "idle"
    BY <1>0, EndsReaches DEF Ends, Idle
  <1>3. PolicyMove(c)
    BY <1>0, <1>2, PolicyQueueStays
  <1>4. TokenMove(c)
    BY <1>0, <1>2, StageOf, StageOfOthers DEF TokenMove, Moves
  <1> QED
    BY <1>0, <1>1, <1>2, <1>3, <1>4, CallStepKeepsLockInv

LEMMA AgentAnswersKeepsLockInv ==
    ASSUME InvocationAssumption, LockInv, NEW c \in Calls, AgentAnswers(c)
    PROVE  LockInv'
  <1> DEFINE f == call[c].agent
  <1>0. /\ DOMAIN call = Calls /\ DoomedOK /\ call[c].at = "sent"
        /\ f \in Agents /\ documents' = documents /\ token' = token
        /\ policyQueue' = policyQueue /\ tokenQueue' = tokenQueue /\ Ends(c)
    BY AgentOfCall DEF LockInv, CallsOK, AgentAnswers
  <1>1. BreakerOK' /\ DocumentsOK' /\ TokenOK' /\ WorldOK'
    BY <1>0, UnchangedTypes, RecordsKeepTypes DEF LockInv, AgentAnswers
  <1>2. Reaches(c, f, {"idle"}) /\ DoomedOK' /\ call'[c].at = "idle"
    BY <1>0, EndsReaches DEF Ends, Idle
  <1>3. PolicyMove(c) /\ TokenMove(c)
    BY <1>0, <1>2, PolicyQueueStays, TokenQueueStays
  <1> QED
    BY <1>0, <1>1, <1>2, <1>3, CallStepKeepsLockInv

LEMMA CancelKeepsLockInv ==
    ASSUME InvocationAssumption, LockInv, NEW c \in Calls, Cancel(c)
    PROVE  LockInv'
  <1> DEFINE f == call[c].agent
  <1>0. /\ DOMAIN call = Calls /\ DoomedOK /\ call[c].at # "idle"
        /\ f \in Agents /\ documents' = documents /\ token' = token /\ Ends(c)
        /\ policyQueue' = Without(policyQueue, c)
        /\ tokenQueue' = Without(tokenQueue, c)
    BY AgentOfCall DEF LockInv, CallsOK, Cancel
  <1>1. BreakerOK' /\ DocumentsOK' /\ TokenOK'
    BY <1>0, UnchangedTypes, RecordsKeepTypes DEF LockInv, Cancel
  <1>2. WorldOK'
    BY DEF LockInv, WorldOK, Cancel, InvocationAssumption
  <1>3. Reaches(c, f, {"idle"}) /\ DoomedOK' /\ call'[c].at = "idle"
    BY <1>0, EndsReaches DEF Ends, Idle
  <1>4. PolicyMove(c) /\ TokenMove(c)
    BY <1>0, <1>3, StageOf, StageOfOthers DEF PolicyMove, TokenMove, Moves
  <1> QED
    BY <1>0, <1>1, <1>2, <1>3, <1>4, CallStepKeepsLockInv

(* The steps of the world, which move no call.                             *)
LEMMA SameStages ==
    ASSUME Stage' = Stage, policyQueue' = policyQueue, tokenQueue' = tokenQueue,
           PolicyLock, TokenLock
    PROVE  PolicyLock' /\ TokenLock'
  BY DEF PolicyLock, TokenLock

LEMMA WorldKeepsLockInv ==
    ASSUME InvocationAssumption, LockInv,
           \/ \E s \in Agents \cup {Issuer} : GoesDown(s) \/ ComesUp(s)
           \/ \E f \in Agents : PolicyChanges(f)
           \/ UNCHANGED vars
    PROVE  LockInv'
  <1>1. UNCHANGED shared /\ call' = call
    BY DEF GoesDown, ComesUp, PolicyChanges, vars, locals
  <1>2. BreakerOK' /\ DocumentsOK' /\ TokenOK'
    BY <1>1, UnchangedTypes DEF LockInv, shared
  <1>3. CallsOK' /\ FetchesAreNeeded'
    BY <1>1 DEF LockInv, CallsOK, FetchesAreNeeded, Fresh, shared
  <1>4. PolicyLock' /\ TokenLock'
    BY <1>1, SameStages DEF LockInv, Stage, shared
  <1>5. DoomedOK'
    <2>1. CASE doomed' = doomed
      BY <1>1, <2>1 DEF LockInv, DoomedOK
    <2>2. CASE \E s \in Agents \cup {Issuer} : GoesDown(s)
      <3>1. PICK s \in Agents \cup {Issuer} : GoesDown(s)
        BY <2>2
      <3>2. PICK lost \in SUBSET {c \in Calls : Uses(c, s)} : doomed' = doomed \cup lost
        BY <3>1 DEF GoesDown
      <3>3. \A c \in lost : c \in Calls /\ call[c].at \in {"tokenFetch", "sent"}
        BY <3>2 DEF Uses
      <3> QED
        BY <1>1, <3>2, <3>3 DEF LockInv, DoomedOK
    <2> QED
      BY <2>1, <2>2 DEF ComesUp, PolicyChanges, vars, locals
  <1>6. WorldOK'
    <2>0. WorldOK /\ Horizon \in Nat /\ Staleness \in Nat /\ MaxTrouble \in Nat
      BY DEF LockInv, Horizon, Staleness, InvocationAssumption
    <2>1. ASSUME NEW s \in Agents \cup {Issuer}, GoesDown(s) PROVE WorldOK'
      BY <2>0, <2>1 DEF GoesDown, WorldOK
    <2>2. ASSUME NEW s \in Agents \cup {Issuer}, ComesUp(s) PROVE WorldOK'
      BY <2>0, <2>2 DEF ComesUp, WorldOK
    <2>3. ASSUME NEW f \in Agents, PolicyChanges(f) PROVE WorldOK'
      BY <2>0, <2>3 DEF PolicyChanges, WorldOK, Verdict
    <2>4. CASE UNCHANGED vars
      BY <2>0, <2>4, UnchangedTypes DEF vars
    <2> QED
      BY <2>1, <2>2, <2>3, <2>4
  <1> QED
    BY <1>2, <1>3, <1>4, <1>5, <1>6 DEF LockInv

LEMMA TickKeepsLockInv ==
    ASSUME InvocationAssumption, LockInv, Tick
    PROVE  LockInv'
  <1>0. /\ CallsOK /\ Timeout \in Nat /\ Cooldown \in Nat /\ PolicyTTL \in Nat
        /\ Horizon \in Nat /\ Staleness \in Nat
    BY DEF LockInv, InvocationAssumption, Horizon, Staleness
  <1>1. \A c \in Calls : call'[c] = IF call[c].at \in Requests
                                  THEN [call[c] EXCEPT !.age = @ + 1] ELSE call[c]
    BY DEF Tick, At
  <1>2. \A c \in Calls :
           /\ call'[c] \in {Idle} \cup [at : Stages, agent : Agents, age : 0..Timeout]
           /\ call'[c].at = call[c].at /\ call'[c].agent = call[c].agent
    <2> SUFFICES ASSUME NEW c \in Calls
                 PROVE  /\ call'[c] \in {Idle} \cup [at : Stages, agent : Agents,
                                                     age : 0..Timeout]
                        /\ call'[c].at = call[c].at /\ call'[c].agent = call[c].agent
      OBVIOUS
    <2>1. CASE call[c].at \in Requests
      <3>1. call[c] \in [at : Stages, agent : Agents, age : 0..Timeout]
        BY <1>0, <2>1 DEF CallsOK, Idle, Requests
      <3>2. call[c].age < Timeout
        BY <2>1 DEF Tick, At
      <3>3. call'[c] = [at |-> call[c].at, agent |-> call[c].agent,
                        age |-> call[c].age + 1]
        BY <1>1, <2>1, <3>1
      <3>4. call[c].age + 1 \in 0..Timeout
        BY <1>0, <3>1, <3>2
      <3> QED
        BY <3>1, <3>3, <3>4
    <2>2. CASE call[c].at \notin Requests
      BY <1>0, <1>1, <2>2 DEF CallsOK
    <2> QED
      BY <2>1, <2>2
  <1>3. CallsOK' /\ DoomedOK' /\ Stage' = Stage
    <2>1. DOMAIN call' = Calls
      BY DEF Tick
    <2>2. doomed' = doomed
      BY DEF Tick
    <2> QED
      BY <1>2, <2>1, <2>2 DEF CallsOK, LockInv, DoomedOK, Stage
  <1>4. PolicyLock' /\ TokenLock'
    BY <1>3, SameStages DEF LockInv, Tick
  <1>5. BreakerOK'
    <2>1. circuits' = circuits /\ cool' = [f \in Agents |-> Less(cool[f])]
      BY DEF Tick
    <2>2. BreakerOK
      BY DEF LockInv
    <2>3. \A f \in Agents : Less(cool[f]) \in 0..Cooldown
      BY <1>0, <2>2 DEF BreakerOK, Less
    <2> QED
      BY <2>1, <2>2, <2>3 DEF BreakerOK
  <1>6. \A f \in Agents :
           /\ Aged(f) \in [says : Verdict, fresh : 0..PolicyTTL]
           /\ ~Fresh(f) => Aged(f).fresh = 0
    BY <1>0 DEF LockInv, DocumentsOK, Aged, NoDocument, Fresh, Verdict
  <1>7. DocumentsOK'
    BY <1>6 DEF DocumentsOK, Tick
  <1>8. TokenOK' /\ (token.fresh = 0 => token'.fresh = 0)
    <2>1. PICK l \in Lifetimes \cup {0} : token \in [fresh : 0..l, alive : 0..l]
      BY DEF LockInv, TokenOK
    <2>2. l \in Nat
      BY DEF InvocationAssumption
    <2>3. /\ token' = Held(Less(token.fresh), Less(token.alive))
          /\ Less(token.fresh) \in 0..l /\ Less(token.alive) \in 0..l
          /\ token.fresh = 0 => Less(token.fresh) = 0
      BY <2>1, <2>2 DEF Tick, Less
    <2>4. token' \in [fresh : 0..l, alive : 0..l]
      BY <2>2, <2>3, HeldKeepsTypes
    <2>5. token.fresh = 0 => token'.fresh = 0
      BY <2>3 DEF Held, NoToken
    <2> QED
      BY <2>4, <2>5 DEF TokenOK
  <1>9. WorldOK'
    BY <1>0 DEF LockInv, WorldOK, Tick, More
  <1>10. FetchesAreNeeded'
    <2> SUFFICES ASSUME NEW c \in Calls
                 PROVE  /\ call'[c].at = "tokenFetch" => token'.fresh = 0
                        /\ call'[c].at = "policyFetch"
                              => ~(documents'[call'[c].agent].fresh > 0)
      BY DEF FetchesAreNeeded, Fresh
    <2>1. call[c].at = "policyFetch" => documents'[call[c].agent].fresh = 0
      BY <1>0, <1>6, AgentOfCall DEF Tick, LockInv, FetchesAreNeeded
    <2> QED
      BY <1>2, <1>8, <2>1 DEF LockInv, FetchesAreNeeded
  <1> QED
    BY <1>3, <1>4, <1>5, <1>7, <1>8, <1>9, <1>10 DEF LockInv

LEMMA LockInit == ASSUME InvocationAssumption, Init PROVE LockInv
  <1>1. BreakerOK /\ CallsOK /\ DoomedOK /\ DocumentsOK
    BY DEF InvocationAssumption, Init, BreakerOK, CallsOK, DoomedOK, DocumentsOK,
           NoDocument, Verdict
  <1>2. TokenOK
    BY DEF Init, TokenOK, NoToken
  <1>3. PolicyLock /\ TokenLock
    <2>1. \A c \in Calls : Stage[c] = "idle"
      BY DEF Stage, Init, Idle
    <2>2. \A w, h : w # "idle" /\ h # "idle" => Locked(<<>>, Stage, w, h)
      <3> SUFFICES ASSUME NEW w, NEW h, w # "idle", h # "idle"
                   PROVE  Locked(<<>>, Stage, w, h)
        OBVIOUS
      <3>1. <<>> \in Seq(Calls) /\ Len(<<>>) = 0 /\ DOMAIN <<>> = {}
        BY EmptySeq
      <3>2. Distinct(<<>>) /\ ToSet(<<>>) = {}
        BY <3>1 DEF Distinct, ToSet
      <3> QED
        BY <2>1, <3>1, <3>2 DEF Locked
    <2> QED
      BY <2>2 DEF Init, PolicyLock, TokenLock
  <1>4. WorldOK
    BY DEF Init, WorldOK, InvocationAssumption, Staleness, Horizon
  <1>5. FetchesAreNeeded
    BY DEF Init, FetchesAreNeeded, Idle
  <1> QED
    BY <1>1, <1>2, <1>3, <1>4, <1>5 DEF LockInv

LEMMA LockNext ==
    ASSUME InvocationAssumption, LockInv, [Next]_vars PROVE LockInv'
  BY BeginKeepsLockInv, PolicyTurnKeepsLockInv, PolicyAnsweredKeepsLockInv,
     TokenTurnKeepsLockInv, TokenIssuedKeepsLockInv, TokenFailedKeepsLockInv,
     AgentAnswersKeepsLockInv, CancelKeepsLockInv, WorldKeepsLockInv,
     TickKeepsLockInv DEF Next, Step

LEMMA LocksHold ==
    ASSUME InvocationAssumption PROVE Spec => []LockInv
  BY LockInit, LockNext, PTL DEF Spec

(* The types of the client's shared state, with each lock's queue holding  *)
(* exactly the calls that wait for it or work under it.                    *)
THEOREM InvocationTypes ==
    ASSUME InvocationAssumption PROVE Spec => []TypeOK
  <1>1. LockInv => TypeOK
    <2> SUFFICES ASSUME LockInv PROVE TypeOK
      OBVIOUS
    <2>1. /\ policyQueue \in Seq(Calls) /\ tokenQueue \in Seq(Calls)
          /\ ToSet(policyQueue) = {c \in Calls : At(c, {"policyWait", "policyFetch"})}
          /\ ToSet(tokenQueue) = {c \in Calls : At(c, {"tokenWait", "tokenFetch"})}
      BY StageOf DEF LockInv, PolicyLock, TokenLock, Locked, At
    <2> QED
      BY <2>1 DEF TypeOK, LockInv, BreakerOK, CallsOK, DoomedOK, DocumentsOK,
                  TokenOK, WorldOK, At
  <1> QED
    BY <1>1, LocksHold, PTL

LEMMA AtMostOne ==
    ASSUME NEW S, \A x, y \in S : x = y
    PROVE  Cardinality(S) <= 1
  <1>1. CASE S = {}
    BY <1>1, FS_EmptySet
  <1>2. CASE S # {}
    <2>1. PICK x \in S : TRUE
      BY <1>2
    <2>2. S = {x}
      BY <2>1
    <2> QED
      BY <2>2, FS_Singleton
  <1> QED
    BY <1>1, <1>2

(* However many calls overlap, one at a time asks for a token and one for  *)
(* a policy, and none for what is cached: _get_token and fetch.            *)
THEOREM NothingStampedes ==
    ASSUME InvocationAssumption PROVE Spec => []NoStampede
  <1>1. LockInv => NoStampede
    <2> SUFFICES ASSUME LockInv PROVE NoStampede
      OBVIOUS
    <2> DEFINE Fetching(stage) == {c \in Calls : At(c, {stage})}
    <2>1. \A c, d \in Fetching("tokenFetch") : c = d
      BY StageOf DEF LockInv, TokenLock, Locked, At
    <2>2. \A c, d \in Fetching("policyFetch") : c = d
      BY StageOf DEF LockInv, PolicyLock, Locked, At
    <2>3. /\ Cardinality(Fetching("tokenFetch")) <= 1
          /\ Cardinality(Fetching("policyFetch")) <= 1
      BY <2>1, <2>2, AtMostOne
    <2> QED
      BY <2>3 DEF NoStampede, LockInv, FetchesAreNeeded, At
  <1> QED
    BY <1>1, LocksHold, PTL

-----------------------------------------------------------------------------
(* 3. The circuit of an agent that is calm. A doomed request was out when  *)
(* something it needs was last down, and no request outlives Timeout; so   *)
(* a circuit trips at most Timeout after the agent became calm, and can be *)
(* probed one Cooldown later.                                              *)

CalmInv ==
    /\ \A f \in Agents : {f, Issuer} \subseteq up \/ calm[f] = 0
    /\ \A c \in doomed : calm[call[c].agent] <= call[c].age
    /\ \A f \in Agents \ McpAgents : cool[f] > 0 => calm[f] + cool[f] <= Horizon

(* A step of c that is on behalf of f dooms no other call, and dooms c     *)
(* only as it sends a request while something f needs is down.             *)
Dooms(c, f) ==
    /\ doomed' \ {c} \subseteq doomed
    /\ c \in doomed' => calm[f] = 0 /\ call'[c].agent = f /\ call'[c].age = 0

LEMMA EndsDooms ==
    ASSUME NEW c, NEW f, Ends(c)
    PROVE  Dooms(c, f)
  BY DEF Ends, Dooms

LEMMA AsksDooms ==
    ASSUME CalmInv, DOMAIN call = Calls, NEW c \in Calls, NEW f \in Agents,
           NEW s \in {f, Issuer}, NEW stage, Asks(c, f, stage, s)
    PROVE  Dooms(c, f)
  <1>1. call'[c].agent = f /\ call'[c].age = 0
    BY DEF Asks, Goes
  <1>2. CASE s \in up
    BY <1>2 DEF Asks, Dooms
  <1>3. CASE s \notin up
    BY <1>1, <1>3 DEF Asks, Dooms, CalmInv
  <1> QED
    BY <1>2, <1>3

LEMMA InvokesDooms ==
    ASSUME CalmInv, DOMAIN call = Calls, DoomedOK, NEW c \in Calls,
           NEW f \in Agents, At(c, {"idle", "policyWait", "policyFetch"}),
           Invokes(c, f)
    PROVE  Dooms(c, f)
  <1>1. CASE Asks(c, f, "sent", f) \/ Asks(c, f, "tokenFetch", Issuer)
    BY <1>1, AsksDooms
  <1>2. CASE doomed' = doomed
    BY <1>2 DEF Dooms, DoomedOK, At
  <1> QED
    BY <1>1, <1>2 DEF Invokes, Sends

LEMMA JudgedDooms ==
    ASSUME CalmInv, DOMAIN call = Calls, DoomedOK, NEW c \in Calls,
           NEW f \in Agents, At(c, {"idle", "policyWait", "policyFetch"}),
           NEW says, Judged(c, f, says)
    PROVE  Dooms(c, f)
  BY EndsDooms, InvokesDooms DEF Judged

(* A failure is reported by a call whose request was doomed.               *)
LEMMA FailureCools ==
    ASSUME InvocationAssumption, LockInv, CalmInv, NEW f \in Agents,
           calm[f] <= Timeout, calm' = calm,
           RecordFailure(f) \/ RecordSuccess(f) \/ RecordNothing
    PROVE  \A g \in Agents \ McpAgents : cool'[g] > 0 => calm'[g] + cool'[g] <= Horizon
  <1>0. /\ cool \in [Agents -> 0..Cooldown] /\ calm \in [Agents -> 0..Horizon]
        /\ Cooldown \in Nat /\ Timeout \in Nat /\ Horizon = Timeout + Cooldown
    BY DEF LockInv, BreakerOK, WorldOK, InvocationAssumption, Horizon
  <1>1. \A g \in Agents : cool'[g] = cool[g] \/ (g = f /\ cool'[g] \in {0, Cooldown})
    BY <1>0 DEF RecordFailure, RecordSuccess, RecordNothing
  <1> QED
    BY <1>0, <1>1 DEF CalmInv

LEMMA CallStepKeepsCalmInv ==
    ASSUME LockInv, CalmInv, NEW c \in Calls, NEW f, NEW stages,
           Reaches(c, f, stages), Dooms(c, f), calm' = calm, up' = up,
           \A g \in Agents \ McpAgents : cool'[g] > 0 => calm'[g] + cool'[g] <= Horizon
    PROVE  CalmInv'
  <1>1. \A d \in doomed' : calm'[call'[d].agent] <= call'[d].age
    <2> SUFFICES ASSUME NEW d \in doomed' PROVE calm'[call'[d].agent] <= call'[d].age
      OBVIOUS
    <2>1. CASE d = c
      BY <2>1 DEF Dooms
    <2>2. CASE d # c
      <3>1. d \in doomed /\ d \in Calls
        BY <2>2 DEF Dooms, LockInv, DoomedOK
      <3> QED
        BY <2>2, <3>1 DEF Reaches, CalmInv
    <2> QED
      BY <2>1, <2>2
  <1> QED
    BY <1>1 DEF CalmInv

LEMMA CoolStays ==
    ASSUME CalmInv, cool' = cool, calm' = calm
    PROVE  \A g \in Agents \ McpAgents : cool'[g] > 0 => calm'[g] + cool'[g] <= Horizon
  BY DEF CalmInv

(* How far a step of a call moves it, and what it dooms.                   *)
LEMMA MovesOfCalls ==
    ASSUME InvocationAssumption, LockInv, CalmInv, NEW c \in Calls,
           \/ \E f \in Agents : Begin(c, f)
           \/ Step(c) \/ Cancel(c)
    PROVE  \E f \in Agents : (\E stages : Reaches(c, f, stages)) /\ Dooms(c, f)
  <1>0. DOMAIN call = Calls /\ DoomedOK /\ TokenOK /\ CallsOK
    BY DEF LockInv, CallsOK
  <1>1. ASSUME NEW f \in Agents, At(c, {"idle", "policyWait", "policyFetch"}),
               Invokes(c, f) \/ \E says : Judged(c, f, says)
        PROVE  (\E stages : Reaches(c, f, stages)) /\ Dooms(c, f)
    BY <1>0, <1>1, InvokesReaches, JudgedReaches, InvokesDooms, JudgedDooms
  <1>2. ASSUME NEW f \in Agents, NEW stage \in Stages, Goes(c, f, stage),
               doomed' = doomed,
               call[c].at \notin {"tokenFetch", "sent"}
        PROVE  (\E stages : Reaches(c, f, stages)) /\ Dooms(c, f)
    BY <1>0, <1>2, GoesReaches DEF Dooms, DoomedOK
  <1>3. ASSUME NEW f, Ends(c)
        PROVE  (\E stages : Reaches(c, f, stages)) /\ Dooms(c, f)
    BY <1>0, <1>3, EndsReaches, EndsDooms
  <1>4. ASSUME NEW f \in Agents, \/ Asks(c, f, "sent", f)
                                 \/ Asks(c, f, "tokenFetch", Issuer)
        PROVE  (\E stages : Reaches(c, f, stages)) /\ Dooms(c, f)
    BY <1>0, <1>4, AsksReaches, AsksDooms
  <1>5. ASSUME NEW f \in Agents, Begin(c, f)
        PROVE  (\E stages : Reaches(c, f, stages)) /\ Dooms(c, f)
    <2>1. call[c].at = "idle" /\ At(c, {"idle", "policyWait", "policyFetch"})
      BY <1>5 DEF Begin, At
    <2>2. CASE Invokes(c, f) \/ Judged(c, f, documents[f].says)
      BY <1>1, <2>1, <2>2
    <2>3. CASE /\ Goes(c, f, IF policyQueue = <<>> THEN "policyFetch" ELSE "policyWait")
               /\ doomed' = doomed
      BY <1>2, <2>1, <2>3 DEF Stages, Requests
    <2> QED
      BY <1>5, <2>2, <2>3 DEF Begin
  <1> DEFINE f == call[c].agent
  <1>6. CASE Step(c) \/ Cancel(c)
    <2>0. call[c].at # "idle" /\ f \in Agents
      BY <1>0, <1>6, AgentOfCall DEF Step, Cancel, PolicyTurn, PolicyAnswered,
         TokenTurn, TokenIssued, TokenFailed, AgentAnswers
    <2>1. (\E stages : Reaches(c, f, stages)) /\ Dooms(c, f)
      <3>1. CASE PolicyTurn(c)
        <4>1. call[c].at = "policyWait" /\ At(c, {"idle", "policyWait", "policyFetch"})
          BY <3>1 DEF PolicyTurn, At
        <4>2. \/ Judged(c, f, documents[f].says)
              \/ Goes(c, f, "policyFetch") /\ doomed' = doomed
          BY <3>1 DEF PolicyTurn
        <4>3. CASE Judged(c, f, documents[f].says)
          BY <1>1, <2>0, <4>1, <4>3
        <4>4. CASE Goes(c, f, "policyFetch") /\ doomed' = doomed
          BY <1>2, <2>0, <4>1, <4>4 DEF Stages, Requests
        <4> QED
          BY <4>2, <4>3, <4>4
      <3>2. CASE PolicyAnswered(c)
        <4>1. At(c, {"idle", "policyWait", "policyFetch"})
          BY <3>2 DEF PolicyAnswered, At
        <4>2. Invokes(c, f) \/ \E says : Judged(c, f, says)
          BY <3>2 DEF PolicyAnswered
        <4> QED
          BY <1>1, <2>0, <4>1, <4>2
      <3>3. CASE TokenTurn(c) \/ TokenIssued(c)
        BY <1>4, <2>0, <3>3 DEF TokenTurn, TokenIssued, Sends
      <3>4. CASE TokenFailed(c) \/ AgentAnswers(c) \/ Cancel(c)
        BY <1>3, <3>4 DEF TokenFailed, AgentAnswers, Cancel
      <3> QED
        BY <1>6, <3>1, <3>2, <3>3, <3>4 DEF Step
    <2> QED
      BY <2>0, <2>1
  <1> QED
    BY <1>5, <1>6

LEMMA CallsKeepCalmInv ==
    ASSUME InvocationAssumption, LockInv, CalmInv, NEW c \in Calls,
           \/ \E f \in Agents : Begin(c, f)
           \/ Step(c) \/ Cancel(c)
    PROVE  CalmInv'
  <1>0. PICK f \in Agents : (\E stages : Reaches(c, f, stages)) /\ Dooms(c, f)
    BY MovesOfCalls
  <1>1. PICK stages : Reaches(c, f, stages)
    BY <1>0
  <1>2. calm' = calm /\ up' = up
    BY DEF Begin, Step, Cancel, PolicyTurn, PolicyAnswered, TokenTurn, TokenIssued,
           TokenFailed, AgentAnswers, world
  <1>3. \A g \in Agents \ McpAgents : cool'[g] > 0 => calm'[g] + cool'[g] <= Horizon
    <2>1. CASE cool' = cool
      BY <1>2, <2>1, CoolStays
    <2>2. CASE TokenFailed(c) \/ AgentAnswers(c)
      <3> DEFINE h == call[c].agent
      <3>0. h \in Agents /\ call[c].age \in 0..Timeout
        <4>1. call[c].at # "idle" /\ CallsOK
          BY <2>2 DEF TokenFailed, AgentAnswers, LockInv
        <4> QED
          BY <4>1, AgentOfCall
      <3>1. CASE c \in doomed
        <4>1. calm[h] <= Timeout
          <5>1. calm[h] \in Nat /\ calm[h] <= call[c].age /\ Timeout \in Nat
            BY <3>0, <3>1 DEF CalmInv, LockInv, WorldOK, InvocationAssumption, Horizon
          <5> QED
            BY <3>0, <5>1
        <4>2. RecordFailure(h) \/ RecordNothing
          BY <2>2, <3>1 DEF TokenFailed, AgentAnswers
        <4> QED
          BY <1>2, <3>0, <4>1, <4>2, FailureCools
      <3>2. CASE c \notin doomed
        <4>1. RecordSuccess(h)
          BY <2>2, <3>2 DEF TokenFailed, AgentAnswers
        <4>2. \A g \in Agents : cool'[g] = cool[g] \/ cool'[g] = 0
          BY <4>1 DEF RecordSuccess, LockInv, BreakerOK
        <4> QED
          BY <1>2, <4>2 DEF CalmInv
      <3> QED
        BY <3>1, <3>2
    <2>3. CASE Cancel(c)
      <3>1. cool' = cool \/ (call[c].agent \in McpAgents /\ RecordFailure(call[c].agent))
        BY <2>3 DEF Cancel, RecordNothing
      <3>2. \A g \in Agents \ McpAgents : cool'[g] = cool[g]
        BY <3>1 DEF RecordFailure, LockInv, BreakerOK
      <3> QED
        BY <1>2, <3>2 DEF CalmInv
    <2> QED
      BY <2>1, <2>2, <2>3 DEF Begin, Step, PolicyTurn, PolicyAnswered, TokenTurn,
         TokenIssued
  <1> QED
    BY <1>0, <1>1, <1>2, <1>3, CallStepKeepsCalmInv

LEMMA WorldKeepsCalmInv ==
    ASSUME InvocationAssumption, LockInv, CalmInv,
           \/ \E s \in Agents \cup {Issuer} : GoesDown(s) \/ ComesUp(s)
           \/ \E f \in Agents : PolicyChanges(f)
           \/ UNCHANGED vars
    PROVE  CalmInv'
  <1>0. /\ cool' = cool /\ call' = call /\ cool \in [Agents -> 0..Cooldown]
        /\ calm \in [Agents -> 0..Horizon] /\ Cooldown \in Nat /\ Timeout \in Nat
        /\ Horizon = Timeout + Cooldown /\ CallsOK /\ DoomedOK
    BY DEF GoesDown, ComesUp, PolicyChanges, vars, shared, locals, LockInv,
           BreakerOK, WorldOK, Horizon, InvocationAssumption
  <1>1. ASSUME NEW s \in Agents \cup {Issuer}, GoesDown(s) PROVE CalmInv'
    <2>1. /\ \A f \in Agents : calm'[f] = IF s \in {f, Issuer} THEN 0 ELSE calm[f]
          /\ up' = up \ {s}
      BY <1>1 DEF GoesDown
    <2>2. PICK lost \in SUBSET {c \in Calls : Uses(c, s)} : doomed' = doomed \cup lost
      BY <1>1 DEF GoesDown
    <2>3. \A f \in Agents : calm'[f] = 0 \/ calm'[f] = calm[f]
      BY <2>1
    <2>4. \A f \in Agents : {f, Issuer} \subseteq up' \/ calm'[f] = 0
      BY <2>1 DEF CalmInv
    <2>5. \A f \in Agents \ McpAgents : cool'[f] > 0 => calm'[f] + cool'[f] <= Horizon
      BY <1>0, <2>3 DEF CalmInv
    <2>6. \A c \in doomed' : calm'[call'[c].agent] <= call'[c].age
      <3> SUFFICES ASSUME NEW c \in doomed' PROVE calm'[call[c].agent] <= call[c].age
        BY <1>0
      <3>1. c \in Calls /\ call[c].at \in {"tokenFetch", "sent"}
        BY <1>0, <2>2 DEF DoomedOK, Uses
      <3>2. call[c].agent \in Agents /\ call[c].age \in 0..Timeout
        BY <1>0, <3>1, AgentOfCall
      <3>3. CASE c \in doomed
        BY <1>0, <2>3, <3>2, <3>3 DEF CalmInv
      <3>4. CASE c \in lost
        <4>1. s \in {call[c].agent, Issuer}
          BY <3>4 DEF Uses
        <4> QED
          BY <1>0, <2>1, <3>2, <4>1
      <3> QED
        BY <2>2, <3>3, <3>4
    <2> QED
      BY <2>4, <2>5, <2>6 DEF CalmInv
  <1>2. ASSUME NEW s \in Agents \cup {Issuer}, ComesUp(s) PROVE CalmInv'
    BY <1>0, <1>2 DEF ComesUp, CalmInv, locals
  <1>3. ASSUME NEW f \in Agents, PolicyChanges(f) PROVE CalmInv'
    BY <1>0, <1>3 DEF PolicyChanges, CalmInv, locals
  <1>4. CASE UNCHANGED vars
    BY <1>4 DEF vars, locals, shared, world, CalmInv
  <1> QED
    BY <1>1, <1>2, <1>3, <1>4

LEMMA TickKeepsCalmInv ==
    ASSUME InvocationAssumption, LockInv, CalmInv, Tick
    PROVE  CalmInv'
  <1>0. /\ cool \in [Agents -> 0..Cooldown] /\ calm \in [Agents -> 0..Horizon]
        /\ Cooldown \in Nat /\ Timeout \in Nat /\ Horizon = Timeout + Cooldown
        /\ CallsOK /\ DoomedOK /\ doomed' = doomed /\ up' = up
    BY DEF Tick, LockInv, BreakerOK, WorldOK, Horizon, InvocationAssumption
  <1>1. /\ \A f \in Agents : cool'[f] = Less(cool[f])
        /\ \A f \in Agents : calm'[f] = IF {f, Issuer} \subseteq up
                                      THEN More(calm[f], Horizon) ELSE 0
    BY DEF Tick
  <1>2. \A f \in Agents : /\ calm'[f] \in Nat
                         /\ calm'[f] <= calm[f] + 1
    BY <1>0, <1>1 DEF More
  <1>3. \A f \in Agents \ McpAgents : cool'[f] > 0 => calm'[f] + cool'[f] <= Horizon
    BY <1>0, <1>1, <1>2 DEF Less, CalmInv
  <1>4. \A c \in doomed' : calm'[call'[c].agent] <= call'[c].age
    <2> SUFFICES ASSUME NEW c \in doomed PROVE calm'[call'[c].agent] <= call'[c].age
      BY <1>0
    <2>1. c \in Calls /\ call[c].at \in Requests /\ call[c].at # "idle"
      BY <1>0 DEF DoomedOK, Requests
    <2>2. call[c].agent \in Agents /\ call[c].age \in 0..Timeout
      BY <1>0, <2>1, AgentOfCall
    <2>3. call'[c] = [call[c] EXCEPT !.age = @ + 1]
      BY <2>1 DEF Tick, At
    <2>4. call[c] \in [at : Stages, agent : Agents, age : 0..Timeout]
      BY <1>0, <2>1 DEF CallsOK, Idle
    <2>5. call'[c].agent = call[c].agent /\ call'[c].age = call[c].age + 1
      BY <2>3, <2>4
    <2>6. calm[call[c].agent] <= call[c].age
      BY DEF CalmInv
    <2> QED
      BY <1>0, <1>2, <2>2, <2>5, <2>6
  <1> QED
    BY <1>0, <1>1, <1>3, <1>4 DEF CalmInv

LEMMA CalmInit == ASSUME InvocationAssumption, Init PROVE CalmInv
  BY DEF Init, CalmInv

LEMMA CalmNext ==
    ASSUME InvocationAssumption, LockInv, CalmInv, [Next]_vars PROVE CalmInv'
  BY CallsKeepCalmInv, WorldKeepsCalmInv, TickKeepsCalmInv DEF Next

(* Once an agent and the issuer have answered for the longest request plus *)
(* one cooldown, get_state no longer says "open", whatever failures were   *)
(* still on their way.                                                     *)
THEOREM CalmAgentsAreServed ==
    ASSUME InvocationAssumption PROVE Spec => []CalmAgentIsServed
  <1>1. LockInv /\ CalmInv => CalmAgentIsServed
    <2> SUFFICES ASSUME LockInv, CalmInv, NEW f \in Agents \ McpAgents, ~Admits(f)
                 PROVE  calm[f] < Horizon
      BY DEF CalmAgentIsServed
    <2>1. /\ cool[f] \in 0..Cooldown /\ calm[f] \in 0..Horizon /\ cool[f] # 0
          /\ Horizon \in Nat /\ Cooldown \in Nat
      BY DEF Admits, LockInv, BreakerOK, WorldOK, Horizon, InvocationAssumption
    <2>2. calm[f] + cool[f] <= Horizon
      BY <2>1 DEF CalmInv
    <2> QED
      BY <2>1, <2>2
  <1> QED
    BY <1>1, LocksHold, CalmInit, CalmNext, PTL DEF Spec

-----------------------------------------------------------------------------
(* 4. Permissions. A cached permission that was withdrawn was still served *)
(* at most Timeout before it was cached, and ages as fast as the policy it *)
(* no longer is.                                                           *)

PermissionInv ==
    \A f \in Agents :
        documents[f].fresh > 0 /\ documents[f].says = "allow" /\ policy[f] = "deny"
            => lapse[f] + documents[f].fresh <= Staleness

LEMMA PermissionInit == ASSUME Init PROVE PermissionInv
  BY DEF Init, PermissionInv, NoDocument

LEMMA PermissionNext ==
    ASSUME InvocationAssumption, LockInv, PermissionInv, [Next]_vars
    PROVE  PermissionInv'
  <1>0. /\ documents \in [Agents -> [says : Verdict, fresh : 0..PolicyTTL]]
        /\ policy \in [Agents -> Verdict] /\ lapse \in [Agents -> 0..Staleness]
        /\ PolicyTTL \in Nat /\ Timeout \in Nat /\ Staleness = PolicyTTL + Timeout
        /\ CallsOK
    BY DEF LockInv, DocumentsOK, WorldOK, InvocationAssumption, Staleness
  <1>1. CASE UNCHANGED <<documents, policy, lapse>>
    BY <1>1 DEF PermissionInv
  <1>2. ASSUME NEW c \in Calls, PolicyAnswered(c) PROVE PermissionInv'
    <2> DEFINE f == call[c].agent
    <2>0. /\ f \in Agents /\ call[c].age \in 0..Timeout
          /\ policy' = policy /\ lapse' = lapse
      <3>1. call[c].at # "idle"
        BY <1>2 DEF PolicyAnswered
      <3> QED
        BY <1>0, <1>2, <3>1, AgentOfCall DEF PolicyAnswered, world
    <2>1. CASE documents' = documents
      BY <2>0, <2>1 DEF PermissionInv
    <2>2. ASSUME NEW says, documents' = Stored(f, says),
                 says = policy[f] \/ lapse[f] <= call[c].age
          PROVE  PermissionInv'
      <3>1. documents'[f] = [says |-> says, fresh |-> PolicyTTL]
            /\ \A g \in Agents \ {f} : documents'[g] = documents[g]
        BY <1>0, <2>0, <2>2 DEF Stored
      <3>2. says = "allow" /\ policy[f] = "deny" => lapse[f] + PolicyTTL <= Staleness
        BY <1>0, <2>0, <2>2
      <3> QED
        BY <2>0, <3>1, <3>2 DEF PermissionInv
    <2>3. \/ documents' = documents
          \/ \E says : /\ documents' = Stored(f, says)
                       /\ says = policy[f] \/ lapse[f] <= call[c].age
      BY <1>2 DEF PolicyAnswered
    <2> QED
      BY <2>1, <2>2, <2>3
  <1>3. ASSUME NEW f \in Agents, PolicyChanges(f) PROVE PermissionInv'
    <2>1. /\ documents' = documents
          /\ lapse'[f] = 0
          /\ \A g \in Agents \ {f} : policy'[g] = policy[g] /\ lapse'[g] = lapse[g]
      BY <1>0, <1>3 DEF PolicyChanges, shared
    <2> QED
      BY <1>0, <2>1 DEF PermissionInv
  <1>4. CASE Tick
    <2>1. \A f \in Agents : /\ documents'[f] = Aged(f)
                           /\ lapse'[f] = More(lapse[f], Staleness)
                           /\ policy'[f] = policy[f]
      BY <1>4 DEF Tick
    <2>2. \A f \in Agents :
             Aged(f).fresh > 0 => /\ Aged(f).fresh = documents[f].fresh - 1
                                  /\ Aged(f).says = documents[f].says
      BY <1>0 DEF Aged, NoDocument
    <2>3. \A f \in Agents : lapse'[f] <= lapse[f] + 1 /\ lapse'[f] \in Nat
      BY <1>0, <2>1 DEF More
    <2> SUFFICES ASSUME NEW f \in Agents, Aged(f).fresh > 0, Aged(f).says = "allow",
                        policy[f] = "deny"
                 PROVE  lapse'[f] + Aged(f).fresh <= Staleness
      BY <2>1 DEF PermissionInv
    <2>4. documents[f].fresh \in Nat /\ documents[f].fresh > 0
          /\ documents[f].says = "allow" /\ lapse[f] \in Nat
          /\ Aged(f).fresh = documents[f].fresh - 1
      BY <1>0, <2>2
    <2>5. lapse[f] + documents[f].fresh <= Staleness
      BY <2>4 DEF PermissionInv
    <2> QED
      BY <1>0, <2>3, <2>4, <2>5
  <1> QED
    BY <1>1, <1>2, <1>3, <1>4 DEF Next, Step, Begin, PolicyTurn, TokenTurn,
       TokenIssued, TokenFailed, AgentAnswers, Cancel, GoesDown, ComesUp,
       vars, shared, world

LEMMA TickKeepsStage ==
    ASSUME CallsOK, Tick, NEW c \in Calls
    PROVE  call'[c].at = call[c].at
  <1>1. CASE call[c].at \in Requests
    <2>1. call'[c] = [call[c] EXCEPT !.age = @ + 1]
      BY <1>1 DEF Tick, At
    <2>2. call[c] \in [at : Stages, agent : Agents, age : 0..Timeout]
      BY <1>1 DEF CallsOK, Idle, Requests
    <2> QED
      BY <2>1, <2>2
  <1>2. CASE call[c].at \notin Requests
    BY <1>2 DEF Tick, At
  <1> QED
    BY <1>1, <1>2

LEMMA OthersStay ==
    ASSUME InvocationAssumption, DOMAIN call = Calls,
           NEW d \in Calls, NEW c \in Calls, d # c,
           \/ \E f \in Agents : Begin(d, f)
           \/ Step(d) \/ Cancel(d)
    PROVE  call'[c] = call[c]
  <1>1. \A f, stage : Goes(d, f, stage) => call'[c] = call[c]
    BY DEF Goes
  <1>2. Ends(d) => call'[c] = call[c]
    BY DEF Ends
  <1>3. \A f : Invokes(d, f) => call'[c] = call[c]
    BY <1>1 DEF Invokes, Sends, Asks
  <1>4. \A f, says : Judged(d, f, says) => call'[c] = call[c]
    BY <1>2, <1>3 DEF Judged
  <1>5. ASSUME NEW f \in Agents, Begin(d, f) PROVE call'[c] = call[c]
    BY <1>1, <1>3, <1>4, <1>5 DEF Begin
  <1>6. CASE PolicyTurn(d)
    BY <1>1, <1>4, <1>6 DEF PolicyTurn
  <1>7. CASE PolicyAnswered(d)
    BY <1>3, <1>4, <1>7 DEF PolicyAnswered
  <1>8. CASE TokenTurn(d) \/ TokenIssued(d)
    BY <1>1, <1>8 DEF TokenTurn, TokenIssued, Sends, Asks
  <1>9. CASE TokenFailed(d) \/ AgentAnswers(d) \/ Cancel(d)
    BY <1>2, <1>9 DEF TokenFailed, AgentAnswers, Cancel
  <1> QED
    BY <1>5, <1>6, <1>7, <1>8, <1>9 DEF Step

(* Where a step that lets a call past its policy took the permission from. *)
LEMMA PastPolicyIsRecent ==
    ASSUME InvocationAssumption, LockInv, PermissionInv, [Next]_vars,
           NEW c \in Calls, PolicyMode = "strict", PastPolicy(c), ~PolicyFailed(c),
           policy[call'[c].agent] = "deny"
    PROVE  lapse[call'[c].agent] < Staleness
  <1>0. /\ documents \in [Agents -> [says : Verdict, fresh : 0..PolicyTTL]]
        /\ policy \in [Agents -> Verdict] /\ lapse \in [Agents -> 0..Staleness]
        /\ PolicyTTL \in Nat /\ Timeout \in Nat /\ Staleness = PolicyTTL + Timeout
        /\ PolicyTTL > 0 /\ CallsOK /\ DoomedOK /\ TokenOK /\ DOMAIN call = Calls
    BY DEF LockInv, DocumentsOK, WorldOK, InvocationAssumption, Staleness, CallsOK
  <1>1. /\ call[c].at \in {"idle", "policyWait", "policyFetch"}
        /\ call'[c].at \in {"tokenWait", "tokenFetch", "sent"}
        /\ At(c, {"idle", "policyWait", "policyFetch"})
    BY DEF PastPolicy, At
  <1>2. ASSUME NEW f \in Agents, NEW says, Judged(c, f, says)
        PROVE  says # "deny" /\ call'[c].agent = f
    <2>1. says # "deny"
      BY <1>0, <1>1, <1>2 DEF Judged, Ends, Idle
    <2>2. Reaches(c, f, {"idle", "sent", "tokenWait", "tokenFetch"})
      BY <1>0, <1>1, <1>2, JudgedReaches
    <2> QED
      BY <1>0, <1>1, <2>1, <2>2, ReachesKeepsTypes
  <1>3. ASSUME NEW f \in Agents, Fresh(f), Judged(c, f, documents[f].says)
        PROVE  lapse[call'[c].agent] < Staleness
    <2>1. documents[f].says = "allow" /\ call'[c].agent = f
      BY <1>0, <1>2, <1>3 DEF Verdict
    <2>2. documents[f].fresh \in Nat /\ documents[f].fresh > 0 /\ lapse[f] \in Nat
      BY <1>0, <1>3 DEF Fresh
    <2>3. lapse[f] + documents[f].fresh <= Staleness
      BY <2>1, <2>2 DEF PermissionInv
    <2> QED
      BY <1>0, <2>1, <2>2, <2>3
  <1>4. ASSUME NEW f \in Agents, Begin(c, f) PROVE lapse[call'[c].agent] < Staleness
    <2>1. CASE Fresh(f) /\ Judged(c, f, documents[f].says)
      BY <1>3, <2>1
    <2>2. CASE Goes(c, f, IF policyQueue = <<>> THEN "policyFetch" ELSE "policyWait")
      BY <1>0, <1>1, <2>2 DEF Goes
    <2> QED
      BY <1>4, <2>1, <2>2 DEF Begin
  <1>5. CASE PolicyTurn(c)
    <2>0. call[c].agent \in Agents
      BY <1>0, <1>5, AgentOfCall DEF PolicyTurn
    <2>1. CASE Fresh(call[c].agent) /\ Judged(c, call[c].agent, documents[call[c].agent].says)
      BY <1>3, <2>0, <2>1
    <2>2. CASE Goes(c, call[c].agent, "policyFetch")
      BY <1>0, <1>1, <2>2 DEF Goes
    <2> QED
      BY <1>5, <2>1, <2>2 DEF PolicyTurn
  <1>6. CASE PolicyAnswered(c)
    <2> DEFINE f == call[c].agent
    <2>0. f \in Agents /\ call[c].age \in 0..Timeout /\ call[c].at = "policyFetch"
      BY <1>0, <1>6, AgentOfCall DEF PolicyAnswered
    <2>1. documents[f].fresh = 0
      BY <1>0, <2>0 DEF LockInv, FetchesAreNeeded, Fresh
    <2>2. documents' # documents
      BY <2>0, <2>1 DEF PolicyFailed, At
    <2>3. PICK says \in {policy[f]} \cup (IF lapse[f] <= call[c].age THEN Verdict ELSE {}) :
             Judged(c, f, says)
      BY <1>6, <2>2 DEF PolicyAnswered
    <2>4. says # "deny" /\ call'[c].agent = f
      BY <1>2, <2>0, <2>3
    <2>5. lapse[f] <= call[c].age
      BY <2>3, <2>4
    <2> QED
      BY <1>0, <2>0, <2>4, <2>5
  <1>7. ASSUME call'[c].at = call[c].at PROVE FALSE
    BY <1>1, <1>7
  <1>8. ASSUME NEW d \in Calls, d # c,
               \/ \E f \in Agents : Begin(d, f)
               \/ Step(d) \/ Cancel(d)
        PROVE  FALSE
    <2>1. call'[c] = call[c]
      BY <1>0, <1>8, OthersStay
    <2> QED
      BY <1>7, <2>1
  <1>9. CASE Step(c) \/ Cancel(c)
    <2>1. PolicyTurn(c) \/ PolicyAnswered(c)
      BY <1>0, <1>1, <1>9 DEF Step, TokenTurn, TokenIssued, TokenFailed, AgentAnswers,
         Cancel, Ends, Idle
    <2> QED
      BY <1>5, <1>6, <2>1
  <1>10. CASE Tick
    <2>1. call'[c] = IF At(c, Requests) THEN [call[c] EXCEPT !.age = @ + 1] ELSE call[c]
      BY <1>10 DEF Tick
    <2>2. call'[c].at = call[c].at
      BY <1>0, <2>1, TickKeepsStage, <1>10
    <2> QED
      BY <1>7, <2>2
  <1>11. CASE \/ \E s \in Agents \cup {Issuer} : GoesDown(s) \/ ComesUp(s)
              \/ \E f \in Agents : PolicyChanges(f)
              \/ UNCHANGED vars
    <2>1. call' = call
      BY <1>11 DEF GoesDown, ComesUp, PolicyChanges, vars, locals
    <2> QED
      BY <1>7, <2>1
  <1> QED
    BY <1>4, <1>8, <1>9, <1>10, <1>11 DEF Next

(* A withdrawn permission stops being used: in strict mode no call goes    *)
(* past its policy on an answer older than the cache's lifetime and one    *)
(* request, however calls and refreshes overlap.                           *)
THEOREM PermissionsAreRecent ==
    ASSUME InvocationAssumption PROVE Spec => PermissionIsRecent
  <1>1. LockInv /\ PermissionInv /\ [Next]_vars =>
          [\A c \in Calls :
             LET f == call'[c].agent IN
             /\ PolicyMode = "strict" /\ PastPolicy(c) /\ ~PolicyFailed(c)
             /\ policy[f] = "deny"
             => lapse[f] < Staleness]_vars
    BY PastPolicyIsRecent
  <1> QED
    BY <1>1, LocksHold, PermissionInit, PermissionNext, PTL DEF Spec, PermissionIsRecent

=============================================================================
