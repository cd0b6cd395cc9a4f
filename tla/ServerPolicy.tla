----------------------------- MODULE ServerPolicy -----------------------------
(***************************************************************************)
(* The policy middleware of an agent's own server                          *)
(* (src/dns_aid/sdk/policy/middleware.py): each request is put to the      *)
(* policy document and, if the caller gives its domain, to a rate limiter  *)
(* that remembers a bounded number of callers.  A dispatch awaits only the *)
(* document, so the limiter and the verdict are one step.                  *)
(***************************************************************************)
EXTENDS Integers, Sequences, FiniteSets, SequencesExt, Selection

CONSTANTS
  Callers,     \* the domains callers give
  MaxCallers,  \* RateLimitState._MAX_CALLERS
  Minute, Hour,\* the two windows, in ticks
  PerMinute, PerHour, \* the limits of the policy, 0 for none
  Mode,        \* "strict" or "permissive"
  LastTick,    \* bound: the clock stops there
  MaxServed    \* bound: requests

(* Spans, limits and the number of callers remembered are numbers.         *)
ASSUME ServerPolicyAssumption ==
  MaxCallers \in Nat /\ {Minute, Hour, PerMinute, PerHour, LastTick} \subseteq Nat

VARIABLES
  clock,
  windows,  \* per remembered caller, when it was admitted within the last hour
  order,    \* the callers by their last admission, which is finer than the clock
  answer,   \* the response of the request just served
  served,
  streak    \* (ghost) per caller, its admissions within the hour since so many
            \* others were admitted that it may have been forgotten

spVars == <<clock, windows, order, answer, served, streak>>

spInit ==
  /\ clock = 0
  /\ windows = [c \in {} |-> <<>>]
  /\ order = <<>>
  /\ answer = "none"
  /\ served = 0
  /\ streak = [c \in Callers |-> <<>>]

Within(times, span) == Pick(times, {i \in DOMAIN times : clock - times[i] < span})
Entries(c) == IF c \in DOMAIN windows THEN Within(windows[c], Hour) ELSE <<>>

Full(times) ==
  \/ PerMinute # 0 /\ Len(Within(times, Minute)) >= PerMinute
  \/ PerHour # 0 /\ Len(Within(times, Hour)) >= PerHour

\* Over the bound the caller whose last admission is the oldest is forgotten.
Remembered(w, callers) == Pick(callers, {i \in DOMAIN callers : callers[i] \in DOMAIN w})
Dropped_Newest(w, callers) == Last(Remembered(w, callers))
Dropped(w, callers) == Head(Remembered(w, callers))

Bounded_AtTwice(w, callers) ==
  IF Cardinality(DOMAIN w) <= 2 * MaxCallers THEN w
  ELSE [c \in DOMAIN w \ {Dropped(w, callers)} |-> w[c]]
Bounded(w, callers) ==
  IF Cardinality(DOMAIN w) <= MaxCallers THEN w
  ELSE [c \in DOMAIN w \ {Dropped(w, callers)} |-> w[c]]

WithEntries(c, times) == [d \in DOMAIN windows \cup {c} |-> IF d = c THEN times ELSE windows[d]]

\* The callers that so many others came after that they may be forgotten.
Outrun(callers) == {callers[i] : i \in 1 .. Len(callers) - MaxCallers}

(* check refuses, and remembers the pruned window; nothing is forgotten. *)
RateLimited(c) ==
  /\ Full(Entries(c))
  /\ windows' = WithEntries(c, Entries(c))
  /\ answer' = "429"
  /\ UNCHANGED <<order, streak>>

(* check admits: the request counts, whatever the policy says of it then. *)
Passed(denied) ==
  IF ~ denied THEN "allowed" ELSE IF Mode = "strict" THEN "403" ELSE "denied but served"

Admit(c, denied) ==
  /\ ~ Full(Entries(c))
  /\ order' = Append(Pick(order, {i \in DOMAIN order : order[i] # c}), c)
  /\ windows' = Bounded(WithEntries(c, Append(Entries(c), clock)), order')
  /\ answer' = Passed(denied)
  /\ streak' = [d \in Callers |-> IF d \in Outrun(order') THEN <<>>
                                  ELSE IF d = c THEN Append(Within(streak[c], Hour), clock)
                                  ELSE streak[d]]

(* A request without a caller domain is not limited. *)
Anonymous(denied) ==
  /\ answer' = Passed(denied)
  /\ UNCHANGED <<windows, order, streak>>

(* The document cannot be fetched or evaluated: the request is served. *)
NoPolicy ==
  /\ answer' = "no policy"
  /\ UNCHANGED <<windows, order, streak>>

Serve ==
  /\ served < MaxServed
  /\ served' = served + 1
  /\ \/ \E c \in Callers :
          \/ RateLimited(c)
          \/ \E denied \in BOOLEAN : Admit(c, denied)
     \/ \E denied \in BOOLEAN : Anonymous(denied)
     \/ NoPolicy
  /\ UNCHANGED clock

Pass ==
  /\ clock < LastTick
  /\ clock' = clock + 1
  /\ answer' = "none"
  /\ UNCHANGED <<windows, order, served, streak>>

spNext == Serve \/ Pass
spSpec == spInit /\ [][spNext]_spVars

-----------------------------------------------------------------------------
spTypeOK ==
  /\ clock \in 0 .. LastTick
  /\ DOMAIN windows \subseteq Callers /\ Cardinality(DOMAIN windows) <= MaxCallers
  /\ answer \in {"none", "429", "403", "allowed", "denied but served", "no policy"}

(* A caller gets more requests through than its limit in a minute or an    *)
(* hour only if, since an earlier one of them, at least MaxCallers other   *)
(* callers were admitted (middleware.py:67 forgets the least recent one).  *)
LimitHolds ==
  \A c \in Callers :
    /\ PerMinute # 0 => Len(Within(streak[c], Minute)) <= PerMinute
    /\ PerHour # 0 => Len(Within(streak[c], Hour)) <= PerHour
=============================================================================
