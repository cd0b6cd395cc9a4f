------------------------- MODULE Publication_proofs -------------------------
(***************************************************************************)
(* Theorems about Publication, for any clients, names, protocols, faults   *)
(* and bounds.                                                             *)
(***************************************************************************)
EXTENDS Publication, TLAPS

LEMMA ProtocolOfType ==
    ASSUME NEW s \in [Names -> Primary \cup {None}], NEW n \in Names
    PROVE  ProtocolOf(s, n) \in Protocols \cup {Unknown}
BY DEF ProtocolOf, Primary

LEMMA ShownType ==
    ASSUME NEW s \in [Names -> Primary \cup {None}], NEW a \in SUBSET Names,
           NEW l \in SUBSET (Agents \X {"SVCB", "TXT"})
    PROVE  /\ WalkableEntries(s, a) \subseteq Entries
           /\ LegacyEntries(l) \subseteq Entries
           /\ PrimaryEntries(s) \subseteq Entries
           /\ FlatEntries(s, a, l) \subseteq Entries
           /\ Shown(s, a, l) \subseteq Entries
<1>1. \A n \in Names : <<n, ProtocolOf(s, n)>> \in Entries
  BY ProtocolOfType DEF Entries
<1>2. WalkableEntries(s, a) \subseteq Entries
  BY <1>1 DEF WalkableEntries
<1>3. LegacyEntries(l) \subseteq Entries
  BY DEF LegacyEntries, Entries, Agents
<1>4. PrimaryEntries(s) \subseteq Entries
  BY <1>1 DEF PrimaryEntries, Owners
<1>5. FlatEntries(s, a, l) \subseteq Entries
  BY <1>4 DEF FlatEntries
<1>6. QED
  BY <1>2, <1>3, <1>4, <1>5 DEF Shown

LEMMA FreshType ==
    ASSUME NEW kind \in {"publish", "unpublish", "sync"},
           NEW agent \in Agents, NEW walk \in BOOLEAN
    PROVE  Fresh(kind, agent, walk) \in Local
BY DEF Fresh, Local

LEMMA SomeAgentIsOne == SomeAgent \in Agents
<1>1. PICK n \in Names, p \in Protocols : TRUE
  BY PublicationAssumption
<1>2. <<n, p>> \in Agents
  BY DEF Agents
<1>3. QED
  BY <1>2 DEF SomeAgent

(* The initial state is well typed.                                        *)
LEMMA InitType == Init => TypeOK
<1>. SUFFICES ASSUME Init PROVE TypeOK
  OBVIOUS
<1>. USE PublicationAssumption DEF Init
<1>1. me \in [Clients -> Local]
  BY SomeAgentIsOne, FreshType
<1>2. legacy \subseteq Agents \X {"SVCB", "TXT"} /\ announced \subseteq Entries
  BY DEF Agents, Entries
<1>3. QED
  BY <1>1, <1>2 DEF TypeOK, Steps

(* What every write leaves typed.                                          *)
LEMMA WroteType ==
    ASSUME TypeOK, NEW c \in Clients, Wrote(c),
           svcb' \in [Names -> Primary \cup {None}], alias' \subseteq Names,
           legacy' \subseteq Agents \X {"SVCB", "TXT"}
    PROVE  /\ alone' \in [Clients -> BOOLEAN] /\ announced' \subseteq Entries
           /\ touched' \in [Clients -> SUBSET Names]
<1>1. alone' \in [Clients -> BOOLEAN]
  BY DEF Wrote, TypeOK
<1>2. announced' \subseteq Entries
  BY ShownType DEF Wrote, TypeOK
<1>3. touched' \in [Clients -> SUBSET Names]
  BY DEF Wrote, TypeOK, Changed
<1>4. QED
  BY <1>1, <1>2, <1>3
-----------------------------------------------------------------------------
(* Each action keeps the types, one lemma per phase of an operation.       *)

LEMMA StartType ==
    ASSUME TypeOK, NEW c \in Clients, Start(c) PROVE TypeOK'
<1>1. me' \in [Clients -> Local]
  BY FreshType, PublicationAssumption DEF Start, TypeOK
<1>2. pc' \in [Clients -> Steps] /\ alone' \in [Clients -> BOOLEAN]
  BY DEF Start, TypeOK, Goto, Steps
<1>3. ops' \in Nat
  BY DEF Start, TypeOK
<1>4. UNCHANGED <<zoneVars, faults, touched, announced>>
  BY DEF Start
<1>5. QED
  BY <1>1, <1>2, <1>3, <1>4 DEF TypeOK, zoneVars

(* The agent an operation is about, and what it has read.                  *)
LEMMA MyType ==
    ASSUME TypeOK, NEW c \in Clients
    PROVE  /\ me[c] \in Local
           /\ me[c].agent \in Agents
           /\ me[c].agent[1] \in Names /\ me[c].agent[2] \in Protocols
           /\ me[c].flags \subseteq Flags
           /\ me[c].seen \subseteq Entries /\ me[c].sure \subseteq Entries
           /\ me[c].maybe \subseteq Entries
BY DEF TypeOK, Local, Agents

(* Assigning a local keeps the client's locals typed.                      *)
LEMMA RaiseType ==
    ASSUME TypeOK, NEW c \in Clients, NEW flag \in Flags, NEW condition,
           Raise(c, flag, condition)
    PROVE  me' \in [Clients -> Local]
<1>. DEFINE raised == IF condition THEN me[c].flags \cup {flag}
                                   ELSE me[c].flags
<1>1. raised \in SUBSET Flags
  BY MyType
<1>2. me' = [me EXCEPT ![c].flags = raised]
  BY DEF Raise
<1>3. ASSUME NEW f \in SUBSET Flags
      PROVE  [me EXCEPT ![c].flags = f] \in [Clients -> Local]
  <2>1. [me[c] EXCEPT !.flags = f] \in Local
    BY MyType DEF Local
  <2>2. QED
    BY <2>1 DEF TypeOK
<1>4. QED
  BY <1>1, <1>2, <1>3

LEMMA SeenType ==
    ASSUME TypeOK, NEW c \in Clients, NEW S \in SUBSET Entries,
           me' = [me EXCEPT ![c].seen = S]
    PROVE  me' \in [Clients -> Local]
<1>1. [me[c] EXCEPT !.seen = S] \in Local
  BY MyType DEF Local
<1>2. QED
  BY <1>1 DEF TypeOK

LEMMA FoundType ==
    ASSUME TypeOK, NEW c \in Clients, NEW S \in SUBSET Entries,
           NEW T \in SUBSET Entries,
           me' = [me EXCEPT ![c].sure = S, ![c].maybe = T]
    PROVE  me' \in [Clients -> Local]
<1>1. [me[c] EXCEPT !.sure = S, !.maybe = T] \in Local
  BY MyType DEF Local
<1>2. QED
  BY <1>1 DEF TypeOK

LEMMA OutcomeType ==
    ASSUME TypeOK, NEW c \in Clients, NEW o \in {"none", "ok", "failed"},
           me' = [me EXCEPT ![c].outcome = o]
    PROVE  me' \in [Clients -> Local]
<1>1. [me[c] EXCEPT !.outcome = o] \in Local
  BY MyType DEF Local
<1>2. QED
  BY <1>1 DEF TypeOK

LEMMA EndedType ==
    ASSUME NEW l \in Local PROVE Ended(l) \in Local
BY DEF Local, Ended

LEMMA EndType ==
    ASSUME TypeOK, NEW c \in Clients, NEW o \in {"none", "ok", "failed"},
           End(c, o)
    PROVE  me' \in [Clients -> Local] /\ pc' \in [Clients -> Steps]
<1>1. me' \in [Clients -> Local]
  <2>1. PICK l \in Local : l = Ended(me[c])
    BY EndedType DEF TypeOK
  <2>2. me' = [me EXCEPT ![c] = [l EXCEPT !.outcome = o]]
    BY <2>1 DEF End
  <2>3. [l EXCEPT !.outcome = o] \in Local
    BY DEF Local
  <2>4. QED
    BY <2>2, <2>3 DEF TypeOK
<1>2. pc' \in [Clients -> Steps]
  BY DEF End, Goto, Steps, TypeOK
<1>3. QED
  BY <1>1, <1>2

(* A step that writes nothing needs to keep only the control state typed.  *)
LEMMA QuietType ==
    ASSUME TypeOK, NoWrite, UNCHANGED ops,
           pc' \in [Clients -> Steps], me' \in [Clients -> Local],
           faults' \in Nat, touched' \in [Clients -> SUBSET Names]
    PROVE  TypeOK'
BY DEF TypeOK, NoWrite, zoneVars

LEMMA ZoneExistsType ==
    ASSUME TypeOK, NEW c \in Clients, ZoneExists(c) PROVE TypeOK'
<1>. USE DEF TypeOK
<1>1. FirstCall(me[c].kind) \in Steps
  BY DEF FirstCall, Steps
<1>2. pc' \in [Clients -> Steps]
  BY <1>1 DEF ZoneExists, End, Goto, Steps
<1>3. me' \in [Clients -> Local]
  BY RaiseType, EndType DEF ZoneExists, Flags
<1>4. /\ faults' \in Nat /\ NoWrite /\ UNCHANGED ops
      /\ touched' \in [Clients -> SUBSET Names]
  BY DEF ZoneExists, Fault
<1>5. QED
  BY <1>2, <1>3, <1>4, QuietType

LEMMA PutNativeType ==
    ASSUME TypeOK, NEW c \in Clients, PutNative(c) PROVE TypeOK'
<1>. USE DEF TypeOK
<1>1. svcb' \in [Names -> Primary \cup {None}]
  BY MyType DEF PutNative, Primary
<1>2. pc' \in [Clients -> Steps]
  BY DEF PutNative, Goto, Steps
<1>3. me' \in [Clients -> Local]
  BY RaiseType DEF PutNative, Flags
<1>4. faults' \in Nat
  BY DEF PutNative, Created, Fault
<1>5. UNCHANGED <<txt, alias, legacy, index, ops>> /\ Wrote(c)
  BY DEF PutNative
<1>6. /\ alone' \in [Clients -> BOOLEAN] /\ announced' \subseteq Entries
      /\ touched' \in [Clients -> SUBSET Names]
  BY <1>1, <1>5, WroteType
<1>7. QED
  BY <1>1, <1>2, <1>3, <1>4, <1>5, <1>6

LEMMA PutSvcbType ==
    ASSUME TypeOK, NEW c \in Clients, PutSvcb(c) PROVE TypeOK'
<1>. USE DEF TypeOK
<1>1. svcb' \in [Names -> Primary \cup {None}]
  BY MyType DEF PutSvcb, Primary
<1>2. pc' \in [Clients -> Steps] /\ me' \in [Clients -> Local]
  BY EndType DEF PutSvcb, Goto, Steps
<1>3. faults' \in Nat
  BY DEF PutSvcb, Created, Fault
<1>4. UNCHANGED <<txt, alias, legacy, index, ops>> /\ Wrote(c)
  BY DEF PutSvcb
<1>5. /\ alone' \in [Clients -> BOOLEAN] /\ announced' \subseteq Entries
      /\ touched' \in [Clients -> SUBSET Names]
  BY <1>1, <1>4, WroteType
<1>6. QED
  BY <1>1, <1>2, <1>3, <1>4, <1>5

LEMMA PutTxtType ==
    ASSUME TypeOK, NEW c \in Clients, PutTxt(c) PROVE TypeOK'
<1>. USE DEF TypeOK
<1>1. txt' \in [Names -> Companion \cup {None}]
  BY MyType DEF PutTxt, Companion
<1>2. pc' \in [Clients -> Steps]
  BY DEF PutTxt, Published, End, Goto, Steps
<1>3. me' \in [Clients -> Local]
  BY EndType, OutcomeType DEF PutTxt, Published
<1>4. faults' \in Nat
  BY DEF PutTxt, Created, Fault
<1>5. UNCHANGED <<svcb, alias, legacy, index, ops>> /\ Wrote(c)
  BY DEF PutTxt
<1>6. /\ alone' \in [Clients -> BOOLEAN] /\ announced' \subseteq Entries
      /\ touched' \in [Clients -> SUBSET Names]
  BY <1>5, WroteType
<1>7. QED
  BY <1>1, <1>2, <1>3, <1>4, <1>5, <1>6

LEMMA PutAliasType ==
    ASSUME TypeOK, NEW c \in Clients, PutAlias(c) PROVE TypeOK'
<1>. USE DEF TypeOK
<1>1. alias' \subseteq Names
  BY MyType DEF PutAlias
<1>2. pc' \in [Clients -> Steps] /\ me' \in [Clients -> Local]
  BY OutcomeType DEF PutAlias, Published, Goto, Steps
<1>3. faults' \in Nat
  BY DEF PutAlias, Created, Fault
<1>4. UNCHANGED <<svcb, txt, legacy, index, ops>> /\ Wrote(c)
  BY DEF PutAlias
<1>5. /\ alone' \in [Clients -> BOOLEAN] /\ announced' \subseteq Entries
      /\ touched' \in [Clients -> SUBSET Names]
  BY <1>1, <1>4, WroteType
<1>6. QED
  BY <1>1, <1>2, <1>3, <1>4, <1>5

LEMMA ProbeType ==
    ASSUME TypeOK, NEW c \in Clients, ProbeSvcb(c) \/ ProbeTxt(c) PROVE TypeOK'
<1>. USE DEF TypeOK
<1>1. pc' \in [Clients -> Steps]
  BY DEF ProbeSvcb, ProbeTxt, Probe, End, Goto, Steps
<1>2. me' \in [Clients -> Local]
  <2>1. CASE ProbeSvcb(c)
    BY <2>1, RaiseType, EndType DEF ProbeSvcb, Probe, Flags
  <2>2. CASE ProbeTxt(c)
    BY <2>2, RaiseType, EndType DEF ProbeTxt, Probe, Flags
  <2>3. QED
    BY <2>1, <2>2
<1>3. /\ faults' \in Nat /\ NoWrite /\ UNCHANGED ops
      /\ touched' \in [Clients -> SUBSET Names]
  BY DEF ProbeSvcb, ProbeTxt, Probe, Reads, Fault
<1>4. QED
  BY <1>1, <1>2, <1>3, QuietType

LEMMA DeleteSvcbType ==
    ASSUME TypeOK, NEW c \in Clients, DeleteSvcb(c) PROVE TypeOK'
<1>. USE DEF TypeOK
<1>1. svcb' \in [Names -> Primary \cup {None}]
  BY MyType DEF DeleteSvcb
<1>2. pc' \in [Clients -> Steps]
  BY DEF DeleteSvcb, DeletedPrimary, End, Goto, Steps
<1>3. me' \in [Clients -> Local]
  BY RaiseType, EndType DEF DeleteSvcb, DeletedPrimary, Flags
<1>4. faults' \in Nat
  BY DEF DeleteSvcb, Deleted, Fault
<1>5. UNCHANGED <<txt, alias, legacy, index, ops>> /\ Wrote(c)
  BY DEF DeleteSvcb
<1>6. /\ alone' \in [Clients -> BOOLEAN] /\ announced' \subseteq Entries
      /\ touched' \in [Clients -> SUBSET Names]
  BY <1>1, <1>5, WroteType
<1>7. QED
  BY <1>1, <1>2, <1>3, <1>4, <1>5, <1>6

LEMMA DeleteTxtType ==
    ASSUME TypeOK, NEW c \in Clients, DeleteTxt(c) PROVE TypeOK'
<1>. USE DEF TypeOK
<1>1. txt' \in [Names -> Companion \cup {None}]
  BY MyType DEF DeleteTxt
<1>2. pc' \in [Clients -> Steps]
  BY DEF DeleteTxt, DeletedPrimary, End, Goto, Steps
<1>3. me' \in [Clients -> Local]
  BY RaiseType, EndType DEF DeleteTxt, DeletedPrimary, Flags
<1>4. faults' \in Nat
  BY DEF DeleteTxt, Deleted, Fault
<1>5. UNCHANGED <<svcb, alias, legacy, index, ops>> /\ Wrote(c)
  BY DEF DeleteTxt
<1>6. /\ alone' \in [Clients -> BOOLEAN] /\ announced' \subseteq Entries
      /\ touched' \in [Clients -> SUBSET Names]
  BY <1>5, WroteType
<1>7. QED
  BY <1>1, <1>2, <1>3, <1>4, <1>5, <1>6

LEMMA DeleteAliasType ==
    ASSUME TypeOK, NEW c \in Clients, DeleteAlias(c) PROVE TypeOK'
<1>. USE DEF TypeOK
<1>1. alias' \subseteq Names
  BY DEF DeleteAlias
<1>2. pc' \in [Clients -> Steps]
  BY DEF DeleteAlias, Goto, Steps
<1>3. me' \in [Clients -> Local]
  BY RaiseType DEF DeleteAlias, Flags
<1>4. faults' \in Nat
  BY DEF DeleteAlias, Deleted, Fault
<1>5. UNCHANGED <<svcb, txt, legacy, index, ops>> /\ Wrote(c)
  BY DEF DeleteAlias
<1>6. /\ alone' \in [Clients -> BOOLEAN] /\ announced' \subseteq Entries
      /\ touched' \in [Clients -> SUBSET Names]
  BY <1>1, <1>5, WroteType
<1>7. QED
  BY <1>1, <1>2, <1>3, <1>4, <1>5, <1>6

LEMMA DeleteLegacyType ==
    ASSUME TypeOK, NEW c \in Clients, NEW step, NEW type,
           DeleteLegacy(c, step, type)
    PROVE  TypeOK'
<1>. USE DEF TypeOK
<1>1. legacy' \subseteq Agents \X {"SVCB", "TXT"}
  BY DEF DeleteLegacy
<1>2. pc' \in [Clients -> Steps]
  BY EndType DEF DeleteLegacy, Decided, Goto, Steps
<1>3. me' \in [Clients -> Local]
  BY RaiseType, EndType, OutcomeType
     DEF DeleteLegacy, Decided, Flags
<1>4. faults' \in Nat
  BY DEF DeleteLegacy, Deleted, Fault
<1>5. UNCHANGED <<svcb, txt, alias, index, ops>> /\ Wrote(c)
  BY DEF DeleteLegacy
<1>6. /\ alone' \in [Clients -> BOOLEAN] /\ announced' \subseteq Entries
      /\ touched' \in [Clients -> SUBSET Names]
  BY <1>1, <1>5, WroteType
<1>7. QED
  BY <1>1, <1>2, <1>3, <1>4, <1>5, <1>6

LEMMA ReadIndexType ==
    ASSUME TypeOK, NEW c \in Clients, IndexRead(c) \/ SyncRead(c) PROVE TypeOK'
<1>. USE DEF TypeOK
<1>1. pc' \in [Clients -> Steps]
  BY DEF IndexRead, SyncRead, ReadIndex, Goto, Steps
<1>2. me' \in [Clients -> Local]
  <2>1. \E S \in SUBSET Entries : me' = [me EXCEPT ![c].seen = S]
    BY DEF IndexRead, SyncRead, ReadIndex
  <2>2. QED
    BY <2>1, SeenType
<1>3. /\ faults' \in Nat /\ NoWrite /\ UNCHANGED ops
      /\ touched' \in [Clients -> SUBSET Names]
  BY DEF IndexRead, SyncRead, ReadIndex, Reads, Fault
<1>4. QED
  BY <1>1, <1>2, <1>3, QuietType

LEMMA IndexWriteType ==
    ASSUME TypeOK, NEW c \in Clients, IndexWrite(c) PROVE TypeOK'
<1>. USE DEF TypeOK
<1>1. index' \subseteq Entries
  BY MyType DEF IndexWrite, Edited, Agents, Entries
<1>2. pc' \in [Clients -> Steps] /\ me' \in [Clients -> Local]
  <2>1. PICK l \in Local : l = Ended(me[c])
    BY EndedType
  <2>2. PICK F \in SUBSET Flags : me' = [me EXCEPT ![c] = [l EXCEPT !.flags = F]]
    <3>1. PICK ok \in BOOLEAN :
             me' = [me EXCEPT ![c] = [Ended(me[c]) EXCEPT !.flags =
                      me[c].flags \cup (IF ok THEN {"indexed"} ELSE {})]]
      BY DEF IndexWrite
    <3>2. me[c].flags \cup (IF ok THEN {"indexed"} ELSE {}) \in SUBSET Flags
      BY MyType DEF Flags
    <3>3. QED
      BY <2>1, <3>1, <3>2
  <2>3. [l EXCEPT !.flags = F] \in Local
    BY DEF Local
  <2>4. QED
    BY <2>2, <2>3 DEF IndexWrite, Goto, Steps
<1>3. faults' \in Nat
  BY DEF IndexWrite, Created, Fault
<1>4. UNCHANGED <<svcb, txt, alias, legacy, ops>> /\ Wrote(c)
  BY DEF IndexWrite
<1>5. /\ alone' \in [Clients -> BOOLEAN] /\ announced' \subseteq Entries
      /\ touched' \in [Clients -> SUBSET Names]
  BY <1>4, WroteType
<1>6. QED
  BY <1>1, <1>2, <1>3, <1>4, <1>5

LEMMA ScanType ==
    ASSUME TypeOK, NEW c \in Clients, ScanSvcb(c) \/ ScanTxt(c) PROVE TypeOK'
<1>. USE DEF TypeOK
<1>1. pc' \in [Clients -> Steps]
  BY DEF ScanSvcb, ScanTxt, End, Goto, Steps
<1>2. me' \in [Clients -> Local]
  <2>1. CASE ScanSvcb(c)
    <3>. DEFINE named == WalkableEntries(svcb, alias) \cup LegacyEntries(legacy)
                flat == FlatEntries(svcb, alias, legacy)
    <3>1. named \in SUBSET Entries /\ flat \in SUBSET Entries
      BY ShownType
    <3>2. \/ End(c, "failed")
          \/ me' = [me EXCEPT ![c].sure = named, ![c].maybe = flat]
      BY <2>1 DEF ScanSvcb
    <3>. HIDE DEF named, flat
    <3>3. QED
      BY <3>1, <3>2, FoundType, EndType
  <2>2. CASE ScanTxt(c)
    <3>. DEFINE found ==
                  me[c].sure \cup {e \in me[c].maybe : txt[e[1]] # None}
    <3>1. found \in SUBSET Entries /\ {} \in SUBSET Entries
      BY MyType
    <3>2. \/ End(c, "failed")
          \/ me' = [me EXCEPT ![c].sure = found, ![c].maybe = {}]
      BY <2>2 DEF ScanTxt
    <3>. HIDE DEF found
    <3>3. QED
      BY <3>1, <3>2, FoundType, EndType
  <2>3. QED
    BY <2>1, <2>2
<1>3. /\ faults' \in Nat /\ NoWrite /\ UNCHANGED ops
      /\ touched' \in [Clients -> SUBSET Names]
  BY DEF ScanSvcb, ScanTxt, Reads, Fault
<1>4. QED
  BY <1>1, <1>2, <1>3, QuietType

LEMMA SyncWriteType ==
    ASSUME TypeOK, NEW c \in Clients, SyncWrite(c) PROVE TypeOK'
<1>. USE DEF TypeOK
<1>1. index' \subseteq Entries
  BY MyType DEF SyncWrite
<1>2. pc' \in [Clients -> Steps] /\ me' \in [Clients -> Local]
  BY EndType DEF SyncWrite
<1>3. faults' \in Nat
  BY DEF SyncWrite, Created, Fault
<1>4. UNCHANGED <<svcb, txt, alias, legacy, ops, announced>>
  BY DEF SyncWrite
<1>5. alone' \in [Clients -> BOOLEAN] /\ touched' \in [Clients -> SUBSET Names]
  BY DEF SyncWrite
<1>6. QED
  BY <1>1, <1>2, <1>3, <1>4, <1>5

LEMMA StopType ==
    ASSUME TypeOK, NEW c \in Clients, Stop(c) PROVE TypeOK'
<1>. USE DEF TypeOK
<1>1. pc' \in [Clients -> Steps] /\ me' \in [Clients -> Local]
  BY EndType DEF Stop
<1>2. /\ faults' \in Nat /\ NoWrite /\ UNCHANGED ops
      /\ touched' \in [Clients -> SUBSET Names]
  BY DEF Stop, Fault
<1>3. QED
  BY <1>1, <1>2, QuietType

LEMMA NextType == TypeOK /\ [Next]_vars => TypeOK'
<1>1. ASSUME TypeOK, UNCHANGED vars PROVE TypeOK'
  BY <1>1 DEF TypeOK, vars, zoneVars
<1>2. ASSUME TypeOK, NEW c \in Clients, PublishStep(c) PROVE TypeOK'
  BY <1>2, PutNativeType, PutSvcbType, PutTxtType, PutAliasType DEF PublishStep
<1>3. ASSUME TypeOK, NEW c \in Clients, UnpublishStep(c) PROVE TypeOK'
  BY <1>3, ProbeType, DeleteSvcbType, DeleteTxtType, DeleteAliasType,
     DeleteLegacyType
     DEF UnpublishStep, DeleteLegacySvcb, DeleteLegacyTxt
<1>4. ASSUME TypeOK, NEW c \in Clients, IndexStep(c) PROVE TypeOK'
  BY <1>4, ReadIndexType, IndexWriteType, ScanType, SyncWriteType DEF IndexStep
<1>5. QED
  BY <1>1, <1>2, <1>3, <1>4, StartType, ZoneExistsType, StopType DEF Next, Step

(* The state of publication is well typed in every behaviour.              *)
THEOREM PublicationTypes == Spec => []TypeOK
BY InitType, NextType, PTL DEF Spec
-----------------------------------------------------------------------------
(* The index never names an agent that was not announced.                  *)

(* A step of client c that keeps every client's job and lists nothing more.*)
Same(c) ==
    /\ \A d \in Clients :
         /\ me'[d].kind = me[d].kind /\ me'[d].agent = me[d].agent
         /\ me'[d].seen \subseteq me[d].seen /\ me'[d].sure \subseteq me[d].sure
         /\ me'[d].maybe \subseteq me[d].maybe
    /\ \A d \in Clients \ {c} : pc'[d] = pc[d]

(* What client c owes at its new step.                                     *)
Owes(c) ==
    /\ pc'[c] \in UnpublishCalls => me[c].kind = "unpublish"
    /\ \/ pc'[c] \in {"txt", "alias"}
       \/ pc'[c] \in {"idxRead", "idxWrite"} /\ me[c].kind = "publish"
       => me[c].agent \in announced'

LEMMA InitLineage == Init => Lineage
<1>. SUFFICES ASSUME Init PROVE Lineage
  OBVIOUS
<1>1. TypeOK
  BY InitType
<1>2. Shown(svcb, alias, legacy) \subseteq announced
  BY DEF Init, Shown, WalkableEntries, LegacyEntries, PrimaryEntries, Owners,
         Agents
<1>3. IndexWasAnnounced
  BY DEF Init, IndexWasAnnounced
<1>4. QED
  BY <1>1, <1>2, <1>3 DEF Init, Lineage, Fresh, UnpublishCalls

LEMMA RaiseSame ==
    ASSUME TypeOK, NEW c \in Clients, NEW flag \in Flags, NEW condition,
           Raise(c, flag, condition), NEW step, Goto(c, step)
    PROVE  Same(c)
BY DEF Raise, Goto, Same, TypeOK, Local

LEMMA OutcomeSame ==
    ASSUME TypeOK, NEW c \in Clients, NEW o, me' = [me EXCEPT ![c].outcome = o],
           NEW step, Goto(c, step)
    PROVE  Same(c)
BY DEF Goto, Same, TypeOK, Local

LEMMA StutterSame ==
    ASSUME TypeOK, NEW c \in Clients, UNCHANGED me, NEW step, Goto(c, step)
    PROVE  Same(c)
BY DEF Goto, Same, TypeOK

LEMMA EndSame ==
    ASSUME TypeOK, NEW c \in Clients, NEW o, End(c, o)
    PROVE  Same(c) /\ pc'[c] = "idle"
<1>1. Same(c)
  BY DEF End, Ended, Goto, Same, TypeOK, Local
<1>2. pc'[c] = "idle"
  BY DEF End, Goto, TypeOK
<1>3. QED
  BY <1>1, <1>2

(* A write of c, other than of the index, keeps the lineage.               *)
LEMMA WroteLineage ==
    ASSUME Lineage, TypeOK', NEW c \in Clients, Same(c), Owes(c), Wrote(c),
           index' \subseteq announced'
    PROVE  Lineage'
<1>1. announced \subseteq announced'
      /\ Shown(svcb', alias', legacy') \subseteq announced'
  BY DEF Wrote
<1>2. ASSUME NEW d \in Clients
      PROVE  /\ me'[d].seen \cup me'[d].sure \cup me'[d].maybe \subseteq announced'
             /\ pc'[d] \in UnpublishCalls => me'[d].kind = "unpublish"
             /\ \/ pc'[d] \in {"txt", "alias"}
                \/ pc'[d] \in {"idxRead", "idxWrite"} /\ me'[d].kind = "publish"
                => me'[d].agent \in announced'
  <2>1. me'[d].seen \cup me'[d].sure \cup me'[d].maybe \subseteq announced'
    BY <1>1 DEF Lineage, Same
  <2>2. CASE d = c
    BY <2>1, <2>2 DEF Same, Owes
  <2>3. CASE d # c
    BY <1>1, <2>1, <2>3 DEF Same, Lineage
  <2>4. QED
    BY <2>2, <2>3
<1>3. QED
  BY <1>1, <1>2 DEF Lineage, IndexWasAnnounced

(* A step that writes nothing in the zone and keeps the listings, too.     *)
LEMMA QuietLineage ==
    ASSUME Lineage, TypeOK', NEW c \in Clients, Same(c), Owes(c), NoWrite
    PROVE  Lineage'
<1>1. announced' = announced /\ index' = index
      /\ Shown(svcb', alias', legacy') = Shown(svcb, alias, legacy)
  BY DEF NoWrite, zoneVars
<1>2. ASSUME NEW d \in Clients
      PROVE  /\ me'[d].seen \cup me'[d].sure \cup me'[d].maybe \subseteq announced'
             /\ pc'[d] \in UnpublishCalls => me'[d].kind = "unpublish"
             /\ \/ pc'[d] \in {"txt", "alias"}
                \/ pc'[d] \in {"idxRead", "idxWrite"} /\ me'[d].kind = "publish"
                => me'[d].agent \in announced'
  <2>1. me'[d].seen \cup me'[d].sure \cup me'[d].maybe \subseteq announced'
    BY <1>1 DEF Lineage, Same
  <2>2. CASE d = c
    BY <2>1, <2>2 DEF Same, Owes
  <2>3. CASE d # c
    BY <1>1, <2>1, <2>3 DEF Same, Lineage
  <2>4. QED
    BY <2>2, <2>3
<1>3. QED
  BY <1>1, <1>2 DEF Lineage, IndexWasAnnounced

LEMMA StartLineage ==
    ASSUME Lineage, NEW c \in Clients, Start(c) PROVE Lineage'
<1>1. TypeOK'
  BY StartType DEF Lineage
<1>2. UNCHANGED <<svcb, alias, legacy, index, announced>>
  BY DEF Start, zoneVars
<1>3. pc' = [pc EXCEPT ![c] = "zone"]
  BY DEF Start, Goto
<1>4. \E kind \in Kinds, agent \in Agents, walk \in BOOLEAN :
         me' = [me EXCEPT ![c] = Fresh(kind, agent, walk)]
  BY DEF Start
<1>5. \A d \in Clients : d # c => me'[d] = me[d] /\ pc'[d] = pc[d]
  BY <1>3, <1>4 DEF Lineage, TypeOK
<1>6. pc'[c] = "zone" /\ me'[c].seen = {} /\ me'[c].sure = {} /\ me'[c].maybe = {}
  BY <1>3, <1>4 DEF Lineage, TypeOK, Fresh
<1>7. QED
  BY <1>1, <1>2, <1>5, <1>6 DEF Lineage, IndexWasAnnounced, UnpublishCalls

LEMMA ZoneExistsLineage ==
    ASSUME Lineage, NEW c \in Clients, ZoneExists(c) PROVE Lineage'
<1>. USE DEF Lineage
<1>1. TypeOK' /\ NoWrite
  BY ZoneExistsType DEF ZoneExists
<1>2. Same(c) /\ Owes(c)
  <2>1. CASE Goto(c, FirstCall(me[c].kind)) /\ Raise(c, "demote", NativeKeys = "no")
    <3>1. Same(c)
      BY <2>1, RaiseSame DEF Flags
    <3>2. pc'[c] = FirstCall(me[c].kind)
      BY <2>1 DEF Goto, TypeOK
    <3>3. QED
      BY <3>1, <3>2 DEF Owes, FirstCall, UnpublishCalls
  <2>2. CASE End(c, "failed")
    BY <2>2, EndSame DEF Owes, UnpublishCalls
  <2>3. QED
    BY <2>1, <2>2 DEF ZoneExists
<1>3. QED
  BY <1>1, <1>2, QuietLineage

(* Once the primary SVCB is written, its agent has been announced.         *)
LEMMA SvcbAnnounces ==
    ASSUME TypeOK, NEW c \in Clients, Wrote(c), NEW full \in BOOLEAN,
           svcb' = [svcb EXCEPT ![me[c].agent[1]] =
                       [proto |-> me[c].agent[2], full |-> full]]
    PROVE  me[c].agent \in announced'
<1>. DEFINE n == me[c].agent[1]
<1>1. n \in Names /\ me[c].agent = <<n, me[c].agent[2]>>
  BY MyType DEF Agents
<1>2. svcb'[n] = [proto |-> me[c].agent[2], full |-> full]
  BY <1>1 DEF TypeOK
<1>3. n \in Owners(svcb') /\ ProtocolOf(svcb', n) = me[c].agent[2]
  <2>1. svcb'[n] # None
    BY <1>2, NoneIsNoRecord, MyType DEF Primary
  <2>2. QED
    BY <1>1, <1>2, <2>1 DEF Owners, ProtocolOf
<1>4. me[c].agent \in PrimaryEntries(svcb')
  BY <1>1, <1>3 DEF PrimaryEntries
<1>5. QED
  BY <1>4 DEF Wrote, Shown

LEMMA PutNativeLineage ==
    ASSUME Lineage, NEW c \in Clients, PutNative(c) PROVE Lineage'
<1>. USE DEF Lineage
<1>1. TypeOK' /\ Wrote(c) /\ index' = index
  BY PutNativeType DEF PutNative
<1>2. PICK ok \in BOOLEAN, applied \in BOOLEAN :
         /\ ok => applied
         /\ svcb' = IF applied
                    THEN [svcb EXCEPT ![me[c].agent[1]] =
                             [proto |-> me[c].agent[2], full |-> TRUE]]
                    ELSE svcb
         /\ Goto(c, IF ok THEN "txt" ELSE "svcb")
         /\ Raise(c, "demote", ~ok)
  BY DEF PutNative, Created
<1>3. Same(c)
  BY <1>2, RaiseSame DEF Flags
<1>4. pc'[c] = IF ok THEN "txt" ELSE "svcb"
  BY <1>2 DEF Goto, TypeOK
<1>5. ok => me[c].agent \in announced'
  BY <1>1, <1>2, SvcbAnnounces
<1>6. Owes(c)
  BY <1>4, <1>5 DEF Owes, UnpublishCalls
<1>7. index' \subseteq announced'
  BY <1>1 DEF Wrote, IndexWasAnnounced
<1>8. QED
  BY <1>1, <1>3, <1>6, <1>7, WroteLineage

LEMMA PutSvcbLineage ==
    ASSUME Lineage, NEW c \in Clients, PutSvcb(c) PROVE Lineage'
<1>. USE DEF Lineage
<1>. DEFINE native == NativeKeys = "yes"
<1>1. TypeOK' /\ Wrote(c) /\ index' = index
  BY PutSvcbType DEF PutSvcb
<1>2. PICK ok \in BOOLEAN, applied \in BOOLEAN :
         /\ ok => applied
         /\ svcb' = IF applied
                    THEN [svcb EXCEPT ![me[c].agent[1]] =
                             [proto |-> me[c].agent[2], full |-> native]]
                    ELSE svcb
         /\ IF ok THEN Goto(c, "txt") /\ UNCHANGED me ELSE End(c, "failed")
  BY DEF PutSvcb, Created
<1>3. ok => me[c].agent \in announced'
  BY <1>1, <1>2, SvcbAnnounces
<1>4. Same(c) /\ Owes(c)
  <2>1. CASE ok
    <3>1. Same(c)
      BY <1>2, <2>1, StutterSame
    <3>2. pc'[c] = "txt"
      BY <1>2, <2>1 DEF Goto, TypeOK
    <3>3. QED
      BY <1>3, <2>1, <3>1, <3>2 DEF Owes, UnpublishCalls
  <2>2. CASE ~ok
    BY <1>2, <2>2, EndSame DEF Owes, UnpublishCalls
  <2>3. QED
    BY <2>1, <2>2
<1>5. index' \subseteq announced'
  BY <1>1 DEF Wrote, IndexWasAnnounced
<1>6. QED
  BY <1>1, <1>4, <1>5, WroteLineage

LEMMA PublishedSame ==
    ASSUME TypeOK, NEW c \in Clients, Published(c)
    PROVE  Same(c) /\ pc'[c] = "idxRead"
<1>1. Same(c)
  BY OutcomeSame DEF Published
<1>2. pc'[c] = "idxRead"
  BY DEF Published, Goto, TypeOK
<1>3. QED
  BY <1>1, <1>2

LEMMA PutTxtLineage ==
    ASSUME Lineage, NEW c \in Clients, PutTxt(c) PROVE Lineage'
<1>. USE DEF Lineage
<1>1. TypeOK' /\ Wrote(c) /\ index' = index /\ pc[c] = "txt"
  BY PutTxtType DEF PutTxt
<1>2. me[c].agent \in announced'
  BY <1>1 DEF Wrote
<1>3. Same(c) /\ Owes(c)
  <2>1. CASE End(c, "failed")
    BY <2>1, EndSame DEF Owes, UnpublishCalls
  <2>2. CASE Goto(c, "alias") /\ UNCHANGED me
    <3>1. Same(c)
      BY <2>2, StutterSame
    <3>2. pc'[c] = "alias"
      BY <2>2 DEF Goto, TypeOK
    <3>3. QED
      BY <1>2, <3>1, <3>2 DEF Owes, UnpublishCalls
  <2>3. CASE Published(c)
    BY <1>2, <2>3, PublishedSame DEF Owes, UnpublishCalls
  <2>4. QED
    BY <2>1, <2>2, <2>3 DEF PutTxt
<1>4. index' \subseteq announced'
  BY <1>1 DEF Wrote, IndexWasAnnounced
<1>5. QED
  BY <1>1, <1>3, <1>4, WroteLineage

LEMMA PutAliasLineage ==
    ASSUME Lineage, NEW c \in Clients, PutAlias(c) PROVE Lineage'
<1>. USE DEF Lineage
<1>1. TypeOK' /\ Wrote(c) /\ index' = index /\ pc[c] = "alias"
  BY PutAliasType DEF PutAlias
<1>2. me[c].agent \in announced' /\ index' \subseteq announced'
  BY <1>1 DEF Wrote, IndexWasAnnounced
<1>3. Same(c) /\ Owes(c)
  BY <1>2, PublishedSame DEF PutAlias, Owes, UnpublishCalls
<1>4. QED
  BY <1>1, <1>2, <1>3, WroteLineage

LEMMA ProbeLineage ==
    ASSUME Lineage, NEW c \in Clients, NEW step \in UnpublishCalls,
           NEW next \in UnpublishCalls, NEW found, Probe(c, step, found, next),
           TypeOK'
    PROVE  Lineage'
<1>. USE DEF Lineage
<1>1. NoWrite /\ pc[c] = step
  BY DEF Probe
<1>2. Same(c) /\ Owes(c)
  <2>1. CASE Goto(c, next) /\ Raise(c, "existed", found)
    <3>1. Same(c)
      BY <2>1, RaiseSame DEF Flags
    <3>2. pc'[c] = next
      BY <2>1 DEF Goto, TypeOK
    <3>3. QED
      BY <1>1, <3>1, <3>2 DEF Owes, UnpublishCalls
  <2>2. CASE End(c, "failed")
    BY <2>2, EndSame DEF Owes, UnpublishCalls
  <2>3. QED
    BY <2>1, <2>2 DEF Probe
<1>3. QED
  BY <1>1, <1>2, QuietLineage

(* The flow of control after a delete of the primary owner.                *)
LEMMA DeletedPrimaryOwes ==
    ASSUME Lineage, NEW c \in Clients, pc[c] \in UnpublishCalls, NEW said,
           NEW next \in UnpublishCalls, DeletedPrimary(c, said, next)
    PROVE  Same(c) /\ Owes(c)
<1>. USE DEF Lineage
<1>1. CASE End(c, "failed")
  BY <1>1, EndSame DEF Owes, UnpublishCalls
<1>2. CASE Goto(c, next) /\ Raise(c, "deleted", said = "yes")
  <2>1. Same(c)
    BY <1>2, RaiseSame DEF Flags
  <2>2. pc'[c] = next
    BY <1>2 DEF Goto, TypeOK
  <2>3. QED
    BY <2>1, <2>2 DEF Owes, UnpublishCalls
<1>3. QED
  BY <1>1, <1>2 DEF DeletedPrimary

LEMMA DeletePrimaryLineage ==
    ASSUME Lineage, NEW c \in Clients, DeleteSvcb(c) \/ DeleteTxt(c)
    PROVE  Lineage'
<1>. USE DEF Lineage
<1>1. TypeOK' /\ Wrote(c) /\ index' = index
  BY DeleteSvcbType, DeleteTxtType DEF DeleteSvcb, DeleteTxt
<1>2. index' \subseteq announced'
  BY <1>1 DEF Wrote, IndexWasAnnounced
<1>3. Same(c) /\ Owes(c)
  BY DeletedPrimaryOwes DEF DeleteSvcb, DeleteTxt, UnpublishCalls
<1>4. QED
  BY <1>1, <1>2, <1>3, WroteLineage

LEMMA DeleteAliasLineage ==
    ASSUME Lineage, NEW c \in Clients, DeleteAlias(c) PROVE Lineage'
<1>. USE DEF Lineage
<1>1. TypeOK' /\ Wrote(c) /\ index' = index /\ pc[c] = "delAlias"
      /\ Goto(c, "delLegacySvcb")
  BY DeleteAliasType DEF DeleteAlias
<1>2. \E said \in Answers : Raise(c, "cleaned", said = "yes")
  BY DEF DeleteAlias
<1>3. Same(c)
  BY <1>1, <1>2, RaiseSame DEF Flags
<1>4. pc'[c] = "delLegacySvcb"
  BY <1>1 DEF Goto, TypeOK
<1>5. Owes(c)
  BY <1>1, <1>4 DEF Owes, UnpublishCalls
<1>6. index' \subseteq announced'
  BY <1>1 DEF Wrote, IndexWasAnnounced
<1>7. QED
  BY <1>1, <1>3, <1>5, <1>6, WroteLineage

LEMMA DecidedOwes ==
    ASSUME Lineage, NEW c \in Clients, pc[c] \in UnpublishCalls, NEW flags,
           Decided(c, flags)
    PROVE  Same(c) /\ Owes(c)
<1>. USE DEF Lineage
<1>1. CASE End(c, "failed")
  BY <1>1, EndSame DEF Owes, UnpublishCalls
<1>2. CASE Goto(c, "idxRead") /\ me' = [me EXCEPT ![c].outcome = "ok"]
  <2>1. Same(c)
    BY <1>2, OutcomeSame
  <2>2. pc'[c] = "idxRead"
    BY <1>2 DEF Goto, TypeOK
  <2>3. QED
    BY <2>1, <2>2 DEF Owes, UnpublishCalls
<1>3. QED
  BY <1>1, <1>2 DEF Decided

LEMMA DeleteLegacyLineage ==
    ASSUME Lineage, NEW c \in Clients, NEW step \in UnpublishCalls, NEW type,
           DeleteLegacy(c, step, type)
    PROVE  Lineage'
<1>. USE DEF Lineage
<1>1. TypeOK' /\ Wrote(c) /\ index' = index /\ pc[c] = step
  BY DeleteLegacyType DEF DeleteLegacy
<1>2. index' \subseteq announced'
  BY <1>1 DEF Wrote, IndexWasAnnounced
<1>3. PICK said \in Answers :
         \/ Goto(c, "delLegacyTxt") /\ Raise(c, "cleaned", said = "yes")
         \/ \E flags : Decided(c, flags)
  BY DEF DeleteLegacy
<1>4. Same(c) /\ Owes(c)
  <2>1. CASE Goto(c, "delLegacyTxt") /\ Raise(c, "cleaned", said = "yes")
    <3>1. Same(c)
      BY <2>1, RaiseSame DEF Flags
    <3>2. pc'[c] = "delLegacyTxt"
      BY <2>1 DEF Goto, TypeOK
    <3>3. QED
      BY <1>1, <3>1, <3>2 DEF Owes, UnpublishCalls
  <2>2. CASE \E flags : Decided(c, flags)
    BY <1>1, <2>2, DecidedOwes
  <2>3. QED
    BY <1>3, <2>1, <2>2
<1>5. QED
  BY <1>1, <1>2, <1>4, WroteLineage
(* A step of c that only reads: what c holds now was announced.            *)
LEMMA ReadLineage ==
    ASSUME Lineage, TypeOK', NEW c \in Clients, NoWrite,
           \A d \in Clients \ {c} : me'[d] = me[d] /\ pc'[d] = pc[d],
           me'[c].kind = me[c].kind, me'[c].agent = me[c].agent,
           me'[c].seen \cup me'[c].sure \cup me'[c].maybe \subseteq announced,
           Owes(c)
    PROVE  Lineage'
<1>1. announced' = announced /\ index' = index
      /\ Shown(svcb', alias', legacy') = Shown(svcb, alias, legacy)
  BY DEF NoWrite, zoneVars
<1>2. ASSUME NEW d \in Clients
      PROVE  /\ me'[d].seen \cup me'[d].sure \cup me'[d].maybe \subseteq announced'
             /\ pc'[d] \in UnpublishCalls => me'[d].kind = "unpublish"
             /\ \/ pc'[d] \in {"txt", "alias"}
                \/ pc'[d] \in {"idxRead", "idxWrite"} /\ me'[d].kind = "publish"
                => me'[d].agent \in announced'
  <2>1. CASE d = c
    BY <1>1, <2>1 DEF Owes
  <2>2. CASE d # c
    BY <1>1, <2>2 DEF Lineage
  <2>3. QED
    BY <2>1, <2>2
<1>3. QED
  BY <1>1, <1>2 DEF Lineage, IndexWasAnnounced

LEMMA ReadIndexLineage ==
    ASSUME Lineage, NEW c \in Clients, IndexRead(c) \/ SyncRead(c)
    PROVE  Lineage'
<1>. USE DEF Lineage
<1>1. TypeOK' /\ NoWrite
  BY ReadIndexType DEF IndexRead, SyncRead, ReadIndex
<1>2. \/ pc[c] = "idxRead" /\ Goto(c, "idxWrite")
      \/ pc[c] = "syncRead" /\ Goto(c, "syncWrite")
  BY DEF IndexRead, SyncRead, ReadIndex
<1>3. PICK S \in {index, {}} : me' = [me EXCEPT ![c].seen = S]
  BY DEF IndexRead, SyncRead, ReadIndex
<1>4. \A d \in Clients \ {c} : me'[d] = me[d] /\ pc'[d] = pc[d]
  BY <1>2, <1>3 DEF Goto, TypeOK
<1>5. /\ me'[c].kind = me[c].kind /\ me'[c].agent = me[c].agent
      /\ me'[c].seen = S /\ me'[c].sure = me[c].sure
      /\ me'[c].maybe = me[c].maybe
  BY <1>3 DEF TypeOK, Local
<1>6. me'[c].seen \cup me'[c].sure \cup me'[c].maybe \subseteq announced
  BY <1>3, <1>5 DEF IndexWasAnnounced
<1>7. Owes(c)
  <2>1. CASE pc[c] = "idxRead" /\ pc'[c] = "idxWrite"
    BY <1>1, <2>1 DEF Owes, UnpublishCalls, NoWrite
  <2>2. CASE pc'[c] = "syncWrite"
    BY <2>2 DEF Owes, UnpublishCalls
  <2>3. QED
    BY <1>2, <2>1, <2>2 DEF Goto, TypeOK
<1>8. QED
  BY <1>1, <1>4, <1>5, <1>6, <1>7, ReadLineage

LEMMA ScanLineage ==
    ASSUME Lineage, NEW c \in Clients, ScanSvcb(c) \/ ScanTxt(c)
    PROVE  Lineage'
<1>. USE DEF Lineage
<1>1. TypeOK' /\ NoWrite
  BY ScanType DEF ScanSvcb, ScanTxt
<1>2. CASE End(c, "failed")
  BY <1>1, <1>2, EndSame, QuietLineage DEF Owes, UnpublishCalls
<1>3. ASSUME NEW S \in SUBSET announced, NEW T \in SUBSET announced,
             me' = [me EXCEPT ![c].sure = S, ![c].maybe = T],
             NEW next \in {"scanTxt", "syncRead"}, Goto(c, next)
      PROVE  Lineage'
  <2>1. \A d \in Clients \ {c} : me'[d] = me[d] /\ pc'[d] = pc[d]
    BY <1>3 DEF Goto, TypeOK
  <2>2. /\ me'[c].kind = me[c].kind /\ me'[c].agent = me[c].agent
        /\ me'[c].seen = me[c].seen /\ me'[c].sure = S /\ me'[c].maybe = T
    BY <1>3 DEF TypeOK, Local
  <2>3. pc'[c] = next
    BY <1>3 DEF Goto, TypeOK
  <2>4. QED
    BY <1>1, <2>1, <2>2, <2>3, ReadLineage DEF Owes, UnpublishCalls
<1>4. CASE ScanSvcb(c) /\ ~ End(c, "failed")
  <2>. DEFINE named == WalkableEntries(svcb, alias) \cup LegacyEntries(legacy)
              flat == FlatEntries(svcb, alias, legacy)
  <2>1. named \in SUBSET announced /\ flat \in SUBSET announced
    BY DEF Shown, FlatEntries
  <2>2. Goto(c, "scanTxt") /\ me' = [me EXCEPT ![c].sure = named,
                                               ![c].maybe = flat]
    BY <1>4 DEF ScanSvcb
  <2>. HIDE DEF named, flat
  <2>3. QED
    BY <1>3, <2>1, <2>2
<1>5. CASE ScanTxt(c) /\ ~ End(c, "failed")
  <2>. DEFINE found == me[c].sure \cup {e \in me[c].maybe : txt[e[1]] # None}
  <2>1. found \in SUBSET announced /\ {} \in SUBSET announced
    OBVIOUS
  <2>2. Goto(c, "syncRead") /\ me' = [me EXCEPT ![c].sure = found,
                                                ![c].maybe = {}]
    BY <1>5 DEF ScanTxt
  <2>. HIDE DEF found
  <2>3. QED
    BY <1>3, <2>1, <2>2
<1>6. QED
  BY <1>2, <1>4, <1>5

LEMMA IndexWriteLineage ==
    ASSUME Lineage, NEW c \in Clients, IndexWrite(c) PROVE Lineage'
<1>. USE DEF Lineage
<1>1. TypeOK' /\ Wrote(c) /\ pc[c] = "idxWrite" /\ Goto(c, "idle")
  BY IndexWriteType DEF IndexWrite
<1>2. Same(c) /\ pc'[c] = "idle"
  BY DEF IndexWrite, Ended, Goto, Same, TypeOK, Local
<1>3. Edited(me[c]) \subseteq announced
  BY <1>1 DEF Edited
<1>4. index' \subseteq announced'
  BY <1>1, <1>3 DEF IndexWrite, Wrote, IndexWasAnnounced
<1>5. QED
  BY <1>1, <1>2, <1>4, WroteLineage DEF Owes, UnpublishCalls

LEMMA SyncWriteLineage ==
    ASSUME Lineage, NEW c \in Clients, SyncWrite(c) PROVE Lineage'
<1>. USE DEF Lineage
<1>1. TypeOK' /\ UNCHANGED <<svcb, alias, legacy, announced>>
  BY SyncWriteType DEF SyncWrite
<1>2. \E o : End(c, o)
  BY DEF SyncWrite
<1>3. Same(c) /\ pc'[c] = "idle"
  BY <1>2, EndSame
<1>4. index' \subseteq announced
  BY DEF SyncWrite, IndexWasAnnounced
<1>5. \A d \in Clients :
         /\ pc'[d] = pc[d] \/ pc'[d] = "idle"
         /\ me'[d].kind = me[d].kind /\ me'[d].agent = me[d].agent
         /\ me'[d].seen \cup me'[d].sure \cup me'[d].maybe \subseteq announced
  BY <1>3 DEF Same
<1>6. QED
  BY <1>1, <1>4, <1>5 DEF IndexWasAnnounced, UnpublishCalls

LEMMA StopLineage ==
    ASSUME Lineage, NEW c \in Clients, Stop(c) PROVE Lineage'
<1>1. TypeOK' /\ NoWrite /\ TypeOK
  BY StopType DEF Stop, Lineage
<1>2. Same(c) /\ pc'[c] = "idle"
  BY <1>1, EndSame DEF Stop
<1>3. QED
  BY <1>1, <1>2, QuietLineage DEF Owes, UnpublishCalls

LEMMA NextLineage == Lineage /\ [Next]_vars => Lineage'
<1>1. ASSUME Lineage, UNCHANGED vars PROVE Lineage'
  <2>1. TypeOK'
    BY <1>1, NextType DEF Lineage
  <2>2. QED
    BY <1>1, <2>1 DEF Lineage, IndexWasAnnounced, vars, zoneVars
<1>2. ASSUME Lineage, NEW c \in Clients, PublishStep(c) PROVE Lineage'
  BY <1>2, PutNativeLineage, PutSvcbLineage, PutTxtLineage, PutAliasLineage
     DEF PublishStep
<1>3. ASSUME Lineage, NEW c \in Clients, UnpublishStep(c) PROVE Lineage'
  <2>1. CASE ProbeSvcb(c) \/ ProbeTxt(c)
    <3>1. TypeOK'
      BY <1>3, <2>1, ProbeType DEF Lineage
    <3>2. QED
      BY <1>3, <2>1, <3>1, ProbeLineage DEF ProbeSvcb, ProbeTxt, UnpublishCalls
  <2>2. CASE DeleteSvcb(c) \/ DeleteTxt(c) \/ DeleteAlias(c)
    BY <1>3, <2>2, DeletePrimaryLineage, DeleteAliasLineage
  <2>3. CASE DeleteLegacySvcb(c) \/ DeleteLegacyTxt(c)
    BY <1>3, <2>3, DeleteLegacyLineage
       DEF DeleteLegacySvcb, DeleteLegacyTxt, UnpublishCalls
  <2>4. QED
    BY <1>3, <2>1, <2>2, <2>3 DEF UnpublishStep
<1>4. ASSUME Lineage, NEW c \in Clients, IndexStep(c) PROVE Lineage'
  BY <1>4, ReadIndexLineage, ScanLineage, IndexWriteLineage, SyncWriteLineage
     DEF IndexStep
<1>5. QED
  BY <1>1, <1>2, <1>3, <1>4, StartLineage, ZoneExistsLineage, StopLineage
     DEF Next, Step

(* Whatever the interleaving of operators, lost updates, failed reads and  *)
(* crashes, the index names only agents some record of the zone stood for. *)
THEOREM IndexIsNeverInvented == Spec => []IndexWasAnnounced
<1>1. Lineage => IndexWasAnnounced
  BY DEF Lineage
<1>2. QED
  BY <1>1, InitLineage, NextLineage, PTL DEF Spec

(* What was announced stays announced.                                     *)
LEMMA AnnouncedGrows ==
    ASSUME [Next]_vars PROVE announced \subseteq announced'
<1>1. ASSUME NEW c \in Clients, Wrote(c) \/ NoWrite
      PROVE  announced \subseteq announced'
  BY <1>1 DEF Wrote, NoWrite
<1>2. ASSUME NEW c \in Clients, Step(c) PROVE announced \subseteq announced'
  <2>1. CASE ZoneExists(c) \/ PublishStep(c)
    BY <1>1, <2>1
       DEF ZoneExists, PublishStep, PutNative, PutSvcb, PutTxt, PutAlias
  <2>2. CASE UnpublishStep(c)
    BY <1>1, <2>2
       DEF UnpublishStep, ProbeSvcb, ProbeTxt, Probe, DeleteSvcb, DeleteTxt,
           DeleteAlias, DeleteLegacySvcb, DeleteLegacyTxt, DeleteLegacy
  <2>3. CASE IndexStep(c) /\ ~ SyncWrite(c)
    BY <1>1, <2>3
       DEF IndexStep, IndexRead, SyncRead, ReadIndex, IndexWrite, ScanSvcb,
           ScanTxt
  <2>4. CASE SyncWrite(c)
    BY <2>4 DEF SyncWrite
  <2>5. QED
    BY <1>2, <2>1, <2>2, <2>3, <2>4 DEF Step
<1>3. ASSUME NEW c \in Clients, Start(c) \/ Stop(c)
      PROVE  announced \subseteq announced'
  BY <1>1, <1>3 DEF Start, Stop
<1>4. QED
  BY <1>2, <1>3 DEF Next, vars

(* The steps that change the index announce nothing new.                   *)
LEMMA RelistOnly ==
    ASSUME Lineage, [Next]_vars, index' # index PROVE announced' = announced
<1>1. PICK c \in Clients : IndexWrite(c) \/ SyncWrite(c)
  <2>1. PICK c \in Clients : Start(c) \/ Step(c) \/ Stop(c)
    BY DEF Next, vars, zoneVars
  <2>2. CASE Start(c) \/ Stop(c) \/ ZoneExists(c)
    BY <2>2 DEF Start, Stop, ZoneExists, NoWrite, zoneVars
  <2>3. CASE PublishStep(c)
    BY <2>3 DEF PublishStep, PutNative, PutSvcb, PutTxt, PutAlias
  <2>4. CASE UnpublishStep(c)
    BY <2>4
       DEF UnpublishStep, ProbeSvcb, ProbeTxt, Probe, DeleteSvcb, DeleteTxt,
           DeleteAlias, DeleteLegacySvcb, DeleteLegacyTxt, DeleteLegacy,
           NoWrite, zoneVars
  <2>5. CASE IndexStep(c)
    BY <2>5
       DEF IndexStep, IndexRead, SyncRead, ReadIndex, ScanSvcb, ScanTxt,
           NoWrite, zoneVars
  <2>6. QED
    BY <2>1, <2>2, <2>3, <2>4, <2>5 DEF Step
<1>2. UNCHANGED <<svcb, alias, legacy>>
  BY <1>1 DEF IndexWrite, SyncWrite
<1>3. QED
  BY <1>1, <1>2 DEF IndexWrite, SyncWrite, Wrote, Lineage

(* The publication machinery implements the abstract agent directory: each *)
(* step announces, rewrites the list from what was announced, or stutters. *)
THEOREM PublicationImplementsDirectory == Spec => ListsOnlyAnnounced
<1>1. Init => Directory!Init
  BY InitType DEF Init, Directory!Init, TypeOK
<1>2. ASSUME Lineage, Lineage', [Next]_vars
      PROVE  [Directory!Next]_<<announced, index>>
  <2>1. CASE index' = index
    <3>1. announced \subseteq announced' /\ announced' \subseteq Entries
      <4>1. announced \subseteq announced'
        BY <1>2, AnnouncedGrows
      <4>2. QED
        BY <1>2, <4>1 DEF Lineage, TypeOK
    <3>2. announced' = announced \cup announced'
      BY <3>1
    <3>3. QED
      BY <2>1, <3>1, <3>2 DEF Directory!Next, Directory!Announce
  <2>2. CASE index' # index
    <3>1. announced' = announced
      BY <1>2, <2>2, RelistOnly
    <3>2. index' \subseteq announced
      BY <1>2, <3>1 DEF Lineage, IndexWasAnnounced
    <3>3. QED
      BY <3>1, <3>2 DEF Directory!Next, Directory!Relist
  <2>3. QED
    BY <2>1, <2>2
<1>3. QED
  BY <1>1, <1>2, InitLineage, NextLineage, PTL DEF Spec, Directory!Spec, ListsOnlyAnnounced
-----------------------------------------------------------------------------
(***************************************************************************)
(* What an operation that reported success, with no other writer beside it,*)
(* left in the zone: theorems about the outcomes of publish(), unpublish() *)
(* and sync_index(), for any clients, names, protocols, faults and bounds. *)
(*                                                                         *)
(* Each guarantee builds up over several backend calls. Its invariant says *)
(* what the calls made so far have established, for a client that is still *)
(* alone; a step of another client either writes nothing or ends that.     *)
(***************************************************************************)


(* A step of c leaves the locals of the others alone.                      *)
OnlyMine(c) == \A d \in Clients \ {c} : me'[d] = me[d] /\ pc'[d] = pc[d]

LEMMA RaiseIsMine ==
    ASSUME TypeOK, NEW c \in Clients, NEW flag, NEW condition, NEW step,
           Raise(c, flag, condition), Goto(c, step)
    PROVE  /\ OnlyMine(c) /\ pc'[c] = step
           /\ me'[c].flags = IF condition THEN me[c].flags \cup {flag}
                                          ELSE me[c].flags
           /\ me'[c].kind = me[c].kind /\ me'[c].agent = me[c].agent
           /\ me'[c].outcome = me[c].outcome
BY DEF TypeOK, Local, Raise, Goto, OnlyMine

LEMMA OutcomeIsMine ==
    ASSUME TypeOK, NEW c \in Clients, NEW o, NEW step,
           me' = [me EXCEPT ![c].outcome = o], Goto(c, step)
    PROVE  /\ OnlyMine(c) /\ pc'[c] = step /\ me'[c].outcome = o
           /\ me'[c].kind = me[c].kind /\ me'[c].agent = me[c].agent
           /\ me'[c].flags = me[c].flags
BY DEF TypeOK, Local, Goto, OnlyMine

LEMMA EndIsMine ==
    ASSUME TypeOK, NEW c \in Clients, NEW o, End(c, o)
    PROVE  /\ OnlyMine(c) /\ pc'[c] = "idle" /\ me'[c].outcome = o
           /\ me'[c].kind = me[c].kind /\ me'[c].agent = me[c].agent
           /\ me'[c].flags = me[c].flags
BY DEF End, Ended, TypeOK, Local, Goto, OnlyMine

LEMMA GotoIsMine ==
    ASSUME TypeOK, NEW c \in Clients, NEW step, Goto(c, step), UNCHANGED me
    PROVE  OnlyMine(c) /\ pc'[c] = step
BY DEF TypeOK, Goto, OnlyMine

LEMMA StartIsMine ==
    ASSUME TypeOK, NEW c \in Clients, Start(c)
    PROVE  /\ OnlyMine(c) /\ pc'[c] = "zone"
           /\ me'[c].flags = {} /\ me'[c].outcome = "none"
           /\ UNCHANGED <<zoneVars, touched>>
           /\ \A d \in Clients \ {c} : alone'[d] = alone[d]
<1>1. PICK kind \in Kinds, agent \in Agents, walk \in BOOLEAN :
         me' = [me EXCEPT ![c] = Fresh(kind, agent, walk)]
  BY DEF Start
<1>2. pc' = [pc EXCEPT ![c] = "zone"] /\ alone' = [alone EXCEPT ![c] = TRUE]
      /\ UNCHANGED <<zoneVars, touched>>
  BY DEF Start, Goto
<1>3. QED
  BY <1>1, <1>2 DEF TypeOK, OnlyMine, Fresh

LEMMA IndexWriteIsMine ==
    ASSUME TypeOK, NEW c \in Clients, IndexWrite(c)
    PROVE  /\ OnlyMine(c) /\ pc'[c] = "idle"
           /\ me'[c].kind = me[c].kind /\ me'[c].agent = me[c].agent
           /\ me'[c].outcome = me[c].outcome
BY DEF IndexWrite, Ended, TypeOK, Local, Goto, OnlyMine

LEMMA ReadIsMine ==
    ASSUME TypeOK, NEW c \in Clients, NEW S, NEW step,
           me' = [me EXCEPT ![c].seen = S], Goto(c, step)
    PROVE  /\ OnlyMine(c) /\ pc'[c] = step /\ me'[c].seen = S
           /\ me'[c].kind = me[c].kind /\ me'[c].agent = me[c].agent
           /\ me'[c].flags = me[c].flags /\ me'[c].outcome = me[c].outcome
           /\ me'[c].sure = me[c].sure
BY DEF TypeOK, Local, Goto, OnlyMine

LEMMA FoundIsMine ==
    ASSUME TypeOK, NEW c \in Clients, NEW S, NEW T, NEW step,
           me' = [me EXCEPT ![c].sure = S, ![c].maybe = T], Goto(c, step)
    PROVE  /\ OnlyMine(c) /\ pc'[c] = step
           /\ me'[c].sure = S /\ me'[c].maybe = T
           /\ me'[c].kind = me[c].kind /\ me'[c].outcome = me[c].outcome
BY DEF TypeOK, Local, Goto, OnlyMine

(* A write by c ends the solitude of every other client.                   *)
LEMMA WroteIsMine ==
    ASSUME TypeOK, NEW c \in Clients, Wrote(c)
    PROVE  /\ \A d \in Clients \ {c} : ~alone'[d]
           /\ alone'[c] => alone[c]
BY DEF TypeOK, Wrote
-----------------------------------------------------------------------------
(* publish().                                                              *)

PublishCalls == {"zone", "native", "svcb", "txt", "alias", "idxRead", "idxWrite"}

(* The SVCB has this protocol, and the private keys in it or due in a TXT. *)
SvcbWritten(c) ==
    LET n == me[c].agent[1] IN
    /\ svcb[n] # None
    /\ svcb[n].proto = me[c].agent[2]
    /\ svcb[n].full \/ "demote" \in me[c].flags

Whole(c) ==
    LET n == me[c].agent[1] IN
    /\ svcb[n] # None /\ txt[n] # None
    /\ svcb[n].proto = me[c].agent[2]
    /\ svcb[n].full \/ txt[n].demoted

PublishSoFar(c) ==
    /\ pc[c] \in PublishCalls \cup {"idle"}
    /\ pc[c] \in {"zone", "native", "svcb", "txt", "alias"} => me[c].outcome # "ok"
    /\ pc[c] # "idle" => "indexed" \notin me[c].flags
    /\ pc[c] = "svcb" => NativeKeys = "yes" \/ "demote" \in me[c].flags
    /\ pc[c] = "txt" => SvcbWritten(c)
    /\ pc[c] \in {"alias", "idxRead", "idxWrite"} \/ me[c].outcome = "ok" => Whole(c)
    /\ "indexed" \in me[c].flags => me[c].agent \in index

Publishing(c) == alone[c] /\ me[c].kind = "publish"

PublishInv == \A c \in Clients : Publishing(c) => PublishSoFar(c)

(* Steps that leave the zone as it is.                                     *)
LEMMA ZoneExistsPublish ==
    ASSUME TypeOK, PublishInv, NEW c \in Clients, ZoneExists(c), Publishing(c)'
    PROVE  PublishSoFar(c)'
<1>1. pc[c] = "zone" /\ UNCHANGED <<zoneVars, alone>>
  BY DEF ZoneExists, NoWrite
<1>2. CASE Goto(c, FirstCall(me[c].kind)) /\ Raise(c, "demote", NativeKeys = "no")
  <2>1. /\ pc'[c] = FirstCall(me[c].kind)
        /\ me'[c].flags = IF NativeKeys = "no" THEN me[c].flags \cup {"demote"}
                                               ELSE me[c].flags
        /\ me'[c].kind = me[c].kind /\ me'[c].outcome = me[c].outcome
    BY <1>2 DEF TypeOK, Local, Raise, Goto
  <2>2. PublishSoFar(c) /\ me[c].kind = "publish"
    BY <1>1, <2>1 DEF PublishInv, Publishing
  <2>3. /\ pc'[c] \in {"native", "svcb"}
        /\ pc'[c] = "svcb" => NativeKeys # "unknown"
    BY <2>1, <2>2 DEF FirstCall
  <2>4. QED
    BY <1>1, <2>1, <2>2, <2>3, PublicationAssumption
       DEF PublishSoFar, PublishCalls
<1>3. CASE End(c, "failed")
  BY <1>1, <1>3, EndIsMine DEF PublishInv, Publishing, PublishSoFar
<1>4. QED
  BY <1>2, <1>3 DEF ZoneExists

LEMMA StopPublish ==
    ASSUME TypeOK, PublishInv, NEW c \in Clients, Stop(c), Publishing(c)'
    PROVE  PublishSoFar(c)'
<1>1. pc[c] # "idle" /\ UNCHANGED <<zoneVars, alone>> /\ End(c, "none")
  BY DEF Stop, NoWrite
<1>2. QED
  BY <1>1, EndIsMine DEF PublishInv, Publishing, PublishSoFar

(* The record written by a call that took effect.                          *)
LEMMA SvcbEffect ==
    ASSUME TypeOK, NEW c \in Clients, NEW full \in BOOLEAN,
           svcb' = [svcb EXCEPT ![me[c].agent[1]] =
                       [proto |-> me[c].agent[2], full |-> full]]
    PROVE  LET n == me[c].agent[1] IN
           /\ svcb'[n] # None
           /\ svcb'[n].proto = me[c].agent[2]
           /\ full => svcb'[n].full
<1>. DEFINE n == me[c].agent[1]
            record == [proto |-> me[c].agent[2], full |-> full]
<1>1. n \in Names /\ me[c].agent[2] \in Protocols
  BY MyType
<1>2. svcb'[n] = record
  BY <1>1 DEF TypeOK
<1>3. record # None
  BY <1>1, NoneIsNoRecord
<1>4. record.proto = me[c].agent[2] /\ record.full = full
  OBVIOUS
<1>. HIDE DEF record
<1>5. QED
  BY <1>2, <1>3, <1>4

LEMMA PutNativePublish ==
    ASSUME TypeOK, PublishInv, NEW c \in Clients, PutNative(c), Publishing(c)'
    PROVE  PublishSoFar(c)'
<1>1. PICK ok \in BOOLEAN, applied \in BOOLEAN :
         /\ ok => applied
         /\ svcb' = IF applied
                    THEN [svcb EXCEPT ![me[c].agent[1]] =
                             [proto |-> me[c].agent[2], full |-> TRUE]]
                    ELSE svcb
         /\ Goto(c, IF ok THEN "txt" ELSE "svcb")
         /\ Raise(c, "demote", ~ok)
  BY DEF PutNative, Created
<1>2. /\ pc'[c] = IF ok THEN "txt" ELSE "svcb"
      /\ me'[c].flags = IF ~ok THEN me[c].flags \cup {"demote"} ELSE me[c].flags
      /\ me'[c].kind = me[c].kind /\ me'[c].agent = me[c].agent
      /\ me'[c].outcome = me[c].outcome
  BY <1>1 DEF TypeOK, Local, Raise, Goto
<1>3. pc[c] = "native" /\ Wrote(c) /\ index' = index
  BY DEF PutNative
<1>4. PublishSoFar(c)
  BY <1>2, <1>3, WroteIsMine DEF PublishInv, Publishing
<1>5. ok => SvcbWritten(c)'
  BY <1>1, <1>2, SvcbEffect DEF SvcbWritten
<1>6. QED
  BY <1>2, <1>3, <1>4, <1>5 DEF PublishSoFar, PublishCalls

LEMMA PutSvcbPublish ==
    ASSUME TypeOK, PublishInv, NEW c \in Clients, PutSvcb(c), Publishing(c)'
    PROVE  PublishSoFar(c)'
<1>. DEFINE native == NativeKeys = "yes"
<1>1. PICK ok \in BOOLEAN, applied \in BOOLEAN :
         /\ ok => applied
         /\ svcb' = IF applied
                    THEN [svcb EXCEPT ![me[c].agent[1]] =
                             [proto |-> me[c].agent[2], full |-> native]]
                    ELSE svcb
         /\ IF ok THEN Goto(c, "txt") /\ UNCHANGED me ELSE End(c, "failed")
  BY DEF PutSvcb, Created
<1>2. pc[c] = "svcb" /\ Wrote(c) /\ index' = index
  BY DEF PutSvcb
<1>3. me'[c].kind = me[c].kind
  BY <1>1, EndIsMine
<1>4. PublishSoFar(c)
  BY <1>2, <1>3, WroteIsMine DEF PublishInv, Publishing
<1>5. CASE ok
  <2>1. pc'[c] = "txt" /\ UNCHANGED me
    BY <1>1, <1>5, GotoIsMine
  <2>2. LET n == me[c].agent[1] IN
        /\ svcb'[n] # None
        /\ svcb'[n].proto = me[c].agent[2]
        /\ native => svcb'[n].full
    BY <1>1, <1>5, SvcbEffect
  <2>3. native \/ "demote" \in me[c].flags
    BY <1>2, <1>4 DEF PublishSoFar
  <2>4. SvcbWritten(c)'
    BY <2>1, <2>2, <2>3 DEF SvcbWritten
  <2>5. QED
    BY <1>2, <1>4, <2>1, <2>4 DEF PublishSoFar, PublishCalls
<1>6. CASE ~ok
  <2>1. pc'[c] = "idle" /\ me'[c].outcome = "failed" /\ me'[c].flags = me[c].flags
    BY <1>1, <1>6, EndIsMine
  <2>2. QED
    BY <1>2, <1>4, <2>1 DEF PublishSoFar
<1>7. QED
  BY <1>5, <1>6

LEMMA PublishedIsMine ==
    ASSUME TypeOK, NEW c \in Clients, Published(c)
    PROVE  /\ OnlyMine(c) /\ pc'[c] = "idxRead" /\ me'[c].outcome = "ok"
           /\ me'[c].kind = me[c].kind /\ me'[c].agent = me[c].agent
           /\ me'[c].flags = me[c].flags
BY OutcomeIsMine DEF Published

(* The companion TXT completes the record.                                 *)
LEMMA TxtEffect ==
    ASSUME TypeOK, NEW c \in Clients, NEW demote \in BOOLEAN,
           txt' = [txt EXCEPT ![me[c].agent[1]] = [demoted |-> demote]]
    PROVE  LET n == me[c].agent[1] IN
           txt'[n] # None /\ (demote => txt'[n].demoted)
<1>. DEFINE n == me[c].agent[1]
            record == [demoted |-> demote]
<1>1. n \in Names
  BY MyType
<1>2. txt'[n] = record
  BY <1>1 DEF TypeOK
<1>3. record # None
  BY NoneIsNoRecord, PublicationAssumption
<1>4. record.demoted = demote
  OBVIOUS
<1>. HIDE DEF record
<1>5. QED
  BY <1>2, <1>3, <1>4

LEMMA PutTxtPublish ==
    ASSUME TypeOK, PublishInv, NEW c \in Clients, PutTxt(c), Publishing(c)'
    PROVE  PublishSoFar(c)'
<1>0. PICK demote \in BOOLEAN : demote <=> "demote" \in me[c].flags
  OBVIOUS
<1>1. PICK ok \in BOOLEAN, applied \in BOOLEAN :
         /\ ok => applied
         /\ txt' = IF applied
                   THEN [txt EXCEPT ![me[c].agent[1]] = [demoted |-> demote]]
                   ELSE txt
         /\ \/ ~ok /\ End(c, "failed")
            \/ ok /\ Goto(c, "alias") /\ UNCHANGED me
            \/ ok /\ Published(c)
  BY <1>0 DEF PutTxt, Created
<1>2. pc[c] = "txt" /\ Wrote(c) /\ UNCHANGED <<svcb, index>>
  BY DEF PutTxt
<1>3. me'[c].kind = me[c].kind /\ me'[c].agent = me[c].agent
      /\ me'[c].flags = me[c].flags
  BY <1>1, EndIsMine, PublishedIsMine
<1>4. PublishSoFar(c) /\ SvcbWritten(c)
  BY <1>2, <1>3, WroteIsMine DEF PublishInv, Publishing, PublishSoFar
<1>5. CASE ok
  <2>1. LET n == me[c].agent[1] IN
        txt'[n] # None /\ (demote => txt'[n].demoted)
    BY <1>1, <1>5, TxtEffect
  <2>2. Whole(c)'
    BY <1>0, <1>2, <1>3, <1>4, <2>1 DEF Whole, SvcbWritten
  <2>3. pc'[c] \in {"alias", "idxRead"}
        /\ (pc'[c] = "alias" => me'[c].outcome = me[c].outcome)
    BY <1>1, <1>5, GotoIsMine, PublishedIsMine
  <2>4. QED
    BY <1>2, <1>3, <1>4, <2>2, <2>3 DEF PublishSoFar, PublishCalls
<1>6. CASE ~ok
  <2>1. pc'[c] = "idle" /\ me'[c].outcome = "failed"
    BY <1>1, <1>6, EndIsMine
  <2>2. QED
    BY <1>2, <1>3, <1>4, <2>1 DEF PublishSoFar
<1>7. QED
  BY <1>5, <1>6

LEMMA PutAliasPublish ==
    ASSUME TypeOK, PublishInv, NEW c \in Clients, PutAlias(c), Publishing(c)'
    PROVE  PublishSoFar(c)'
<1>1. pc[c] = "alias" /\ Wrote(c) /\ UNCHANGED <<svcb, txt, index>> /\ Published(c)
  BY DEF PutAlias
<1>2. /\ pc'[c] = "idxRead" /\ me'[c].kind = me[c].kind
      /\ me'[c].agent = me[c].agent /\ me'[c].flags = me[c].flags
  BY <1>1, PublishedIsMine
<1>3. PublishSoFar(c)
  BY <1>1, <1>2, WroteIsMine DEF PublishInv, Publishing
<1>4. Whole(c)'
  BY <1>1, <1>2, <1>3 DEF PublishSoFar, Whole
<1>5. QED
  BY <1>1, <1>2, <1>3, <1>4 DEF PublishSoFar, PublishCalls

LEMMA IndexReadPublish ==
    ASSUME TypeOK, PublishInv, NEW c \in Clients, IndexRead(c), Publishing(c)'
    PROVE  PublishSoFar(c)'
<1>1. PICK S : me' = [me EXCEPT ![c].seen = S]
  BY DEF IndexRead, ReadIndex
<1>2. pc[c] = "idxRead" /\ UNCHANGED <<zoneVars, alone>> /\ Goto(c, "idxWrite")
  BY DEF IndexRead, ReadIndex, NoWrite
<1>3. /\ pc'[c] = "idxWrite" /\ me'[c].kind = me[c].kind
      /\ me'[c].agent = me[c].agent /\ me'[c].flags = me[c].flags
      /\ me'[c].outcome = me[c].outcome
  BY <1>1, <1>2, ReadIsMine
<1>4. PublishSoFar(c)
  BY <1>2, <1>3 DEF PublishInv, Publishing
<1>5. Whole(c)'
  BY <1>2, <1>3, <1>4 DEF PublishSoFar, Whole, zoneVars
<1>6. QED
  BY <1>2, <1>3, <1>4, <1>5 DEF PublishSoFar, PublishCalls

LEMMA IndexWritePublish ==
    ASSUME TypeOK, PublishInv, NEW c \in Clients, IndexWrite(c), Publishing(c)'
    PROVE  PublishSoFar(c)'
<1>1. PICK ok \in BOOLEAN, applied \in BOOLEAN :
         /\ ok => applied
         /\ index' = IF applied THEN Edited(me[c]) ELSE index
         /\ me' = [me EXCEPT ![c] = [Ended(me[c]) EXCEPT !.flags =
                      me[c].flags \cup (IF ok THEN {"indexed"} ELSE {})]]
  BY DEF IndexWrite, Created
<1>2. pc[c] = "idxWrite" /\ Wrote(c) /\ UNCHANGED <<svcb, txt>>
  BY DEF IndexWrite
<1>3. /\ pc'[c] = "idle" /\ me'[c].kind = me[c].kind
      /\ me'[c].agent = me[c].agent /\ me'[c].outcome = me[c].outcome
      /\ "indexed" \in me'[c].flags => ok \/ "indexed" \in me[c].flags
  <2>1. "indexed" \in me'[c].flags => ok \/ "indexed" \in me[c].flags
    <3>1. PICK l \in Local : l = Ended(me[c])
      BY EndedType, MyType
    <3>. DEFINE F == me[c].flags \cup (IF ok THEN {"indexed"} ELSE {})
    <3>2. me'[c] = [l EXCEPT !.flags = F]
      BY <1>1, <3>1 DEF TypeOK
    <3>3. me'[c].flags = F
      BY <3>2 DEF Local
    <3>4. QED
      BY <3>3
  <2>2. QED
    BY <2>1, IndexWriteIsMine
<1>4. PublishSoFar(c) /\ me[c].kind = "publish"
  BY <1>2, <1>3, WroteIsMine DEF PublishInv, Publishing
<1>5. Whole(c)'
  BY <1>2, <1>3, <1>4 DEF PublishSoFar, Whole
<1>6. ok => me'[c].agent \in index'
  BY <1>1, <1>3, <1>4 DEF Edited
<1>7. QED
  BY <1>2, <1>3, <1>4, <1>5, <1>6 DEF PublishSoFar
-----------------------------------------------------------------------------
(* Steps of the others.                                                    *)

(* What every step of c after its start respects.                          *)
Polite(c) ==
    /\ OnlyMine(c)
    /\ me'[c].kind = me[c].kind
    /\ alone'[c] => alone[c]
    /\ \A d \in Clients \ {c} : alone'[d] => alone[d] /\ UNCHANGED zoneVars

LEMMA NoWriteIsPolite ==
    ASSUME NEW c \in Clients, NoWrite, OnlyMine(c), me'[c].kind = me[c].kind
    PROVE  Polite(c)
BY DEF NoWrite, Polite

LEMMA WroteIsPolite ==
    ASSUME TypeOK, NEW c \in Clients, Wrote(c), OnlyMine(c),
           me'[c].kind = me[c].kind
    PROVE  Polite(c)
BY WroteIsMine DEF Polite

LEMMA PublishStepIsPolite ==
    ASSUME TypeOK, NEW c \in Clients, ZoneExists(c) \/ PublishStep(c)
    PROVE  Polite(c)
<1>1. CASE ZoneExists(c)
  <2>1. OnlyMine(c) /\ me'[c].kind = me[c].kind
    BY <1>1, EndIsMine
       DEF ZoneExists, TypeOK, Local, Raise, Goto, OnlyMine
  <2>2. QED
    BY <1>1, <2>1, NoWriteIsPolite DEF ZoneExists
<1>2. CASE PutNative(c)
  <2>1. OnlyMine(c) /\ me'[c].kind = me[c].kind
    BY <1>2 DEF PutNative, TypeOK, Local, Raise, Goto, OnlyMine
  <2>2. QED
    BY <1>2, <2>1, WroteIsPolite DEF PutNative
<1>3. CASE PutSvcb(c)
  <2>1. OnlyMine(c) /\ me'[c].kind = me[c].kind
    BY <1>3, EndIsMine, GotoIsMine DEF PutSvcb
  <2>2. QED
    BY <1>3, <2>1, WroteIsPolite DEF PutSvcb
<1>4. CASE PutTxt(c)
  <2>1. OnlyMine(c) /\ me'[c].kind = me[c].kind
    BY <1>4, EndIsMine, GotoIsMine, PublishedIsMine DEF PutTxt
  <2>2. QED
    BY <1>4, <2>1, WroteIsPolite DEF PutTxt
<1>5. CASE PutAlias(c)
  BY <1>5, PublishedIsMine, WroteIsPolite DEF PutAlias
<1>6. QED
  BY <1>1, <1>2, <1>3, <1>4, <1>5 DEF PublishStep

LEMMA UnpublishStepIsPolite ==
    ASSUME TypeOK, NEW c \in Clients, UnpublishStep(c)
    PROVE  Polite(c)
<1>1. CASE ProbeSvcb(c) \/ ProbeTxt(c)
  <2>1. NoWrite
    BY <1>1 DEF ProbeSvcb, ProbeTxt, Probe
  <2>2. OnlyMine(c) /\ me'[c].kind = me[c].kind
    BY <1>1, EndIsMine
       DEF ProbeSvcb, ProbeTxt, Probe, TypeOK, Local, Raise, Goto, OnlyMine
  <2>3. QED
    BY <2>1, <2>2, NoWriteIsPolite
<1>2. CASE DeleteSvcb(c) \/ DeleteTxt(c)
  <2>1. OnlyMine(c) /\ me'[c].kind = me[c].kind
    BY <1>2, EndIsMine
       DEF DeleteSvcb, DeleteTxt, DeletedPrimary, TypeOK, Local, Raise, Goto,
           OnlyMine
  <2>2. QED
    BY <1>2, <2>1, WroteIsPolite DEF DeleteSvcb, DeleteTxt
<1>3. CASE DeleteAlias(c)
  <2>1. OnlyMine(c) /\ me'[c].kind = me[c].kind
    BY <1>3 DEF DeleteAlias, TypeOK, Local, Raise, Goto, OnlyMine
  <2>2. QED
    BY <1>3, <2>1, WroteIsPolite DEF DeleteAlias
<1>4. ASSUME NEW step, NEW type, DeleteLegacy(c, step, type)
      PROVE  Polite(c)
  <2>1. ASSUME NEW flags, Decided(c, flags)
        PROVE  OnlyMine(c) /\ me'[c].kind = me[c].kind
    BY <2>1, EndIsMine, OutcomeIsMine DEF Decided
  <2>2. OnlyMine(c) /\ me'[c].kind = me[c].kind
    BY <1>4, <2>1
       DEF DeleteLegacy, TypeOK, Local, Raise, Goto, OnlyMine
  <2>3. QED
    BY <1>4, <2>2, WroteIsPolite DEF DeleteLegacy
<1>5. QED
  BY <1>1, <1>2, <1>3, <1>4
     DEF UnpublishStep, DeleteLegacySvcb, DeleteLegacyTxt

LEMMA IndexStepIsPolite ==
    ASSUME TypeOK, NEW c \in Clients, IndexStep(c) \/ Stop(c)
    PROVE  Polite(c)
<1>1. CASE IndexRead(c) \/ SyncRead(c)
  <2>1. NoWrite /\ (\E S : me' = [me EXCEPT ![c].seen = S])
        /\ (\E step : Goto(c, step))
    BY <1>1 DEF IndexRead, SyncRead, ReadIndex
  <2>2. QED
    BY <2>1, ReadIsMine, NoWriteIsPolite
<1>2. CASE IndexWrite(c)
  BY <1>2, IndexWriteIsMine, WroteIsPolite DEF IndexWrite
<1>3. CASE ScanSvcb(c) \/ ScanTxt(c)
  <2>1. \/ End(c, "failed")
        \/ (\E S, T : me' = [me EXCEPT ![c].sure = S, ![c].maybe = T])
           /\ (\E step : Goto(c, step))
    <3>1. CASE ScanSvcb(c)
      BY <3>1 DEF ScanSvcb
    <3>2. CASE ScanTxt(c)
      BY <3>2 DEF ScanTxt
    <3>3. QED
      BY <1>3, <3>1, <3>2
  <2>2. NoWrite
    BY <1>3 DEF ScanSvcb, ScanTxt
  <2>3. CASE End(c, "failed")
    BY <2>2, <2>3, EndIsMine, NoWriteIsPolite
  <2>4. ASSUME NEW S, NEW T, NEW step, Goto(c, step),
               me' = [me EXCEPT ![c].sure = S, ![c].maybe = T]
        PROVE  Polite(c)
    BY <2>2, <2>4, FoundIsMine, NoWriteIsPolite
  <2>5. QED
    BY <2>1, <2>3, <2>4
<1>4. CASE SyncWrite(c)
  <2>1. OnlyMine(c) /\ me'[c].kind = me[c].kind
    BY <1>4, EndIsMine DEF SyncWrite
  <2>2. \/ UNCHANGED <<index, alone>>
        \/ alone' = [d \in Clients |-> d = c /\ alone[d]]
    BY <1>4 DEF SyncWrite
  <2>3. UNCHANGED <<svcb, txt, alias, legacy>>
    BY <1>4 DEF SyncWrite
  <2>4. QED
    BY <2>1, <2>2, <2>3 DEF Polite, TypeOK, zoneVars
<1>5. CASE Stop(c)
  BY <1>5, EndIsMine, NoWriteIsPolite DEF Stop
<1>6. QED
  BY <1>1, <1>2, <1>3, <1>4, <1>5 DEF IndexStep

LEMMA StepIsPolite ==
    ASSUME TypeOK, NEW c \in Clients, Step(c) \/ Stop(c)
    PROVE  Polite(c)
BY PublishStepIsPolite, UnpublishStepIsPolite, IndexStepIsPolite DEF Step

(* Where the steps of an unpublish and of a sync start from.               *)
SyncCalls == {"scanSvcb", "scanTxt", "syncRead", "syncWrite"}

LEMMA UnpublishStepsAt ==
    ASSUME NEW c \in Clients, UnpublishStep(c) PROVE pc[c] \in UnpublishCalls
BY DEF UnpublishStep, ProbeSvcb, ProbeTxt, Probe, DeleteSvcb, DeleteTxt,
       DeleteAlias, DeleteLegacySvcb, DeleteLegacyTxt, DeleteLegacy,
       UnpublishCalls

LEMMA IndexStepsAt ==
    ASSUME NEW c \in Clients, IndexStep(c)
    PROVE  IndexRead(c) \/ IndexWrite(c) \/ pc[c] \in SyncCalls
BY DEF IndexStep, ScanSvcb, ScanTxt, SyncRead, ReadIndex, SyncWrite, SyncCalls

LEMMA StepPublish ==
    ASSUME TypeOK, PublishInv, NEW c \in Clients, Step(c) \/ Stop(c),
           Publishing(c)'
    PROVE  PublishSoFar(c)'
<1>1. PublishSoFar(c)
  BY StepIsPolite DEF Polite, PublishInv, Publishing
<1>2. pc[c] \notin UnpublishCalls \cup SyncCalls
  BY <1>1 DEF PublishSoFar, PublishCalls, UnpublishCalls, SyncCalls
<1>3. CASE PublishStep(c)
  BY <1>3, PutNativePublish, PutSvcbPublish, PutTxtPublish, PutAliasPublish
     DEF PublishStep
<1>4. CASE UnpublishStep(c)
  BY <1>2, <1>4, UnpublishStepsAt
<1>5. CASE IndexStep(c)
  BY <1>2, <1>5, IndexStepsAt, IndexReadPublish, IndexWritePublish
<1>6. QED
  BY <1>3, <1>4, <1>5, ZoneExistsPublish, StopPublish DEF Step

LEMMA NextPublish == TypeOK /\ PublishInv /\ [Next]_vars => PublishInv'
<1>1. ASSUME PublishInv, UNCHANGED vars PROVE PublishInv'
  BY <1>1 DEF PublishInv, Publishing, PublishSoFar, SvcbWritten, Whole, vars,
              zoneVars
<1>2. ASSUME PublishInv, NEW d \in Clients, alone[d], me'[d] = me[d],
             pc'[d] = pc[d], UNCHANGED zoneVars, Publishing(d)'
      PROVE  PublishSoFar(d)'
  BY <1>2 DEF PublishInv, Publishing, PublishSoFar, SvcbWritten, Whole, zoneVars
<1>3. ASSUME TypeOK, PublishInv, NEW c \in Clients, Start(c) PROVE PublishInv'
  <2>1. ASSUME NEW d \in Clients, Publishing(d)' PROVE PublishSoFar(d)'
    <3>1. CASE d = c
      BY <1>3, <3>1, StartIsMine DEF PublishSoFar, PublishCalls
    <3>2. CASE d # c
      <4>1. alone[d] /\ me'[d] = me[d] /\ pc'[d] = pc[d] /\ UNCHANGED zoneVars
        BY <1>3, <2>1, <3>2, StartIsMine DEF OnlyMine, Publishing
      <4>2. QED
        BY <1>2, <1>3, <2>1, <4>1
    <3>3. QED
      BY <3>1, <3>2
  <2>2. QED
    BY <2>1 DEF PublishInv
<1>4. ASSUME TypeOK, PublishInv, NEW c \in Clients, Step(c) \/ Stop(c)
      PROVE  PublishInv'
  <2>1. ASSUME NEW d \in Clients, Publishing(d)' PROVE PublishSoFar(d)'
    <3>1. CASE d = c
      BY <1>4, <2>1, <3>1, StepPublish
    <3>2. CASE d # c
      <4>1. alone[d] /\ me'[d] = me[d] /\ pc'[d] = pc[d] /\ UNCHANGED zoneVars
        BY <1>4, <2>1, <3>2, StepIsPolite DEF Polite, OnlyMine, Publishing
      <4>2. QED
        BY <1>2, <1>4, <2>1, <4>1
    <3>3. QED
      BY <3>1, <3>2
  <2>2. QED
    BY <2>1 DEF PublishInv
<1>5. QED
  BY <1>1, <1>3, <1>4 DEF Next

(* A publish that reports success, with no other writer beside it, left    *)
(* the whole agent in the zone, whether the private keys went into the SVCB*)
(* or, at once or after a rejected first try, into the TXT; and if its     *)
(* index update reported success too, the agent is in the index.           *)
THEOREM PublishLeavesTheWholeAgent == Spec => []PublishIsComplete
<1>1. Init => PublishInv
  BY DEF Init, PublishInv, Publishing
<1>2. PublishInv => PublishIsComplete
  BY DEF PublishInv, Publishing, PublishSoFar, Whole, PublishIsComplete, Succeeded
<1>3. QED
  BY <1>1, <1>2, NextPublish, InitType, NextType, PTL DEF Spec
-----------------------------------------------------------------------------
(* unpublish().                                                            *)

AfterDelSvcb == {"delTxt", "delAlias", "delLegacySvcb", "delLegacyTxt"}
IndexCalls == {"idxRead", "idxWrite"}

NoSvcb(c) == svcb[me[c].agent[1]] = None
TookSomething(c) == NoSvcb(c) \/ txt[me[c].agent[1]] = None

(* The probes found nothing, or a delete said True: either way one of the  *)
(* two records is gone. If deletes answer honestly the SVCB is, as soon as *)
(* its delete has answered at all.                                         *)
UnpublishSoFar(c) ==
    /\ pc[c] \in UnpublishCalls \cup IndexCalls \cup {"zone", "idle"}
    /\ pc[c] \in UnpublishCalls \cup {"zone"} => me[c].outcome # "ok"
    /\ pc[c] \in {"zone", "probeSvcb", "probeTxt", "delSvcb"} =>
          "deleted" \notin me[c].flags
    /\ pc[c] \in {"probeTxt", "delSvcb"} \cup AfterDelSvcb
       /\ "existed" \notin me[c].flags => NoSvcb(c)
    /\ pc[c] \in AfterDelSvcb /\ "deleted" \in me[c].flags => TookSomething(c)
    /\ pc[c] \in IndexCalls \/ me[c].outcome = "ok" => TookSomething(c)
    /\ pc[c] \in AfterDelSvcb \cup IndexCalls \/ me[c].outcome = "ok" =>
          "silentDelete" \in FaultKinds \/ NoSvcb(c)

Unpublishing(c) == alone[c] /\ me[c].kind = "unpublish"

UnpublishInv == \A c \in Clients : Unpublishing(c) => UnpublishSoFar(c)

LEMMA ZoneExistsUnpublish ==
    ASSUME TypeOK, UnpublishInv, NEW c \in Clients, ZoneExists(c),
           Unpublishing(c)'
    PROVE  UnpublishSoFar(c)'
<1>1. pc[c] = "zone" /\ UNCHANGED <<zoneVars, alone>>
  BY DEF ZoneExists, NoWrite
<1>2. CASE Goto(c, FirstCall(me[c].kind)) /\ Raise(c, "demote", NativeKeys = "no")
  <2>1. /\ pc'[c] = FirstCall(me[c].kind)
        /\ me'[c].flags \subseteq me[c].flags \cup {"demote"}
        /\ me'[c].kind = me[c].kind /\ me'[c].outcome = me[c].outcome
    BY <1>2 DEF TypeOK, Local, Raise, Goto
  <2>2. UnpublishSoFar(c) /\ me[c].kind = "unpublish"
    BY <1>1, <2>1 DEF UnpublishInv, Unpublishing
  <2>3. pc'[c] = "probeSvcb"
    BY <2>1, <2>2 DEF FirstCall
  <2>4. QED
    BY <1>1, <2>1, <2>2, <2>3
       DEF UnpublishSoFar, UnpublishCalls, IndexCalls, AfterDelSvcb
<1>3. CASE End(c, "failed")
  BY <1>1, <1>3, EndIsMine
     DEF UnpublishSoFar, UnpublishCalls, IndexCalls, AfterDelSvcb
<1>4. QED
  BY <1>2, <1>3 DEF ZoneExists

(* An operation that ends without success owes nothing.                    *)
LEMMA FailedUnpublish ==
    ASSUME TypeOK, NEW c \in Clients, NEW o, o # "ok", End(c, o)
    PROVE  UnpublishSoFar(c)'
BY EndIsMine DEF UnpublishSoFar, UnpublishCalls, IndexCalls, AfterDelSvcb

LEMMA ProbeUnpublish ==
    ASSUME TypeOK, UnpublishInv, NEW c \in Clients, ProbeSvcb(c) \/ ProbeTxt(c),
           Unpublishing(c)'
    PROVE  UnpublishSoFar(c)'
<1>1. UNCHANGED <<zoneVars, alone>>
  BY DEF ProbeSvcb, ProbeTxt, Probe, NoWrite
<1>2. ASSUME NEW found \in BOOLEAN, NEW next, Goto(c, next), Raise(c, "existed", found)
      PROVE  /\ pc'[c] = next
             /\ me'[c].kind = me[c].kind /\ me'[c].agent = me[c].agent
             /\ me'[c].outcome = me[c].outcome
             /\ me'[c].flags = IF found THEN me[c].flags \cup {"existed"}
                                        ELSE me[c].flags
  BY <1>2 DEF TypeOK, Local, Raise, Goto
<1>3. CASE End(c, "failed")
  BY <1>3, FailedUnpublish
<1>4. CASE ProbeSvcb(c) /\ ~End(c, "failed")
  <2>1. PICK found \in BOOLEAN : /\ found <=> svcb[me[c].agent[1]] # None
                                 /\ Raise(c, "existed", found)
                                 /\ Goto(c, "probeTxt")
    BY <1>4 DEF ProbeSvcb, Probe
  <2>2. UnpublishSoFar(c) /\ pc[c] = "probeSvcb"
    BY <1>1, <1>2, <1>4, <2>1
       DEF UnpublishInv, Unpublishing, ProbeSvcb, Probe
  <2>3. "existed" \notin me'[c].flags => NoSvcb(c)'
    BY <1>1, <1>2, <2>1 DEF NoSvcb, zoneVars
  <2>4. QED
    BY <1>2, <2>1, <2>2, <2>3
       DEF UnpublishSoFar, UnpublishCalls, IndexCalls, AfterDelSvcb
<1>5. CASE ProbeTxt(c) /\ ~End(c, "failed")
  <2>1. PICK found \in BOOLEAN : /\ Raise(c, "existed", found)
                                 /\ Goto(c, "delSvcb")
    BY <1>5 DEF ProbeTxt, Probe
  <2>2. UnpublishSoFar(c) /\ pc[c] = "probeTxt"
    BY <1>1, <1>2, <1>5, <2>1
       DEF UnpublishInv, Unpublishing, ProbeTxt, Probe
  <2>3. "existed" \notin me'[c].flags => NoSvcb(c)'
    BY <1>1, <1>2, <2>1, <2>2 DEF NoSvcb, zoneVars, UnpublishSoFar
  <2>4. QED
    BY <1>2, <2>1, <2>2, <2>3
       DEF UnpublishSoFar, UnpublishCalls, IndexCalls, AfterDelSvcb
<1>6. QED
  BY <1>3, <1>4, <1>5

(* The answer of a primary delete and what the client makes of it.         *)
LEMMA DeletedPrimaryIsMine ==
    ASSUME TypeOK, NEW c \in Clients, NEW said, NEW next,
           DeletedPrimary(c, said, next)
    PROVE  \/ End(c, "failed")
           \/ /\ pc'[c] = next
              /\ me'[c].kind = me[c].kind /\ me'[c].agent = me[c].agent
              /\ me'[c].outcome = me[c].outcome
              /\ said # "raise"
              /\ \A flag : flag \in me'[c].flags <=>
                    flag \in me[c].flags \/ (flag = "deleted" /\ said = "yes")
<1>1. CASE said = "raise"
  BY <1>1 DEF DeletedPrimary
<1>2. CASE said # "raise"
  <2>1. Goto(c, next) /\ Raise(c, "deleted", said = "yes")
    BY <1>2 DEF DeletedPrimary
  <2>2. QED
    BY <1>2, <2>1 DEF TypeOK, Local, Raise, Goto
<1>3. QED
  BY <1>1, <1>2

LEMMA DeleteSvcbUnpublish ==
    ASSUME TypeOK, UnpublishInv, NEW c \in Clients, DeleteSvcb(c),
           Unpublishing(c)'
    PROVE  UnpublishSoFar(c)'
<1>1. PICK said \in Answers, applied \in BOOLEAN :
         /\ Deleted(svcb[me[c].agent[1]] # None, said, applied)
         /\ svcb' = IF applied THEN [svcb EXCEPT ![me[c].agent[1]] = None]
                               ELSE svcb
         /\ DeletedPrimary(c, said, "delTxt")
  BY DEF DeleteSvcb
<1>2. CASE End(c, "failed")
  BY <1>2, FailedUnpublish
<1>3. CASE ~End(c, "failed")
  <2>1. /\ pc'[c] = "delTxt"
        /\ me'[c].kind = me[c].kind /\ me'[c].agent = me[c].agent
        /\ me'[c].outcome = me[c].outcome /\ said # "raise"
        /\ \A flag : flag \in me'[c].flags <=>
              flag \in me[c].flags \/ (flag = "deleted" /\ said = "yes")
    BY <1>1, <1>3, DeletedPrimaryIsMine
  <2>2. pc[c] = "delSvcb" /\ Wrote(c)
    BY DEF DeleteSvcb
  <2>3. UnpublishSoFar(c)
    BY <2>1, <2>2, WroteIsMine DEF UnpublishInv, Unpublishing
  <2>4. svcb'[me[c].agent[1]] = IF applied THEN None ELSE svcb[me[c].agent[1]]
    BY <1>1, MyType DEF TypeOK
  <2>5. applied \/ (said = "no" /\ "silentDelete" \in FaultKinds)
    BY <1>1, <2>1 DEF Deleted, Fault
  <2>6. /\ "existed" \notin me'[c].flags => NoSvcb(c)'
        /\ "deleted" \in me'[c].flags => NoSvcb(c)'
        /\ "silentDelete" \in FaultKinds \/ NoSvcb(c)'
    BY <2>1, <2>2, <2>3, <2>4, <2>5 DEF UnpublishSoFar, NoSvcb
  <2>7. QED
    BY <2>1, <2>2, <2>3, <2>6
       DEF UnpublishSoFar, TookSomething, UnpublishCalls, IndexCalls, AfterDelSvcb
<1>4. QED
  BY <1>2, <1>3

LEMMA DeleteTxtUnpublish ==
    ASSUME TypeOK, UnpublishInv, NEW c \in Clients, DeleteTxt(c),
           Unpublishing(c)'
    PROVE  UnpublishSoFar(c)'
<1>1. PICK said \in Answers, applied \in BOOLEAN :
         /\ Deleted(txt[me[c].agent[1]] # None, said, applied)
         /\ txt' = IF applied THEN [txt EXCEPT ![me[c].agent[1]] = None]
                              ELSE txt
         /\ DeletedPrimary(c, said, "delAlias")
  BY DEF DeleteTxt
<1>2. CASE End(c, "failed")
  BY <1>2, FailedUnpublish
<1>3. CASE ~End(c, "failed")
  <2>1. /\ pc'[c] = "delAlias"
        /\ me'[c].kind = me[c].kind /\ me'[c].agent = me[c].agent
        /\ me'[c].outcome = me[c].outcome
        /\ \A flag : flag \in me'[c].flags <=>
              flag \in me[c].flags \/ (flag = "deleted" /\ said = "yes")
    BY <1>1, <1>3, DeletedPrimaryIsMine
  <2>2. pc[c] = "delTxt" /\ Wrote(c) /\ svcb' = svcb
    BY DEF DeleteTxt
  <2>3. UnpublishSoFar(c)
    BY <2>1, <2>2, WroteIsMine DEF UnpublishInv, Unpublishing
  <2>4. txt'[me[c].agent[1]] = IF applied THEN None ELSE txt[me[c].agent[1]]
    BY <1>1, MyType DEF TypeOK
  <2>5. said = "yes" => applied
    BY <1>1 DEF Deleted
  <2>6. /\ NoSvcb(c)' <=> NoSvcb(c)
        /\ TookSomething(c) => TookSomething(c)'
        /\ said = "yes" => TookSomething(c)'
    BY <2>1, <2>2, <2>4, <2>5 DEF NoSvcb, TookSomething
  <2>7. QED
    BY <2>1, <2>2, <2>3, <2>6
       DEF UnpublishSoFar, UnpublishCalls, IndexCalls, AfterDelSvcb
<1>4. QED
  BY <1>2, <1>3

(* The cleanup deletes touch neither record of the primary.                *)
LEMMA DeleteAliasUnpublish ==
    ASSUME TypeOK, UnpublishInv, NEW c \in Clients, DeleteAlias(c),
           Unpublishing(c)'
    PROVE  UnpublishSoFar(c)'
<1>1. /\ pc[c] = "delAlias" /\ Wrote(c) /\ UNCHANGED <<svcb, txt>>
      /\ \E said \in Answers : Raise(c, "cleaned", said = "yes")
      /\ Goto(c, "delLegacySvcb")
  BY DEF DeleteAlias
<1>2. /\ pc'[c] = "delLegacySvcb"
      /\ me'[c].kind = me[c].kind /\ me'[c].agent = me[c].agent
      /\ me'[c].outcome = me[c].outcome
      /\ me[c].flags \subseteq me'[c].flags
      /\ me'[c].flags \subseteq me[c].flags \cup {"cleaned"}
  BY <1>1 DEF TypeOK, Local, Raise, Goto
<1>3. UnpublishSoFar(c)
  BY <1>1, <1>2, WroteIsMine DEF UnpublishInv, Unpublishing
<1>4. (NoSvcb(c)' <=> NoSvcb(c)) /\ (TookSomething(c)' <=> TookSomething(c))
  BY <1>1, <1>2 DEF NoSvcb, TookSomething
<1>5. QED
  BY <1>1, <1>2, <1>3, <1>4
     DEF UnpublishSoFar, UnpublishCalls, IndexCalls, AfterDelSvcb

(* The verdict: a success means that a delete of the primary said True, or *)
(* that the probes found no primary.                                       *)
LEMMA DecidedUnpublish ==
    ASSUME TypeOK, NEW c \in Clients, UnpublishSoFar(c),
           pc[c] \in {"delLegacySvcb", "delLegacyTxt"},
           NEW flags, flags \cup {"cleaned"} = me[c].flags \cup {"cleaned"},
           Decided(c, flags), UNCHANGED <<svcb, txt>>
    PROVE  UnpublishSoFar(c)'
<1>1. CASE End(c, "failed")
  BY <1>1, FailedUnpublish
<1>2. CASE Unpublished(flags)
  <2>1. /\ pc'[c] = "idxRead" /\ me'[c].agent = me[c].agent
        /\ me'[c].outcome = "ok"
    <3>1. me' = [me EXCEPT ![c].outcome = "ok"] /\ Goto(c, "idxRead")
      BY <1>2 DEF Decided
    <3>2. QED
      BY <3>1, OutcomeIsMine
  <2>2. "existed" \notin me[c].flags \/ "deleted" \in me[c].flags
    BY <1>2 DEF Unpublished
  <2>3. TookSomething(c) /\ ("silentDelete" \in FaultKinds \/ NoSvcb(c))
    BY <2>2 DEF UnpublishSoFar, AfterDelSvcb, TookSomething
  <2>4. TookSomething(c)' /\ ("silentDelete" \in FaultKinds \/ NoSvcb(c)')
    BY <2>1, <2>3 DEF TookSomething, NoSvcb
  <2>5. QED
    BY <2>1, <2>4 DEF UnpublishSoFar, UnpublishCalls, IndexCalls, AfterDelSvcb
<1>3. QED
  BY <1>1, <1>2 DEF Decided

LEMMA DeleteLegacyUnpublish ==
    ASSUME TypeOK, UnpublishInv, NEW c \in Clients,
           DeleteLegacySvcb(c) \/ DeleteLegacyTxt(c), Unpublishing(c)'
    PROVE  UnpublishSoFar(c)'
<1>1. PICK type \in {"SVCB", "TXT"}, step \in {"delLegacySvcb", "delLegacyTxt"} :
         DeleteLegacy(c, step, type)
  BY DEF DeleteLegacySvcb, DeleteLegacyTxt
<1>2. pc[c] \in {"delLegacySvcb", "delLegacyTxt"} /\ Wrote(c)
      /\ UNCHANGED <<svcb, txt>>
  BY <1>1 DEF DeleteLegacy
<1>3. \/ Goto(c, "delLegacyTxt") /\ (\E said \in Answers : Raise(c, "cleaned", said = "yes"))
      \/ Decided(c, me[c].flags \cup {"cleaned"})
      \/ Decided(c, me[c].flags)
  BY <1>1 DEF DeleteLegacy
<1>4. UnpublishSoFar(c)
  <2>1. alone[c] /\ me[c].kind = "unpublish"
    BY UnpublishStepIsPolite DEF UnpublishStep, Polite, Unpublishing
  <2>2. QED
    BY <2>1 DEF UnpublishInv, Unpublishing
<1>5. CASE /\ Goto(c, "delLegacyTxt")
           /\ \E said \in Answers : Raise(c, "cleaned", said = "yes")
  <2>1. /\ pc'[c] = "delLegacyTxt"
        /\ me'[c].agent = me[c].agent
        /\ me'[c].outcome = me[c].outcome
        /\ me[c].flags \subseteq me'[c].flags
        /\ me'[c].flags \subseteq me[c].flags \cup {"cleaned"}
    BY <1>5 DEF TypeOK, Local, Raise, Goto
  <2>2. (NoSvcb(c)' <=> NoSvcb(c)) /\ (TookSomething(c)' <=> TookSomething(c))
    BY <1>2, <2>1 DEF NoSvcb, TookSomething
  <2>3. QED
    BY <1>2, <1>4, <2>1, <2>2
       DEF UnpublishSoFar, UnpublishCalls, IndexCalls, AfterDelSvcb
<1>6. CASE Decided(c, me[c].flags \cup {"cleaned"})
  BY <1>2, <1>4, <1>6, DecidedUnpublish
<1>7. CASE Decided(c, me[c].flags)
  BY <1>2, <1>4, <1>7, DecidedUnpublish
<1>8. QED
  BY <1>3, <1>5, <1>6, <1>7

(* The index update changes no record.                                     *)
LEMMA IndexUnpublish ==
    ASSUME TypeOK, UnpublishInv, NEW c \in Clients,
           IndexRead(c) \/ IndexWrite(c), Unpublishing(c)'
    PROVE  UnpublishSoFar(c)'
<1>1. UNCHANGED <<svcb, txt>> /\ pc[c] \in IndexCalls
  BY DEF IndexRead, IndexWrite, ReadIndex, NoWrite, zoneVars, IndexCalls
<1>2. /\ pc'[c] \in {"idxWrite", "idle"} /\ me'[c].kind = me[c].kind
      /\ me'[c].agent = me[c].agent /\ me'[c].outcome = me[c].outcome
  <2>1. CASE IndexRead(c)
    <3>1. PICK S : me' = [me EXCEPT ![c].seen = S]
      BY <2>1 DEF IndexRead, ReadIndex
    <3>2. Goto(c, "idxWrite")
      BY <2>1 DEF IndexRead, ReadIndex
    <3>3. QED
      BY <3>1, <3>2, ReadIsMine
  <2>2. CASE IndexWrite(c)
    BY <2>2, IndexWriteIsMine
  <2>3. QED
    BY <2>1, <2>2
<1>3. UnpublishSoFar(c)
  <2>1. alone[c] /\ me[c].kind = "unpublish"
    BY IndexStepIsPolite DEF IndexStep, Polite, Unpublishing
  <2>2. QED
    BY <2>1 DEF UnpublishInv, Unpublishing
<1>4. (NoSvcb(c)' <=> NoSvcb(c)) /\ (TookSomething(c)' <=> TookSomething(c))
  BY <1>1, <1>2 DEF NoSvcb, TookSomething
<1>5. QED
  BY <1>1, <1>2, <1>3, <1>4
     DEF UnpublishSoFar, UnpublishCalls, IndexCalls, AfterDelSvcb

LEMMA StepUnpublish ==
    ASSUME TypeOK, UnpublishInv, NEW c \in Clients, Step(c) \/ Stop(c),
           Unpublishing(c)'
    PROVE  UnpublishSoFar(c)'
<1>1. UnpublishSoFar(c)
  BY StepIsPolite DEF Polite, UnpublishInv, Unpublishing
<1>2. pc[c] \notin {"native", "svcb", "txt", "alias"} \cup SyncCalls
  BY <1>1 DEF UnpublishSoFar, UnpublishCalls, IndexCalls, SyncCalls
<1>3. CASE PublishStep(c)
  BY <1>2, <1>3 DEF PublishStep, PutNative, PutSvcb, PutTxt, PutAlias
<1>4. CASE UnpublishStep(c)
  BY <1>4, ProbeUnpublish, DeleteSvcbUnpublish, DeleteTxtUnpublish,
     DeleteAliasUnpublish, DeleteLegacyUnpublish DEF UnpublishStep
<1>5. CASE IndexStep(c)
  BY <1>2, <1>5, IndexStepsAt, IndexUnpublish
<1>6. CASE Stop(c)
  BY <1>6, FailedUnpublish DEF Stop
<1>7. QED
  BY <1>3, <1>4, <1>5, <1>6, ZoneExistsUnpublish DEF Step

LEMMA NextUnpublish == TypeOK /\ UnpublishInv /\ [Next]_vars => UnpublishInv'
<1>1. ASSUME UnpublishInv, UNCHANGED vars PROVE UnpublishInv'
  BY <1>1 DEF UnpublishInv, Unpublishing, UnpublishSoFar, TookSomething, NoSvcb,
              vars, zoneVars
<1>2. ASSUME UnpublishInv, NEW d \in Clients, alone[d], me'[d] = me[d],
             pc'[d] = pc[d], UNCHANGED zoneVars, Unpublishing(d)'
      PROVE  UnpublishSoFar(d)'
  BY <1>2 DEF UnpublishInv, Unpublishing, UnpublishSoFar, TookSomething, NoSvcb,
              zoneVars
<1>3. ASSUME TypeOK, UnpublishInv, NEW c \in Clients, Start(c)
      PROVE  UnpublishInv'
  <2>1. ASSUME NEW d \in Clients, Unpublishing(d)' PROVE UnpublishSoFar(d)'
    <3>1. CASE d = c
      BY <1>3, <3>1, StartIsMine
         DEF UnpublishSoFar, UnpublishCalls, IndexCalls, AfterDelSvcb
    <3>2. CASE d # c
      <4>1. alone[d] /\ me'[d] = me[d] /\ pc'[d] = pc[d] /\ UNCHANGED zoneVars
        BY <1>3, <2>1, <3>2, StartIsMine DEF OnlyMine, Unpublishing
      <4>2. QED
        BY <1>2, <1>3, <2>1, <4>1
    <3>3. QED
      BY <3>1, <3>2
  <2>2. QED
    BY <2>1 DEF UnpublishInv
<1>4. ASSUME TypeOK, UnpublishInv, NEW c \in Clients, Step(c) \/ Stop(c)
      PROVE  UnpublishInv'
  <2>1. ASSUME NEW d \in Clients, Unpublishing(d)' PROVE UnpublishSoFar(d)'
    <3>1. CASE d = c
      BY <1>4, <2>1, <3>1, StepUnpublish
    <3>2. CASE d # c
      <4>1. alone[d] /\ me'[d] = me[d] /\ pc'[d] = pc[d] /\ UNCHANGED zoneVars
        BY <1>4, <2>1, <3>2, StepIsPolite DEF Polite, OnlyMine, Unpublishing
      <4>2. QED
        BY <1>2, <1>4, <2>1, <4>1
    <3>3. QED
      BY <3>1, <3>2
  <2>2. QED
    BY <2>1 DEF UnpublishInv
<1>5. QED
  BY <1>1, <1>3, <1>4 DEF Next

LEMMA UnpublishIsInvariant == Spec => []UnpublishInv
<1>1. Init => UnpublishInv
  BY DEF Init, UnpublishInv, Unpublishing
<1>2. QED
  BY <1>1, NextUnpublish, InitType, NextType, PTL DEF Spec

(* The masked-failure guard: an unpublish that reports success, with no    *)
(* other writer beside it, took at least one of the agent's two records,   *)
(* even from a backend whose deletes answer False without deleting.        *)
THEOREM UnpublishTakesSomething == Spec => []UnpublishTookSomething
<1>1. UnpublishInv => UnpublishTookSomething
  BY DEF UnpublishInv, Unpublishing, UnpublishSoFar, TookSomething, NoSvcb,
         UnpublishTookSomething, Succeeded
<1>2. QED
  BY <1>1, UnpublishIsInvariant, PTL

(* If deletes answer honestly, an unpublish that reports success left no   *)
(* SVCB: without that assumption the guard does not ensure it.             *)
THEOREM HonestUnpublishTakesTheAgent ==
    ASSUME "silentDelete" \notin FaultKinds
    PROVE  Spec => []UnpublishIsGone
<1>1. UnpublishInv => UnpublishIsGone
  BY DEF UnpublishInv, Unpublishing, UnpublishSoFar, NoSvcb, UnpublishIsGone,
         Succeeded
<1>2. QED
  BY <1>1, UnpublishIsInvariant, PTL
-----------------------------------------------------------------------------
(* sync_index(), beside anybody and whatever fails.                        *)

(* What the SVCB listing names outright, what it leaves to the TXT listing,*)
(* and which of those the TXT listing confirms.                            *)
NamedIn(s, a, l) == WalkableEntries(s, a) \cup LegacyEntries(l)

Named == NamedIn(svcb, alias, legacy)
Flat == FlatEntries(svcb, alias, legacy)
WithCompanion == {e \in Flat : txt[e[1]] # None}

(* The two listings, put together as sync_index does it, name the agents a *)
(* reader of the whole zone would enumerate.                               *)
LEMMA ListingsAreExact ==
    ASSUME TypeOK
    PROVE  Named \cup WithCompanion = Discoverable
<1>1. /\ legacy \subseteq Agents \X {"SVCB", "TXT"}
      /\ alias \subseteq Names
      /\ Shown(svcb, alias, legacy) = Named \cup PrimaryEntries(svcb)
  BY DEF TypeOK, Shown, Named, NamedIn
<1>2. ASSUME NEW n \in Names
      PROVE  /\ <<n, ProtocolOf(svcb, n)>> \in WalkableEntries(svcb, alias) <=> n \in alias
             /\ <<n, ProtocolOf(svcb, n)>> \in PrimaryEntries(svcb) <=> svcb[n] # None
  BY DEF WalkableEntries, PrimaryEntries, Owners
<1>3. ASSUME NEW e \in Named \cup WithCompanion PROVE e \in Discoverable
  <2>1. e \in Shown(svcb, alias, legacy)
    BY <1>1 DEF WithCompanion, Flat, FlatEntries
  <2>2. CASE e \in WalkableEntries(svcb, alias)
    <3>1. e[1] \in alias /\ e[2] = ProtocolOf(svcb, e[1])
      BY <2>2 DEF WalkableEntries
    <3>2. QED
      BY <2>1, <3>1 DEF Discoverable
  <2>3. CASE e \in LegacyEntries(legacy)
    BY <2>1, <2>3 DEF Discoverable, LegacyEntries
  <2>4. CASE e \in WithCompanion
    <3>1. svcb[e[1]] # None /\ txt[e[1]] # None
      BY <2>4 DEF WithCompanion, Flat, FlatEntries, PrimaryEntries, Owners
    <3>2. \A f \in LegacyEntries(legacy) : f[1] # e[1]
      BY <2>4 DEF WithCompanion, Flat, FlatEntries
    <3>3. \A p \in Protocols : <<<<e[1], p>>, "SVCB">> \notin legacy
      <4>1. SUFFICES ASSUME NEW p \in Protocols, <<<<e[1], p>>, "SVCB">> \in legacy
                     PROVE  FALSE
        OBVIOUS
      <4>2. <<e[1], p>> \in LegacyEntries(legacy)
        BY <1>1, <4>1 DEF LegacyEntries
      <4>3. QED
        BY <3>2, <4>2
    <3>4. QED
      BY <2>1, <3>1, <3>3 DEF Discoverable
  <2>5. QED
    BY <2>2, <2>3, <2>4 DEF Named, NamedIn
<1>4. ASSUME NEW e \in Discoverable PROVE e \in Named \cup WithCompanion
  <2>1. e \in Named \cup PrimaryEntries(svcb)
    BY <1>1 DEF Discoverable
  <2>2. SUFFICES ASSUME e \in PrimaryEntries(svcb), e \notin Named
                 PROVE  e \in WithCompanion
    BY <2>1
  <2>3. /\ e = <<e[1], e[2]>> /\ e[1] \in Names
        /\ e[2] = ProtocolOf(svcb, e[1])
    BY <2>2 DEF PrimaryEntries, Owners
  <2>4. e[1] \notin alias
    BY <1>2, <2>2, <2>3 DEF Named, NamedIn
  <2>5. <<e, "SVCB">> \notin legacy
    BY <1>1, <2>2 DEF Named, NamedIn, LegacyEntries
  <2>6. /\ txt[e[1]] # None
        /\ \A p \in Protocols : <<<<e[1], p>>, "SVCB">> \notin legacy
    BY <2>4, <2>5 DEF Discoverable
  <2>7. \A f \in WalkableEntries(svcb, alias) : f[1] # e[1]
    BY <2>4 DEF WalkableEntries
  <2>8. \A f \in LegacyEntries(legacy) : f[1] # e[1]
    BY <2>6 DEF LegacyEntries, Agents
  <2>9. e \in Flat
    BY <2>2, <2>7, <2>8 DEF Flat, FlatEntries
  <2>10. QED
    BY <2>6, <2>9 DEF WithCompanion
<1>5. QED
  BY <1>3, <1>4

(* What the listings say of a name depends on the records of that name.    *)
LEMMA NamedAt ==
    ASSUME NEW s, NEW a, NEW l, NEW n
    PROVE  \A e : e \in EntriesOf(NamedIn(s, a, l), n) <=>
              \/ n \in a /\ e = <<n, ProtocolOf(s, n)>>
              \/ e \in Agents /\ e[1] = n /\ <<e, "SVCB">> \in l
<1>1. \A e : e \in WalkableEntries(s, a) /\ e[1] = n <=>
                n \in a /\ e = <<n, ProtocolOf(s, n)>>
  BY DEF WalkableEntries
<1>2. \A e : e \in LegacyEntries(l) <=> e \in Agents /\ <<e, "SVCB">> \in l
  BY DEF LegacyEntries
<1>3. QED
  BY <1>1, <1>2 DEF EntriesOf, NamedIn

LEMMA FlatAt ==
    ASSUME NEW s, NEW a, NEW l, NEW n
    PROVE  \A e : e \in EntriesOf(FlatEntries(s, a, l), n) <=>
              /\ n \in Names /\ s[n] # None /\ e = <<n, ProtocolOf(s, n)>>
              /\ EntriesOf(NamedIn(s, a, l), n) = {}
<1>1. \A e : e \in PrimaryEntries(s) /\ e[1] = n <=>
                n \in Names /\ s[n] # None /\ e = <<n, ProtocolOf(s, n)>>
  BY DEF PrimaryEntries, Owners
<1>2. EntriesOf(NamedIn(s, a, l), n) = {} <=> \A f \in NamedIn(s, a, l) : f[1] # n
  BY DEF EntriesOf
<1>3. \A e : e \in EntriesOf(FlatEntries(s, a, l), n) <=>
                /\ e \in PrimaryEntries(s) /\ e[1] = n
                /\ \A f \in NamedIn(s, a, l) : f[1] # n
  BY DEF EntriesOf, FlatEntries, NamedIn
<1>4. QED
  BY <1>1, <1>2, <1>3

LEMMA SameListings ==
    ASSUME NEW s, NEW a, NEW l, NEW s2, NEW a2, NEW l2, NEW n,
           s2[n] = s[n], n \in a2 <=> n \in a,
           \A e \in Agents : e[1] = n => (<<e, "SVCB">> \in l2 <=> <<e, "SVCB">> \in l)
    PROVE  /\ EntriesOf(NamedIn(s2, a2, l2), n) = EntriesOf(NamedIn(s, a, l), n)
           /\ EntriesOf(FlatEntries(s2, a2, l2), n) = EntriesOf(FlatEntries(s, a, l), n)
<1>1. ProtocolOf(s2, n) = ProtocolOf(s, n)
  BY DEF ProtocolOf
<1>2. \A e : e \in EntriesOf(NamedIn(s2, a2, l2), n) <=>
             e \in EntriesOf(NamedIn(s, a, l), n)
  <2>1. \A e : e \in EntriesOf(NamedIn(s, a, l), n) <=>
               \/ n \in a /\ e = <<n, ProtocolOf(s, n)>>
               \/ e \in Agents /\ e[1] = n /\ <<e, "SVCB">> \in l
    BY NamedAt
  <2>2. \A e : e \in EntriesOf(NamedIn(s2, a2, l2), n) <=>
               \/ n \in a2 /\ e = <<n, ProtocolOf(s2, n)>>
               \/ e \in Agents /\ e[1] = n /\ <<e, "SVCB">> \in l2
    BY NamedAt
  <2>3. SUFFICES ASSUME NEW e
                 PROVE  e \in EntriesOf(NamedIn(s2, a2, l2), n) <=>
                           e \in EntriesOf(NamedIn(s, a, l), n)
    OBVIOUS
  <2>4. (n \in a2 /\ e = <<n, ProtocolOf(s2, n)>>) <=>
           (n \in a /\ e = <<n, ProtocolOf(s, n)>>)
    BY <1>1
  <2>5. (e \in Agents /\ e[1] = n /\ <<e, "SVCB">> \in l2) <=>
           (e \in Agents /\ e[1] = n /\ <<e, "SVCB">> \in l)
    OBVIOUS
  <2>6. QED
    BY <2>1, <2>2, <2>4, <2>5
<1>3. EntriesOf(NamedIn(s2, a2, l2), n) = EntriesOf(NamedIn(s, a, l), n)
  <2>1. \A x : x \in EntriesOf(NamedIn(s, a, l), n) => x \in NamedIn(s, a, l)
    BY DEF EntriesOf
  <2>2. QED
    BY <1>2
<1>4. \A e : e \in EntriesOf(FlatEntries(s2, a2, l2), n) <=>
             e \in EntriesOf(FlatEntries(s, a, l), n)
  BY <1>1, <1>3, FlatAt
<1>5. QED
  BY <1>3, <1>4

(* As long as nobody changed the records of a name since the sync began to *)
(* list, what it holds about that name is what the zone says of it.        *)
SyncSoFar(c, n) ==
    /\ pc[c] = "scanTxt" => /\ EntriesOf(me[c].sure, n) = EntriesOf(Named, n)
                            /\ EntriesOf(me[c].maybe, n) = EntriesOf(Flat, n)
    /\ pc[c] \in {"syncRead", "syncWrite"} =>
          EntriesOf(me[c].sure, n) = EntriesOf(Named \cup WithCompanion, n)

SyncInv == \A c \in Clients : \A n \in Untouched(c) : SyncSoFar(c, n)

LEMMA SameRecords ==
    ASSUME NEW n \in Names, RecordsOf(n)' = RecordsOf(n)
    PROVE  /\ EntriesOf(Named, n)' = EntriesOf(Named, n)
           /\ EntriesOf(Flat, n)' = EntriesOf(Flat, n)
           /\ EntriesOf(Named \cup WithCompanion, n)' =
                 EntriesOf(Named \cup WithCompanion, n)
<1>1. /\ svcb'[n] = svcb[n] /\ txt'[n] = txt[n]
      /\ alias' \cap {n} = alias \cap {n}
      /\ {l \in legacy' : l[1][1] = n} = {l \in legacy : l[1][1] = n}
  BY DEF RecordsOf
<1>2. n \in alias' <=> n \in alias
  BY <1>1
<1>3. ASSUME NEW e, e[1] = n PROVE <<e, "SVCB">> \in legacy' <=> <<e, "SVCB">> \in legacy
  <2>1. <<e, "SVCB">>[1][1] = n
    BY <1>3
  <2>2. /\ <<e, "SVCB">> \in legacy' <=> <<e, "SVCB">> \in {l \in legacy' : l[1][1] = n}
        /\ <<e, "SVCB">> \in legacy <=> <<e, "SVCB">> \in {l \in legacy : l[1][1] = n}
    BY <2>1
  <2>3. QED
    BY <1>1, <2>2
<1>4. /\ EntriesOf(NamedIn(svcb', alias', legacy'), n) =
            EntriesOf(NamedIn(svcb, alias, legacy), n)
      /\ EntriesOf(FlatEntries(svcb', alias', legacy'), n) =
            EntriesOf(FlatEntries(svcb, alias, legacy), n)
  BY <1>1, <1>2, <1>3, SameListings
<1>5. EntriesOf(Named', n) = EntriesOf(Named, n) /\ EntriesOf(Flat', n) = EntriesOf(Flat, n)
  BY <1>4 DEF Named, Flat
<1>6. EntriesOf(Named' \cup WithCompanion', n) = EntriesOf(Named \cup WithCompanion, n)
  BY <1>1, <1>5 DEF EntriesOf, WithCompanion
<1>7. QED
  BY <1>5, <1>6 DEF EntriesOf

(* A step of another client that leaves a name untouched, in the eyes of a *)
(* sync under way, changes none of its records.                            *)
LEMMA StepTouches ==
    ASSUME TypeOK, NEW d \in Clients, Start(d) \/ Step(d) \/ Stop(d)
    PROVE  \/ Wrote(d)
           \/ /\ UNCHANGED <<svcb, txt, alias, legacy>>
              /\ \A c \in Clients \ {d} : touched'[c] = touched[c]
<1>1. CASE Start(d) \/ Stop(d) \/ ZoneExists(d)
  BY <1>1 DEF Start, Stop, ZoneExists, NoWrite, zoneVars
<1>2. CASE PublishStep(d)
  BY <1>2 DEF PublishStep, PutNative, PutSvcb, PutTxt, PutAlias
<1>3. CASE UnpublishStep(d)
  BY <1>3 DEF UnpublishStep, ProbeSvcb, ProbeTxt, Probe, DeleteSvcb, DeleteTxt,
     DeleteAlias, DeleteLegacySvcb, DeleteLegacyTxt, DeleteLegacy, NoWrite, zoneVars
<1>4. CASE IndexRead(d) \/ SyncRead(d) \/ ScanTxt(d)
  BY <1>4 DEF IndexRead, SyncRead, ReadIndex, ScanTxt, NoWrite, zoneVars
<1>5. CASE IndexWrite(d)
  BY <1>5 DEF IndexWrite
<1>6. CASE ScanSvcb(d) \/ SyncWrite(d)
  <2>1. touched' = [touched EXCEPT ![d] = {}] /\ UNCHANGED <<svcb, txt, alias, legacy>>
    BY <1>6 DEF ScanSvcb, SyncWrite, NoWrite, zoneVars
  <2>2. QED
    BY <2>1 DEF TypeOK
<1>7. QED
  BY <1>1, <1>2, <1>3, <1>4, <1>5, <1>6 DEF Step, IndexStep

LEMMA BystanderSync ==
    ASSUME TypeOK, SyncInv, NEW d \in Clients, Start(d) \/ Step(d) \/ Stop(d),
           NEW c \in Clients \ {d}, NEW n \in Untouched(c)'
    PROVE  SyncSoFar(c, n)'
<1>1. me'[c] = me[c] /\ pc'[c] = pc[c]
  BY StartIsMine, StepIsPolite DEF OnlyMine, Polite
<1>2. SUFFICES ASSUME pc[c] \in SyncUnderway PROVE SyncSoFar(c, n)'
  BY <1>1 DEF SyncSoFar, SyncUnderway
<1>3. n \in Names /\ n \notin touched'[c]
  BY DEF Untouched
<1>4. n \notin touched[c] /\ RecordsOf(n)' = RecordsOf(n)
  <2>1. CASE Wrote(d)
    <3>1. touched'[c] = touched[c] \cup Changed
      BY <1>2, <2>1 DEF Wrote
    <3>2. QED
      BY <1>3, <3>1 DEF Changed
  <2>2. CASE /\ UNCHANGED <<svcb, txt, alias, legacy>>
             /\ touched'[c] = touched[c]
    BY <1>3, <2>2 DEF RecordsOf
  <2>3. QED
    BY <2>1, <2>2, StepTouches
<1>5. SyncSoFar(c, n)
  BY <1>3, <1>4 DEF SyncInv, Untouched
<1>6. /\ EntriesOf(Named, n)' = EntriesOf(Named, n)
      /\ EntriesOf(Flat, n)' = EntriesOf(Flat, n)
      /\ EntriesOf(Named \cup WithCompanion, n)' =
            EntriesOf(Named \cup WithCompanion, n)
  BY <1>3, <1>4, SameRecords
<1>7. QED
  BY <1>1, <1>5, <1>6 DEF SyncSoFar, EntriesOf

(* The only ways into the calls that use what was read.                    *)
LEMMA OnlyReadsLeadOn ==
    ASSUME TypeOK, NEW c \in Clients, Step(c) \/ Stop(c),
           pc'[c] \in SyncUnderway \cup {"idxWrite"}
    PROVE  \/ IndexRead(c) /\ pc'[c] = "idxWrite"
           \/ ScanSvcb(c) /\ pc'[c] = "scanTxt"
           \/ ScanTxt(c) /\ pc'[c] = "syncRead"
           \/ SyncRead(c) /\ pc'[c] = "syncWrite"
<1>1. ASSUME NEW step, Goto(c, step) PROVE pc'[c] = step
  BY <1>1 DEF Goto, TypeOK
<1>2. \A o : ~ End(c, o)
  BY <1>1 DEF End, SyncUnderway
<1>3. ~ ZoneExists(c)
  BY <1>1, <1>2 DEF ZoneExists, FirstCall, SyncUnderway
<1>4. ~ PublishStep(c)
  BY <1>1, <1>2 DEF PublishStep, PutNative, PutSvcb, PutTxt, PutAlias, Published, SyncUnderway
<1>5. ~ UnpublishStep(c)
  <2>1. \A said : ~ DeletedPrimary(c, said, "delTxt") /\ ~ DeletedPrimary(c, said, "delAlias")
    BY <1>1, <1>2 DEF DeletedPrimary, SyncUnderway
  <2>2. \A flags : ~ Decided(c, flags)
    BY <1>1, <1>2 DEF Decided, SyncUnderway
  <2>3. ~ (ProbeSvcb(c) \/ ProbeTxt(c))
    BY <1>1, <1>2 DEF ProbeSvcb, ProbeTxt, Probe, SyncUnderway
  <2>4. ~ (DeleteSvcb(c) \/ DeleteTxt(c) \/ DeleteAlias(c))
    BY <1>1, <2>1 DEF DeleteSvcb, DeleteTxt, DeleteAlias, SyncUnderway
  <2>5. ~ (DeleteLegacySvcb(c) \/ DeleteLegacyTxt(c))
    BY <1>1, <2>2 DEF DeleteLegacySvcb, DeleteLegacyTxt, DeleteLegacy, SyncUnderway
  <2>6. QED
    BY <2>3, <2>4, <2>5 DEF UnpublishStep
<1>6. ~ Stop(c)
  BY <1>2 DEF Stop
<1>7. IndexStep(c)
  BY <1>3, <1>4, <1>5, <1>6 DEF Step
<1>8. ~ IndexWrite(c) /\ ~ SyncWrite(c)
  BY <1>1, <1>2 DEF IndexWrite, SyncWrite, SyncUnderway
<1>9. /\ IndexRead(c) => pc'[c] = "idxWrite"
      /\ SyncRead(c) => pc'[c] = "syncWrite"
      /\ ScanSvcb(c) => pc'[c] = "scanTxt"
      /\ ScanTxt(c) => pc'[c] = "syncRead"
  BY <1>1, <1>2 DEF IndexRead, SyncRead, ReadIndex, ScanSvcb, ScanTxt
<1>10. QED
  BY <1>7, <1>8, <1>9 DEF IndexStep

(* The steps of the sync itself.                                           *)
LEMMA ScanSvcbSync ==
    ASSUME TypeOK, NEW c \in Clients, ScanSvcb(c), pc'[c] = "scanTxt",
           NEW n \in Untouched(c)'
    PROVE  SyncSoFar(c, n)'
<1>1. ~ End(c, "failed")
  BY EndIsMine
<1>2. Goto(c, "scanTxt")
  BY <1>1 DEF ScanSvcb
<1>3. me'[c].sure = Named /\ me'[c].maybe = Flat
  <2>1. me' = [me EXCEPT ![c].sure = Named, ![c].maybe = Flat]
    BY <1>1 DEF ScanSvcb, Named, NamedIn, Flat
  <2>2. PICK S, T : /\ me' = [me EXCEPT ![c].sure = S, ![c].maybe = T]
                    /\ S = Named /\ T = Flat
    BY <2>1
  <2>3. me'[c].sure = S /\ me'[c].maybe = T
    BY <1>2, <2>2, FoundIsMine
  <2>4. QED
    BY <2>2, <2>3
<1>4. UNCHANGED <<svcb, txt, alias, legacy>> /\ n \in Names
  BY DEF ScanSvcb, NoWrite, zoneVars, Untouched
<1>5. EntriesOf(Named, n)' = EntriesOf(Named, n) /\ EntriesOf(Flat, n)' = EntriesOf(Flat, n)
  BY <1>4, SameRecords DEF RecordsOf
<1>6. QED
  BY <1>3, <1>5 DEF SyncSoFar, EntriesOf

LEMMA ScanTxtSync ==
    ASSUME TypeOK, SyncInv, NEW c \in Clients, ScanTxt(c), pc'[c] = "syncRead",
           NEW n \in Untouched(c)'
    PROVE  SyncSoFar(c, n)'
<1>. DEFINE found == me[c].sure \cup {e \in me[c].maybe : txt[e[1]] # None}
<1>1. ~ End(c, "failed")
  BY EndIsMine
<1>2. Goto(c, "syncRead")
  BY <1>1 DEF ScanTxt
<1>3. me'[c].sure = found
  <2>1. me' = [me EXCEPT ![c].sure = found, ![c].maybe = {}]
    BY <1>1 DEF ScanTxt
  <2>. HIDE DEF found
  <2>2. PICK S, T : /\ me' = [me EXCEPT ![c].sure = S, ![c].maybe = T]
                    /\ S = found /\ T = {}
    BY <2>1
  <2>3. me'[c].sure = S /\ me'[c].maybe = T
    BY <1>2, <2>2, FoundIsMine
  <2>4. QED
    BY <2>2, <2>3
<1>4. UNCHANGED <<svcb, txt, alias, legacy, touched>> /\ pc[c] = "scanTxt"
  BY DEF ScanTxt, NoWrite, zoneVars
<1>5. n \in Names /\ SyncSoFar(c, n)
  BY <1>4 DEF SyncInv, Untouched
<1>6. /\ EntriesOf(me[c].sure, n) = EntriesOf(Named, n)
      /\ EntriesOf(me[c].maybe, n) = EntriesOf(Flat, n)
  BY <1>4, <1>5 DEF SyncSoFar
<1>7. EntriesOf(found, n) = EntriesOf(Named \cup WithCompanion, n)
  BY <1>6 DEF EntriesOf, WithCompanion
<1>8. EntriesOf(Named \cup WithCompanion, n)' = EntriesOf(Named \cup WithCompanion, n)
  BY <1>4, <1>5, SameRecords DEF RecordsOf
<1>9. EntriesOf(me[c].sure, n)' = EntriesOf(found, n)
  BY <1>3 DEF EntriesOf
<1>10. QED
  BY <1>7, <1>8, <1>9 DEF SyncSoFar

LEMMA SyncReadSync ==
    ASSUME TypeOK, SyncInv, NEW c \in Clients, SyncRead(c), pc'[c] = "syncWrite",
           NEW n \in Untouched(c)'
    PROVE  SyncSoFar(c, n)'
<1>1. PICK S : me' = [me EXCEPT ![c].seen = S]
  BY DEF SyncRead, ReadIndex
<1>2. /\ UNCHANGED <<svcb, txt, alias, legacy, touched>> /\ pc[c] = "syncRead"
      /\ Goto(c, "syncWrite")
  BY DEF SyncRead, ReadIndex, NoWrite, zoneVars
<1>3. me'[c].sure = me[c].sure
  BY <1>1, <1>2, ReadIsMine
<1>4. n \in Names /\ SyncSoFar(c, n)
  BY <1>2 DEF SyncInv, Untouched
<1>5. EntriesOf(Named \cup WithCompanion, n)' = EntriesOf(Named \cup WithCompanion, n)
  BY <1>2, <1>4, SameRecords DEF RecordsOf
<1>6. EntriesOf(me[c].sure, n)' = EntriesOf(me[c].sure, n)
  BY <1>3 DEF EntriesOf
<1>7. QED
  BY <1>2, <1>4, <1>5, <1>6 DEF SyncSoFar

LEMMA NextSync == TypeOK /\ SyncInv /\ [Next]_vars => SyncInv'
<1>1. ASSUME SyncInv, UNCHANGED vars PROVE SyncInv'
  BY <1>1 DEF SyncInv, SyncSoFar, Untouched, EntriesOf, Named, NamedIn, Flat,
     WithCompanion, vars, zoneVars
<1>2. ASSUME TypeOK, SyncInv, NEW d \in Clients, Start(d) \/ Step(d) \/ Stop(d)
      PROVE  SyncInv'
  <2>1. ASSUME NEW c \in Clients, NEW n \in Untouched(c)' PROVE SyncSoFar(c, n)'
    <3>1. CASE c # d
      BY <1>2, <2>1, <3>1, BystanderSync
    <3>2. CASE c = d /\ pc'[c] \notin SyncUnderway
      BY <3>2 DEF SyncSoFar, SyncUnderway
    <3>3. CASE c = d /\ pc'[c] \in SyncUnderway
      <4>1. ~ Start(c)
        BY <1>2, <3>3, StartIsMine DEF SyncUnderway
      <4>2. \/ ScanSvcb(c) /\ pc'[c] = "scanTxt"
            \/ ScanTxt(c) /\ pc'[c] = "syncRead"
            \/ SyncRead(c) /\ pc'[c] = "syncWrite"
        BY <1>2, <3>3, <4>1, OnlyReadsLeadOn DEF SyncUnderway
      <4>3. QED
        BY <1>2, <2>1, <4>2, ScanSvcbSync, ScanTxtSync, SyncReadSync
    <3>4. QED
      BY <3>1, <3>2, <3>3
  <2>2. QED
    BY <2>1 DEF SyncInv
<1>3. QED
  BY <1>1, <1>2 DEF Next

(* Beside any other operators and under any faults, a sync that reports    *)
(* success leaves the index, name by name, as the zone enumerates it, for  *)
(* every name whose records did not change since it began to list; the one *)
(* exception is an index it could not read, or found empty, when it has    *)
(* found none of those names either: then it leaves the index as it is.    *)
THEOREM SyncIsExactNameByName == Spec => SyncIsExact
<1>1. Init => SyncInv
  BY DEF Init, SyncInv, SyncSoFar
<1>2. ASSUME TypeOK, SyncInv, Next, NEW c \in Clients, SyncReports(c)
      PROVE  \/ \A n \in Untouched(c) : EntriesOf(index', n) = EntriesOf(Discoverable, n)
             \/ NothingSeen(c) /\ index' = index
  <2>1. pc[c] = "syncWrite" /\ pc'[c] = "idle" /\ me'[c].outcome = "ok"
    BY <1>2 DEF SyncReports
  <2>2. PICK d \in Clients : Start(d) \/ Step(d) \/ Stop(d)
    BY <1>2 DEF Next
  <2>3. d = c
    BY <1>2, <2>1, <2>2, StartIsMine, StepIsPolite DEF OnlyMine, Polite
  <2>4. ~ Stop(c)
    BY <1>2, <2>1, EndIsMine DEF Stop
  <2>5. SyncWrite(c)
    BY <2>1, <2>2, <2>3, <2>4
       DEF Start, Step, PublishStep, UnpublishStep, IndexStep, ZoneExists, PutNative,
           PutSvcb, PutTxt, PutAlias, ProbeSvcb, ProbeTxt, Probe, DeleteSvcb, DeleteTxt,
           DeleteAlias, DeleteLegacySvcb, DeleteLegacyTxt, DeleteLegacy, IndexRead,
           IndexWrite, ScanSvcb, ScanTxt, SyncRead, ReadIndex
  <2>6. ASSUME NEW n \in Untouched(c)
        PROVE  EntriesOf(me[c].sure, n) = EntriesOf(Discoverable, n)
    BY <1>2, <2>1, <2>6, ListingsAreExact DEF SyncInv, SyncSoFar
  <2>7. CASE me[c].sure \cup me[c].seen = {}
    <3>1. index' = index /\ me[c].seen = {} /\ me[c].sure = {}
      BY <2>5, <2>7 DEF SyncWrite
    <3>2. \A n \in Untouched(c) : EntriesOf(Discoverable, n) = {}
      BY <2>6, <3>1 DEF EntriesOf
    <3>3. QED
      BY <3>1, <3>2 DEF NothingSeen
  <2>8. CASE me[c].sure \cup me[c].seen # {}
    <3>1. PICK ok, applied \in BOOLEAN : /\ Created(ok, applied)
                                         /\ index' = IF applied THEN me[c].sure ELSE index
                                         /\ End(c, IF ok THEN "ok" ELSE "failed")
      BY <2>5, <2>8 DEF SyncWrite
    <3>2. ok
      BY <1>2, <2>1, <3>1, EndIsMine
    <3>3. index' = me[c].sure
      BY <3>1, <3>2 DEF Created
    <3>4. QED
      BY <2>6, <3>3
  <2>9. QED
    BY <2>7, <2>8
<1>. DEFINE Exact == \A c \in Clients : SyncReports(c) =>
                \/ \A n \in Untouched(c) : EntriesOf(index', n) = EntriesOf(Discoverable, n)
                \/ NothingSeen(c) /\ index' = index
<1>3. TypeOK /\ SyncInv /\ [Next]_vars => [Exact]_vars
  BY <1>2
<1>4. QED
  BY <1>1, <1>3, NextSync, InitType, NextType, PTL DEF Spec, SyncIsExact

-----------------------------------------------------------------------------
(* update_index(): nobody's entry but the agent's own.                     *)

(* A sync never runs the index update of a publish or an unpublish.        *)
KindInv == \A c \in Clients :
    me[c].kind = "sync" => pc[c] \in SyncCalls \cup {"zone", "idle"}

LEMMA StepKind ==
    ASSUME TypeOK, KindInv, NEW c \in Clients, Step(c) \/ Stop(c), me[c].kind = "sync"
    PROVE  pc'[c] \in SyncCalls \cup {"zone", "idle"}
<1>1. pc[c] \in SyncCalls \cup {"zone", "idle"}
  BY DEF KindInv
<1>2. ASSUME NEW step, Goto(c, step) PROVE pc'[c] = step
  BY <1>2 DEF Goto, TypeOK
<1>3. ASSUME NEW o, End(c, o) PROVE pc'[c] = "idle"
  BY <1>2, <1>3 DEF End
<1>4. CASE ZoneExists(c)
  BY <1>2, <1>3, <1>4 DEF ZoneExists, FirstCall, SyncCalls
<1>5. ~ PublishStep(c)
  BY <1>1 DEF PublishStep, PutNative, PutSvcb, PutTxt, PutAlias, SyncCalls
<1>6. ~ UnpublishStep(c)
  BY <1>1, UnpublishStepsAt DEF UnpublishCalls, SyncCalls
<1>7. CASE IndexStep(c)
  <2>1. ~ IndexRead(c) /\ ~ IndexWrite(c)
    BY <1>1 DEF IndexRead, ReadIndex, IndexWrite, SyncCalls
  <2>2. CASE ScanSvcb(c) \/ ScanTxt(c)
    BY <1>2, <1>3, <2>2 DEF ScanSvcb, ScanTxt, SyncCalls
  <2>3. CASE SyncRead(c) \/ SyncWrite(c)
    BY <1>2, <1>3, <2>3 DEF SyncRead, ReadIndex, SyncWrite, SyncCalls
  <2>4. QED
    BY <1>7, <2>1, <2>2, <2>3 DEF IndexStep
<1>8. CASE Stop(c)
  BY <1>3, <1>8 DEF Stop
<1>9. QED
  BY <1>4, <1>5, <1>6, <1>7, <1>8 DEF Step

LEMMA NextKind == TypeOK /\ KindInv /\ [Next]_vars => KindInv'
<1>1. ASSUME KindInv, UNCHANGED vars PROVE KindInv'
  BY <1>1 DEF KindInv, vars
<1>2. ASSUME TypeOK, KindInv, NEW d \in Clients, Start(d) PROVE KindInv'
  BY <1>2, StartIsMine DEF KindInv, OnlyMine
<1>3. ASSUME TypeOK, KindInv, NEW d \in Clients, Step(d) \/ Stop(d) PROVE KindInv'
  <2>1. OnlyMine(d) /\ me'[d].kind = me[d].kind
    BY <1>3, StepIsPolite DEF Polite
  <2>2. me[d].kind = "sync" => pc'[d] \in SyncCalls \cup {"zone", "idle"}
    BY <1>3, StepKind
  <2>3. QED
    BY <1>3, <2>1, <2>2 DEF KindInv, OnlyMine
<1>4. QED
  BY <1>1, <1>2, <1>3 DEF Next

(* What was read of the index is the index, until it is written back.      *)
CurrentInv ==
    /\ \A c \in Clients : alone[c] /\ pc[c] = "idxWrite" => me[c].seen = index
    /\ \A c \in Clients : pc[c] # "idle" => alone[c]

LEMMA NextCurrent ==
    ASSUME "read" \notin FaultKinds, \A c \in Clients, d \in Clients : c = d
    PROVE  TypeOK /\ CurrentInv /\ [Next]_vars => CurrentInv'
<1>1. ASSUME CurrentInv, UNCHANGED vars PROVE CurrentInv'
  BY <1>1 DEF CurrentInv, vars, zoneVars
<1>2. ASSUME TypeOK, CurrentInv, NEW c \in Clients, Start(c) PROVE CurrentInv'
  <2>1. pc'[c] = "zone" /\ alone'[c]
    BY <1>2 DEF Start, Goto, TypeOK
  <2>2. QED
    BY <2>1 DEF CurrentInv
<1>3. ASSUME TypeOK, CurrentInv, NEW c \in Clients, Step(c) \/ Stop(c) PROVE CurrentInv'
  <2>1. pc'[c] # "idle" => alone'[c]
    <3>1. pc[c] # "idle"
      BY <1>3 DEF Step, PublishStep, UnpublishStep, IndexStep, Stop, ZoneExists, PutNative,
             PutSvcb, PutTxt, PutAlias, ProbeSvcb, ProbeTxt, Probe, DeleteSvcb, DeleteTxt,
             DeleteAlias, DeleteLegacySvcb, DeleteLegacyTxt, DeleteLegacy, IndexRead,
             IndexWrite, ScanSvcb, ScanTxt, SyncRead, ReadIndex, SyncWrite
    <3>2. alone[c]
      BY <1>3, <3>1 DEF CurrentInv
    <3>3. NoWrite \/ Wrote(c) \/ alone' = [d \in Clients |-> d = c /\ alone[d]] \/ alone' = alone
      BY <1>3 DEF Step, PublishStep, UnpublishStep, IndexStep, Stop, ZoneExists, PutNative,
             PutSvcb, PutTxt, PutAlias, ProbeSvcb, ProbeTxt, Probe, DeleteSvcb, DeleteTxt,
             DeleteAlias, DeleteLegacySvcb, DeleteLegacyTxt, DeleteLegacy, IndexRead,
             IndexWrite, ScanSvcb, ScanTxt, SyncRead, ReadIndex, SyncWrite
    <3>4. QED
      BY <3>2, <3>3 DEF NoWrite, Wrote
  <2>2. ASSUME pc'[c] = "idxWrite" PROVE me'[c].seen = index'
    <3>1. IndexRead(c)
      BY <1>3, <2>2, OnlyReadsLeadOn
    <3>2. /\ Goto(c, "idxWrite") /\ index' = index
          /\ me' = [me EXCEPT ![c].seen = index]
      BY <3>1 DEF IndexRead, ReadIndex, NoWrite, zoneVars, Reads, Fault
    <3>3. QED
      BY <1>3, <3>2, ReadIsMine
  <2>3. QED
    BY <2>1, <2>2 DEF CurrentInv
<1>4. QED
  BY <1>1, <1>2, <1>3 DEF Next

LEMMA OnlyIndexWritesRelist ==
    ASSUME NEW c \in Clients, Start(c) \/ Step(c) \/ Stop(c), index' # index
    PROVE  IndexWrite(c) \/ SyncWrite(c)
BY DEF Start, Step, PublishStep, UnpublishStep, IndexStep, Stop, ZoneExists, PutNative,
       PutSvcb, PutTxt, PutAlias, ProbeSvcb, ProbeTxt, Probe, DeleteSvcb, DeleteTxt,
       DeleteAlias, DeleteLegacySvcb, DeleteLegacyTxt, DeleteLegacy, IndexRead,
       ScanSvcb, ScanTxt, SyncRead, ReadIndex, NoWrite, zoneVars

(* One operator, reads of the zone that work: an index update touches only *)
(* its own entry (core/indexer.py, update_index), whatever fails or is lost*)
(* on the way; only a sync drops others.  With a failed read_index, or     *)
(* another operator between the read and the write, the code promises less.*)
THEOREM IndexUpdateTouchesItsOwn ==
    ASSUME "read" \notin FaultKinds, \A c \in Clients, d \in Clients : c = d
    PROVE  Spec => NoCollateralLoss
<1>1. Init => CurrentInv
  BY DEF Init, CurrentInv
<1>2. Init => KindInv
  BY DEF Init, KindInv
<1>. DEFINE Named_ == \A e \in index \ index' : \E c \in Clients :
          \/ pc[c] = "syncWrite"
          \/ pc[c] = "idxWrite" /\ me[c].kind = "unpublish" /\ me[c].agent = e
<1>3. TypeOK /\ KindInv /\ CurrentInv /\ [Next]_vars => [Named_]_vars
  <2>. SUFFICES ASSUME TypeOK, KindInv, CurrentInv, Next, NEW e \in index \ index'
                PROVE  \E c \in Clients :
                         \/ pc[c] = "syncWrite"
                         \/ pc[c] = "idxWrite" /\ me[c].kind = "unpublish" /\ me[c].agent = e
    OBVIOUS
  <2>1. PICK c \in Clients : Start(c) \/ Step(c) \/ Stop(c)
    BY DEF Next
  <2>2. CASE SyncWrite(c)
    BY <2>2 DEF SyncWrite
  <2>3. CASE IndexWrite(c)
    <3>1. pc[c] = "idxWrite" /\ index' = Edited(me[c])
      BY <2>3 DEF IndexWrite
    <3>2. alone[c] /\ me[c].seen = index
      BY <3>1 DEF CurrentInv
    <3>3. me[c].kind # "sync"
      BY <3>1 DEF KindInv, SyncCalls
    <3>4. me[c].kind \in {"publish", "unpublish"}
      BY <3>3 DEF TypeOK, Local
    <3>5. QED
      BY <3>1, <3>2, <3>4 DEF Edited
  <2>4. QED
    BY <2>1, <2>2, <2>3, OnlyIndexWritesRelist
<1>4. QED
  BY <1>1, <1>2, <1>3, NextCurrent, NextKind, InitType, NextType, PTL
     DEF Spec, NoCollateralLoss
=============================================================================
