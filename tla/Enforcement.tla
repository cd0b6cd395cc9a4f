----------------------------- MODULE Enforcement -----------------------------
(***************************************************************************)
(* Publishing compiled policies: enforce and rollback of the command line  *)
(* (cli/main.py), publish_rpz_zone of the MCP server, on NIOS response     *)
(* policy zones (infoblox/nios.py) and on Threat Defense named lists and   *)
(* security policies (infoblox/bloxone.py).  Several operators share one   *)
(* response policy zone, the named lists and one security policy, and      *)
(* every request of theirs is a step that may fail.                        *)
(***************************************************************************)
EXTENDS Policies

CONSTANTS
  Operators,   \* the processes that enforce policies
  Documents,   \* the policy documents they enforce
  CallerNames, \* domains of callers
  ListNames,   \* the named lists, one per response policy zone
  NiosList,    \* the one whose zone is the NIOS zone here
  Actions,     \* the actions a list may be bound with (--td-action)
  MaxRequests, \* bound: operations started
  MaxFailures  \* bound: requests that fail

(* A list has a name, and the zone of one of them is the NIOS zone; a       *)
(* caller has a domain.                                                    *)
ASSUME EnforcementAssumption ==
  /\ NiosList \in ListNames /\ "" \notin ListNames
  /\ \A doc \in Documents : IsDocument(doc)
  /\ NoDomain \notin CallerNames /\ \A n \in CallerNames : IsName(n)
  /\ MaxRequests \in Nat /\ MaxFailures \in Nat

VARIABLES
  zoneMade, \* the response policy zone exists
  rpz,      \* the response policy zone: the action of each owner in it
  snapshot, \* per zone, the directives of the latest snapshot file, <<>> for none
  lists,    \* the named lists, in the order the API returns them
  policy,   \* the rules of the security policy, the first one evaluated first
  doing,    \* what each operator is at
  started, failures,
  version,  \* how often the security policy was written
  bound,    \* (ghost) per list, the binding nothing has excused losing
  undisturbed   \* (ghost) operators during whose operation nobody else wrote

enVars == <<zoneMade, rpz, snapshot, lists, policy, doing, started, failures, version, bound,
            undisturbed>>

NoDirectives == <<>>
Idle == [what |-> "idle", left |-> NoDirectives, all |-> NoDirectives, list |-> "", action |-> "",
         found |-> 0, read |-> <<>>, version |-> 0, errors |-> 0]
Unbound == [action |-> "", version |-> 0]
NoZone == [o \in {} |-> ""]

List(name, items) == [name |-> name, items |-> items]
Rule(list, action) == [data |-> list, action |-> action]

enInit ==
  /\ zoneMade = FALSE
  /\ rpz = NoZone
  /\ snapshot = [l \in ListNames |-> NoDirectives]
  /\ lists = <<>>
  /\ policy \in {<<>>, <<Rule("by hand", "action_allow")>>}
  /\ doing = [o \in Operators |-> Idle]
  /\ started = 0 /\ failures = 0
  /\ version = 1
  /\ bound = [l \in ListNames |-> Unbound]
  /\ undisturbed = {}

\* The steps of an operation; a write disturbs everybody else's.
To(o, state) == doing' = [doing EXCEPT ![o] = state]
Disturbs(o) == undisturbed' = undisturbed \cap {o}
Keep == undisturbed' = undisturbed
StoresSame == UNCHANGED <<zoneMade, rpz, lists, policy, version, bound>>

Begin(o, state) ==
  /\ doing[o].what \in {"idle", "done"}
  /\ started < MaxRequests
  /\ started' = started + 1
  /\ To(o, state)
  /\ undisturbed' = undisturbed \cup {o}
  /\ UNCHANGED <<zoneMade, rpz, lists, policy, failures, version, bound>>

(* enforce takes a snapshot of what it is about to push; publish_rpz_zone  *)
(* of the MCP server takes none.                                           *)
Saved(list, directives) == [snapshot EXCEPT ![list] = directives]
Latest(list) == snapshot[list]

StartNios(o, doc, saves) ==
  LET directives == Compiled(doc, FALSE) IN
  /\ Begin(o, [Idle EXCEPT !.what = "ensure", !.left = directives, !.all = directives])
  /\ snapshot' = IF saves THEN Saved(NiosList, directives) ELSE snapshot

(* policy rollback: the latest snapshot of the zone is pushed. *)
RollbackNios(o) ==
  /\ Latest(NiosList) # NoDirectives
  /\ Begin(o, [Idle EXCEPT !.what = "ensure", !.left = Latest(NiosList),
                           !.all = Latest(NiosList)])
  /\ UNCHANGED <<snapshot>>

(* ensure_rpz_zone: look, create if it is missing. *)
EnsureZone(o) ==
  /\ doing[o].what = "ensure"
  /\ zoneMade' = TRUE
  /\ To(o, [doing[o] EXCEPT !.what = "look"])
  /\ Keep
  /\ UNCHANGED <<rpz, snapshot, lists, policy, started, failures, version, bound>>

(* create_rpz_cname_record: the record is looked up, then changed if it was *)
(* there, created if not; the zone refuses a second record of an owner and  *)
(* a change of one that is gone.                                            *)
Current(o) == Head(doing[o].left)
NextRecord(o, errors) == [doing[o] EXCEPT !.left = Tail(@), !.what = "look", !.found = 0,
                                     !.errors = @ + errors]

LookRecord(o) ==
  /\ doing[o].what = "look" /\ doing[o].left # <<>>
  /\ To(o, [doing[o] EXCEPT !.what = "put",
                            !.found = IF Current(o).owner \in DOMAIN rpz THEN 1 ELSE 0])
  /\ Keep
  /\ UNCHANGED <<snapshot, started, failures>> /\ StoresSame

\* NIOS knows two actions: pass through, or no such domain.
Canonical(action) == IF action = "PASSTHRU" THEN "PASSTHRU" ELSE "NXDOMAIN"

Stored(zone, d) ==
  [w \in DOMAIN zone \cup {d.owner} |-> IF w = d.owner THEN Canonical(d.action) ELSE zone[w]]

PutRecord(o) ==
  LET there == Current(o).owner \in DOMAIN rpz IN
  /\ doing[o].what = "put"
  /\ IF there = (doing[o].found = 1)
     THEN rpz' = Stored(rpz, Current(o)) /\ To(o, NextRecord(o, 0)) /\ Disturbs(o)
     ELSE rpz' = rpz /\ To(o, NextRecord(o, 1)) /\ Keep
  /\ UNCHANGED <<zoneMade, snapshot, lists, policy, started, failures, version, bound>>

(* A failed look-up or write of one record is counted; the push goes on. *)
Counted_Not(o) == NextRecord(o, 0)
Counted(o) == NextRecord(o, 1)

RecordFails(o) ==
  /\ doing[o].what \in {"look", "put"} /\ doing[o].left # <<>>
  /\ failures < MaxFailures
  /\ failures' = failures + 1
  /\ To(o, Counted(o))
  /\ Keep
  /\ UNCHANGED <<snapshot, started>> /\ StoresSame

PushEnds(o) ==
  /\ doing[o].what = "look" /\ doing[o].left = <<>>
  /\ To(o, [doing[o] EXCEPT !.what = "done"])
  /\ Keep
  /\ UNCHANGED <<snapshot, started, failures>> /\ StoresSame

(* Any other failed request ends the operation with an error. *)
RequestFails(o) ==
  /\ doing[o].what \in {"ensure", "lists", "list", "policy", "rules"}
  /\ failures < MaxFailures
  /\ failures' = failures + 1
  /\ To(o, Idle)
  /\ Keep
  /\ UNCHANGED <<snapshot, started>> /\ StoresSame

(* enforce and publish_rpz_zone on Threat Defense: create or update the    *)
(* list, then bind it; a rollback only restores the list.                  *)
StartTd(o, doc, list, action, saves) ==
  LET directives == Compiled(doc, FALSE) IN
  /\ Begin(o, [Idle EXCEPT !.what = "lists", !.all = directives, !.list = list, !.action = action])
  /\ snapshot' = IF saves THEN Saved(list, directives) ELSE snapshot

RollbackTd(o, list) ==
  /\ Latest(list) # NoDirectives
  /\ Begin(o, [Idle EXCEPT !.what = "lists", !.all = Latest(list), !.list = list,
                           !.action = "rollback"])
  /\ UNCHANGED <<snapshot>>

(* create_or_update_named_list: all lists are read, the first of the name *)
(* is replaced; if there was none, one is added.                          *)
FirstOf(name) ==
  LET at == {i \in DOMAIN lists : lists[i].name = name} IN
  IF at = {} THEN 0 ELSE CHOOSE i \in at : \A j \in at : i <= j

ReadLists(o) ==
  /\ doing[o].what = "lists"
  /\ To(o, [doing[o] EXCEPT !.what = "list", !.found = FirstOf(doing[o].list)])
  /\ Keep
  /\ UNCHANGED <<snapshot, started, failures>> /\ StoresSame

WriteList(o) ==
  LET new == List(doing[o].list, Listed(doing[o].all)) IN
  /\ doing[o].what = "list"
  /\ lists' = IF doing[o].found = 0 THEN Append(lists, new)
              ELSE [lists EXCEPT ![doing[o].found] = new]
  /\ To(o, [doing[o] EXCEPT !.what = IF doing[o].action = "rollback" THEN "done" ELSE "policy"])
  /\ Disturbs(o)
  /\ UNCHANGED <<zoneMade, rpz, snapshot, policy, started, failures, version, bound>>

(* bind_named_list_to_policy: the policy is read; a rule of this list with *)
(* this action ends it, otherwise the whole policy is written back with a  *)
(* new first rule and without the list's other rules.                      *)
Alone(rules, list) == Pick(rules, {i \in DOMAIN rules : rules[i].data # list})
Rebound(rules, list, action) == <<Rule(list, action)>> \o Alone(rules, list)

BoundAt(o, v) == [bound EXCEPT ![doing[o].list] = [action |-> doing[o].action, version |-> v]]

ReadPolicy(o) ==
  LET rule == Rule(doing[o].list, doing[o].action) IN
  /\ doing[o].what = "policy"
  /\ Keep
  /\ IF rule \in ToSet(policy)
     THEN To(o, [doing[o] EXCEPT !.what = "done"]) /\ bound' = BoundAt(o, version)
     ELSE /\ To(o, [doing[o] EXCEPT !.what = "rules", !.read = policy, !.version = version])
          /\ bound' = bound
  /\ UNCHANGED <<zoneMade, rpz, snapshot, lists, policy, started, failures, version>>

\* What a write of the whole policy takes although its reader could not know.
Excused(o, kept) ==
  [l \in ListNames |-> IF kept[l].version > doing[o].version THEN Unbound ELSE kept[l]]

WritePolicy(o) ==
  /\ doing[o].what = "rules" /\ doing[o].action # "unbind"
  /\ policy' = Rebound(doing[o].read, doing[o].list, doing[o].action)
  /\ version' = version + 1
  /\ bound' = [Excused(o, bound) EXCEPT
                 ![doing[o].list] = [action |-> doing[o].action, version |-> version + 1]]
  /\ To(o, [doing[o] EXCEPT !.what = "done", !.read = <<>>])
  /\ Disturbs(o)
  /\ UNCHANGED <<zoneMade, rpz, snapshot, lists, started, failures>>

(* unbind_named_list_from_policy *)
Unbind(o, list) ==
  /\ Begin(o, [Idle EXCEPT !.what = "unbind", !.list = list, !.action = "unbind"])
  /\ UNCHANGED <<snapshot>>

ReadForUnbind(o) ==
  /\ doing[o].what = "unbind"
  /\ To(o, IF doing[o].list \in {policy[i].data : i \in DOMAIN policy}
           THEN [doing[o] EXCEPT !.what = "rules", !.read = policy, !.version = version]
           ELSE Idle)
  /\ Keep
  /\ UNCHANGED <<snapshot, started, failures>> /\ StoresSame

WriteUnbound(o) ==
  /\ doing[o].what = "rules" /\ doing[o].action = "unbind"
  /\ policy' = Alone(doing[o].read, doing[o].list)
  /\ version' = version + 1
  /\ bound' = [Excused(o, bound) EXCEPT ![doing[o].list] = Unbound]
  /\ To(o, Idle)
  /\ Disturbs(o)
  /\ UNCHANGED <<zoneMade, rpz, snapshot, lists, started, failures>>

(* delete_rpz_cname_record: looked up, then deleted.  Between the two the  *)
(* record can only change its action.                                      *)
DeleteRecord(o, owner) ==
  /\ doing[o].what = "idle"
  /\ owner \in DOMAIN rpz
  /\ started < MaxRequests
  /\ started' = started + 1
  /\ rpz' = [w \in DOMAIN rpz \ {owner} |-> rpz[w]]
  /\ Disturbs(o)
  /\ UNCHANGED <<zoneMade, snapshot, lists, policy, doing, failures, version, bound>>

enNiosNext ==
  \E o \in Operators :
    \/ \E doc \in Documents, saves \in BOOLEAN : StartNios(o, doc, saves)
    \/ RollbackNios(o)
    \/ EnsureZone(o)
    \/ LookRecord(o)
    \/ PutRecord(o)
    \/ RecordFails(o)
    \/ PushEnds(o)
    \/ \E owner \in DOMAIN rpz : DeleteRecord(o, owner)
    \/ RequestFails(o)

enTdNext ==
  \E o \in Operators :
    \/ \E list \in ListNames :
         \/ \E doc \in Documents, action \in Actions, saves \in BOOLEAN :
              StartTd(o, doc, list, action, saves)
         \/ RollbackTd(o, list)
         \/ Unbind(o, list)
    \/ ReadLists(o)
    \/ WriteList(o)
    \/ ReadPolicy(o)
    \/ WritePolicy(o)
    \/ ReadForUnbind(o)
    \/ WriteUnbound(o)
    \/ RequestFails(o)

enSpec == enInit /\ [][enNiosNext \/ enTdNext]_enVars

-----------------------------------------------------------------------------
enTypeOK ==
  /\ zoneMade \in BOOLEAN
  /\ \A w \in DOMAIN rpz : rpz[w] \in {"NXDOMAIN", "PASSTHRU"}
  /\ \A i \in DOMAIN lists : lists[i].name \in ListNames
  /\ started \in 0 .. MaxRequests /\ failures \in 0 .. MaxFailures
  /\ undisturbed \subseteq Operators

(* An operation that reports no error (cli/main.py:2676, mcp/server.py:1873 *)
(* and 1911), while nobody else wrote, is in force: every owner it pushed   *)
(* has the last action its directives give it, or its list holds exactly    *)
(* the blocked owners and is bound with the action asked for.               *)
LastFor(directives, owner) ==
  LET at == {i \in DOMAIN directives : directives[i].owner = owner} IN
  directives[CHOOSE i \in at : \A j \in at : j <= i]

InZone(o) ==
  \A i \in DOMAIN doing[o].all :
    LET owner == doing[o].all[i].owner IN
    owner \in DOMAIN rpz /\ rpz[owner] = Canonical(LastFor(doing[o].all, owner).action)

InList(o) ==
  LET first == FirstOf(doing[o].list) IN
  /\ first # 0 /\ lists[first].items = Listed(doing[o].all)
  /\ doing[o].action # "rollback" => Rule(doing[o].list, doing[o].action) \in ToSet(policy)

Reported(o) == o \in undisturbed /\ doing[o].what = "done" /\ doing[o].errors = 0

StoresHoldIt ==
  \A o \in Operators : Reported(o) => IF doing[o].list = "" THEN InZone(o) ELSE InList(o)

(* The zone that such an enforcement filled then refuses a caller exactly  *)
(* where the evaluator of the SDK and of the middleware does, for the same *)
(* document and all else fitting (compiler.py:191-259, evaluator.py:226),  *)
(* if the document is one that a zone can say.                             *)
LayersAgree ==
  \A o \in Operators, doc \in {d \in Documents : Expressible(d)}, layer \in {"caller", "target"} :
    (/\ Reported(o) /\ doing[o].list = "" /\ doing[o].all = Compiled(doc, FALSE)
     /\ DOMAIN rpz = {doing[o].all[i].owner : i \in DOMAIN doing[o].all})
      => \A n \in CallerNames :
           Blocks(rpz, n) <=> ~ Allowed(doc, n, [r \in doc.others |-> "fits"], layer)

EnforcedIsInForce == StoresHoldIt /\ LayersAgree

(* bind_named_list_to_policy (bloxone.py:967) leaves a list in one rule at *)
(* most, whatever its reads and writes of the policy interleave with.      *)
BoundOnce ==
  \A l \in ListNames : Cardinality({i \in DOMAIN policy : policy[i].data = l}) <= 1

(* A binding reported to an operator stays in the policy until its list is *)
(* bound anew or unbound, or another write of the whole policy that was    *)
(* prepared from a read before it takes it away (bloxone.py:947-987).      *)
RulesAreKept ==
  \A l \in ListNames :
    bound[l].version # 0 => Rule(l, bound[l].action) \in ToSet(policy)

=============================================================================
