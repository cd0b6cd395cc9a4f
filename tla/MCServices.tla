------------------------------ MODULE MCServices ------------------------------
(***************************************************************************)
(* One instance of each of the services that look before they write:       *)
(* domain control validation, the catalog pointer, policy enforcement and  *)
(* the rate limiter.  They share nothing, so a behaviour runs one of them. *)
(***************************************************************************)
EXTENDS Challenge, CatalogPointer, Enforcement, ServerPolicy

CONSTANTS Services  \* those of this run: "dcv", "pointer", "nios", "td", "limits"

VARIABLE service

\* What somebody left at the challenge owner: nothing, a challenge copied from
\* another zone, a record without expiry beside one without domain; an expiry
\* without offset or a text that is not UTF-8, beside a challenge in order.
byHand == {{}, {Record("a", "other", NoScope, 5)},
           {Record("a", "missing", NoScope, -1), Record("b", "missing", NoScope, 1)},
           {Record("a", "ours", NoScope, Naive), Record("b", "ours", NoScope, 1)},
           {Record("b", "unreadable", NoScope, Unreadable), Record("a", "ours", NoScope, 1)}}

evil == <<"net", "evil">>
ally == <<"org", "ally">>
agents == <<"net", "evil", "_agents", "a">>
\* request.caller_domain != "evil.net", denied where it is false.
notEvil == [form |-> "differs", name |-> evil, holds |-> TRUE, effect |-> "deny", layers |-> {}]
allowing == Document(<<Under(agents)>>, <<Exactly(evil)>>, <<>>, {})
mixed == Document(<<Under(agents)>>, <<>>, <<notEvil>>, {"availability"})
\* One name is blocked and allowed; a directive is left out as too broad.
torn == Document(<<Exactly(evil)>>, <<Exactly(evil), Under(evil)>>, <<>>, {})
policies == {allowing, mixed, torn}
callers == {evil, ally, agents, Append(agents, "x")}

svVars == <<service, chVars, cpVars, enVars, spVars>>

svInit ==
  /\ service \in Services
  /\ chInit /\ (service # "dcv" => owner = {})
  /\ cpInit /\ (service # "pointer" => pointer = [l \in ToSet(Labels) |-> Absent])
  /\ enInit /\ (service # "td" => policy = <<>>)
  /\ spInit

svNext ==
  \/ service = "dcv" /\ chNext /\ UNCHANGED <<service, cpVars, enVars, spVars>>
  \/ service = "pointer" /\ cpNext /\ UNCHANGED <<service, chVars, enVars, spVars>>
  \/ service = "nios" /\ enNiosNext /\ UNCHANGED <<service, chVars, cpVars, spVars>>
  \/ service = "td" /\ enTdNext /\ UNCHANGED <<service, chVars, cpVars, spVars>>
  \/ service = "limits" /\ spNext /\ UNCHANGED <<service, chVars, cpVars, enVars>>

svSpec == svInit /\ [][svNext]_svVars

(* Types of the four services' variables. *)
ServicesTypeOK == chTypeOK /\ cpTypeOK /\ enTypeOK /\ spTypeOK

(* What another party wrote is lost only to a write prepared before it:    *)
(* a placed challenge to another's revocation, a host on the index label   *)
(* to an unforced publication, a bound list to another binding.            *)
NothingForeignIsLost == PlacedIsVerified /\ IndexIsGuarded /\ RulesAreKept /\ BoundOnce
=============================================================================
