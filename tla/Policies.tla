------------------------------- MODULE Policies -------------------------------
(***************************************************************************)
(* Policy documents (src/dns_aid/sdk/policy): what the evaluator enforces  *)
(* at each layer, what the compiler turns into a response policy zone, and *)
(* what such a zone and a Threat Defense list answer for a caller's name.  *)
(* Operators only.  A domain name is the sequence of its labels from the   *)
(* root; a pattern is an exact name, the names under one, or every name.   *)
(***************************************************************************)
EXTENDS Integers, Sequences, FiniteSets, SequencesExt, Selection

Exactly(n) == [kind |-> "exact", name |-> n]
Under(n) == [kind |-> "under", name |-> n]
Everything == [kind |-> "all", name |-> <<>>]

Matches(p, n) ==
  \/ p.kind = "all"
  \/ p.kind = "exact" /\ n = p.name
  \/ p.kind = "under" /\ IsStrictPrefix(p.name, n)

MatchesAny(ps, n) == \E i \in DOMAIN ps : Matches(ps[i], n)

(***************************************************************************)
(* The evaluator.  A rule other than a list of domains is told apart by    *)
(* what the context says of it: nothing, something acceptable, or not.     *)
(***************************************************************************)
RuleLayers == [
  required_protocols |-> {"dns", "caller"}, required_auth_types |-> {"caller", "target"},
  require_dnssec |-> {"caller"}, require_mutual_tls |-> {"caller", "target"},
  min_tls_version |-> {"caller"}, required_caller_trust_score |-> {"caller"},
  rate_limits |-> {"caller", "target"}, max_payload_bytes |-> {"target"},
  allowed_caller_domains |-> {"caller", "target"},
  blocked_caller_domains |-> {"caller", "target"},
  allowed_methods |-> {"caller", "target"}, allowed_intents |-> {"caller", "target"},
  geo_restrictions |-> {"dns", "caller", "target"}, availability |-> {"caller", "target"},
  data_classification |-> {"caller"}, consent_required |-> {"caller", "target"}]

WarnOnly == {"rate_limits", "data_classification"}

\* What the context says of a rule: nothing, something that fits, or that fails;
\* a window that cannot be parsed says nothing, and then availability lets pass,
\* as a missing payload size does.
Refused(rule, standing) ==
  CASE rule \in WarnOnly -> FALSE
    [] rule \in {"max_payload_bytes", "availability"} -> standing = "fails"
    [] OTHER -> standing # "fits"

\* A CEL rule is triggered where its expression is false.
CelHolds(rule, n) ==
  CASE rule.form = "under" -> Matches(Under(rule.name), n)
    [] rule.form = "not under" -> ~ Matches(Under(rule.name), n)
    [] rule.form = "equals" -> n = rule.name
    [] rule.form = "differs" -> n # rule.name
    [] OTHER -> rule.holds

AtLayer(rule, layer) == rule.layers = {} \/ layer \in rule.layers

\* A document: its lists of domains, its CEL rules, the other rules it sets.
Document(blocked, allowed, cel, others) ==
  [blocked |-> blocked, allowed |-> allowed, cel |-> cel, others |-> others]

NoDomain == <<>>

\* Its rules are lists, of patterns and of CEL rules.
IsName(n) == n \in Seq(ToSet(n))
IsPattern(p) == p = Everything \/ (IsName(p.name) /\ p \in {Exactly(p.name), Under(p.name)})
IsDocument(doc) ==
  /\ \A rules \in {doc.blocked, doc.allowed, doc.cel} : rules \in Seq(ToSet(rules))
  /\ \A p \in ToSet(doc.blocked) \cup ToSet(doc.allowed) : IsPattern(p)
  /\ \A rule \in ToSet(doc.cel) : IsName(rule.name)

Violations(doc, caller, standing, layer) ==
     {rule \in doc.others : layer \in RuleLayers[rule] /\ Refused(rule, standing[rule])}
  \cup {rule \in {"allowed_caller_domains"} :
          /\ layer \in RuleLayers[rule] /\ doc.allowed # <<>>
          /\ caller = NoDomain \/ ~ MatchesAny(doc.allowed, caller)}
  \cup {rule \in {"blocked_caller_domains"} :
          /\ layer \in RuleLayers[rule] /\ caller # NoDomain
          /\ MatchesAny(doc.blocked, caller)}
  \cup {rule \in {"cel"} :
          \E i \in DOMAIN doc.cel :
            /\ AtLayer(doc.cel[i], layer)
            /\ doc.cel[i].effect = "deny"
            /\ ~ CelHolds(doc.cel[i], caller)}

Allowed(doc, caller, standing, layer) == Violations(doc, caller, standing, layer) = {}

(***************************************************************************)
(* The compiler: directives in the order of the rules, broad wildcards     *)
(* dropped unless they are asked for, duplicates removed.                  *)
(***************************************************************************)
Directive(owner, action) == [owner |-> owner, action |-> action]

Blocking(ps) == [i \in DOMAIN ps |-> Directive(ps[i], "NXDOMAIN")]
AllowedDirectives(ps) == 
  IF ps = <<>> THEN <<>>
  ELSE Append([i \in DOMAIN ps |-> Directive(ps[i], "PASSTHRU")],
              Directive(Everything, "NXDOMAIN"))

CelCompiles(rule) == AtLayer(rule, "dns") /\ rule.form # "complex"
CelDirective(rule) ==
  Directive(IF rule.form \in {"under", "not under"} THEN Under(rule.name) ELSE Exactly(rule.name),
            IF rule.effect = "deny" THEN "NXDOMAIN" ELSE "PASSTHRU")
CelDirectives(cel) ==
  LET compiled == Pick(cel, {i \in DOMAIN cel : CelCompiles(cel[i])}) IN
  [i \in DOMAIN compiled |-> CelDirective(compiled[i])]

\* "_agents" as a label with something under it.
InAgentsNamespace(n) == \E i \in 2 .. Len(n) : n[i] = "_agents"
Broad(owner) == owner.kind = "under" /\ ~ InAgentsNamespace(owner.name)

FirstOfEach(s) ==
  Pick(s, {i \in DOMAIN s : \A j \in 1 .. i - 1 : s[j] # s[i]})

Compiled(doc, broad) ==
  LET all == Blocking(doc.blocked) \o AllowedDirectives(doc.allowed) \o CelDirectives(doc.cel)
      kept == {i \in DOMAIN all : broad \/ ~ Broad(all[i].owner)}
  IN FirstOfEach(Pick(all, kept))

\* Every name that fits p fits q.
Inside(p, q) ==
  \/ p = q \/ q.kind = "all"
  \/ q.kind = "under" /\ IF p.kind = "exact" THEN IsStrictPrefix(q.name, p.name)
                          ELSE p.kind = "under" /\ IsPrefix(q.name, p.name)

\* What a document denies by name, and the documents that a zone can say: their
\* CEL rules are the negated ones, which deny at every layer, the scope guard
\* drops nothing, and no name that is allowed lies within one that is denied.
Denied(doc) == ToSet(doc.blocked) \cup {CelDirective(doc.cel[i]).owner : i \in DOMAIN doc.cel}

Expressible(doc) ==
  /\ \A i \in DOMAIN doc.cel :
       /\ doc.cel[i].effect = "deny" /\ doc.cel[i].form \in {"not under", "differs"}
       /\ \A layer \in {"dns", "caller", "target"} : AtLayer(doc.cel[i], layer)
  /\ \A p \in Denied(doc) \cup ToSet(doc.allowed) : ~ Broad(p)
  /\ \A p \in ToSet(doc.allowed) : p.name # <<>> /\ \A q \in Denied(doc) : ~ Inside(p, q)

(***************************************************************************)
(* The answer of a zone: a name of its own before a wildcard, the closest  *)
(* wildcard before one further up.                                         *)
(***************************************************************************)
Closest(owners, n) ==
  LET fits == {o \in owners : Matches(o, n)}
      exact == {o \in fits : o.kind = "exact"}
  IN IF exact # {} THEN exact
     ELSE {o \in fits : \A p \in fits : Len(p.name) <= Len(o.name)}

Blocks(zone, n) == \E o \in Closest(DOMAIN zone, n) : zone[o] = "NXDOMAIN"

\* The items of a Threat Defense list.
Listed(directives) ==
  {directives[i].owner : i \in {j \in DOMAIN directives :
     directives[j].action \in {"NXDOMAIN", "DROP"} /\ directives[j].owner # Everything}}
=============================================================================
