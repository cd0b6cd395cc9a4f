---------------------------- MODULE MCDiscovery ----------------------------
(* Two names, of which one is common; an endpoint of the domain and one of *)
(* a host elsewhere; and the scenes in which a call may find them.         *)
EXTENDS Discovery, TLC

CONSTANTS n1, n2, hosting, loop, here, there, p

MCCommon == <<n1>>

Rec(speaks, locator, pin, sig) ==
    [speaks |-> speaks, alias |-> None, endpoint |-> here, params |-> p,
     locator |-> locator, pin |-> pin, sig |-> sig]
Sig(by, n, e, params) ==
    [by |-> by, name |-> n, endpoint |-> e, speaks |-> "mcp", params |-> params]

Plain == Rec(None, None, None, None)
Mcp == Rec("mcp", "cap_uri", None, None)
Pinned == Rec("mcp", "cap_uri", "d1", None)
WellKnown == Rec("a2a", "well_known", None, None)
Signed(n) == Rec("mcp", None, None, Sig("zone", n, here, p))
Lean(n) == Rec("mcp", None, None, Sig("zone", n, here, None))
Stale(n) == Rec("mcp", None, None, Sig("zone", n, there, p))
Other(n) == Rec("mcp", None, None, Sig("zone", n, here, None))
Forged(n) == Rec("mcp", None, None, Sig("other", n, here, p))
Empty == Rec("mcp", None, None, Sig("nothing", None, None, None))
Alias(o) == [Plain EXCEPT !.alias = o]

Zone(r1, r2) ==
    [o \in Owner |-> CASE o = n1 -> r1 [] o = n2 -> r2
                       [] o = hosting -> Mcp [] o = loop -> Alias(loop)
                       [] o = <<n2, "a2a">> -> Plain [] OTHER -> None]

Doc(id, lists, skills) == [id |-> id, lists |-> lists, skills |-> skills]
NoCatalog == [labels |-> <<<<>>, <<>>>>, signed |-> FALSE, on |-> <<>>, off |-> <<>>,
              wellknown |-> <<>>]
World(doc, secure, catalog) ==
    [document |-> [e \in {here, there} |-> IF e = here THEN doc ELSE None],
     skills |-> {there}, text |-> {n1, <<n2, "a2a">>}, secure |-> secure,
     tlsa |-> [e \in {here, there} |-> IF e = here THEN "yes" ELSE "no"],
     catalog |-> catalog]

Scene(r1, r2, entries, doc, secure) ==
    [zone |-> Zone(r1, r2), index |-> entries, world |-> World(doc, secure, NoCatalog)]

Both == <<<<n1, "mcp">>, <<n2, "a2a">>>>
Rich == Doc("d1", TRUE, TRUE)

DnsScenes ==
    {Scene(Plain, WellKnown, <<>>, Rich, TRUE),
     Scene(Plain, Mcp, <<<<n1, "mcp">>, <<n1, "a2a">>>>, Doc("d1", FALSE, TRUE), TRUE),
     Scene(Pinned, Alias(hosting), Both, Rich, FALSE),
     Scene(Mcp, Alias(loop), Both, Rich, TRUE),
     Scene(Mcp, Alias(n1), Both, Rich, TRUE),
     Scene(Pinned, Mcp, Both, Doc("d2", TRUE, FALSE), TRUE),
     Scene(Pinned, Mcp, <<<<n1, Unknown>>, <<n2, "mcp">>>>, Doc("d1", FALSE, FALSE), TRUE),
     Scene(None, None, Both, None, TRUE),
     Scene(Signed(n1), Other(n1), Both, None, TRUE),
     Scene(Stale(n1), Forged(n2), Both, None, TRUE),
     Scene(Lean(n1), Forged(n2), Both, None, FALSE),
     Scene(Empty, None, Both, None, TRUE)}

Entry(n, format, protocol, sig, card) ==
    [name |-> n, format |-> format, protocol |-> protocol, endpoint |-> here,
     params |-> None, pin |-> None, sig |-> sig, caps |-> "catalog", card |-> card]
Entries ==
    <<Entry(n1, "ard", "mcp", Sig("zone", n1, here, None), None),
      Entry(n2, "ard", "mcp", Sig("zone", n2, there, None), there),
      Entry(n2, "legacy", None, None, None)>>

HttpScene(labels, signed, listed, r2) ==
    [zone |-> Zone(None, r2), index |-> <<>>,
     world |-> World(None, TRUE,
                     [labels |-> labels, signed |-> signed, on |-> listed, off |-> listed,
                      wellknown |-> <<Entry(n1, "legacy", "a2a", None, None)>>])]
HttpScenes ==
    {HttpScene(<<<<>>, <<>>>>, FALSE, <<>>, None),
     HttpScene(<<<<"unsafe">>, <<"alias", "on">>>>, FALSE, Entries, None),
     HttpScene(<<<<"off">>, <<"on">>>>, TRUE, Entries, Signed(n2)),
     HttpScene(<<<<"off">>, <<>>>>, FALSE, Entries, None),
     HttpScene(<<<<"alias", "alias", "unsafe">>, <<"alias", "on">>>>, FALSE, Entries, None),
     HttpScene(<<<<>>, <<"off">>>>, TRUE, <<>>, None)}

MCScenes == DnsScenes \cup HttpScenes
MCRepublished == {Mcp, WellKnown}

Ask == [http |-> FALSE, name |-> None, protocol |-> None, legacy |-> FALSE,
        trustPointers |-> FALSE, verify |-> FALSE, requireDnssec |-> FALSE,
        minDnssec |-> FALSE, dane |-> FALSE, requireSigned |-> FALSE,
        requireParams |-> FALSE]
Http == [Ask EXCEPT !.http = TRUE]
MCRequests ==
    {Ask, [Ask EXCEPT !.protocol = "mcp", !.verify = TRUE],
     [Ask EXCEPT !.protocol = "a2a", !.name = n2, !.legacy = TRUE, !.dane = TRUE],
     [Ask EXCEPT !.name = n1, !.requireSigned = TRUE, !.requireParams = TRUE],
     [Ask EXCEPT !.verify = TRUE, !.dane = TRUE, !.minDnssec = TRUE],
     [Ask EXCEPT !.requireDnssec = TRUE],
     [Http EXCEPT !.verify = TRUE], [Http EXCEPT !.trustPointers = TRUE],
     [Http EXCEPT !.trustPointers = TRUE, !.requireSigned = TRUE, !.protocol = "mcp"],
     [Http EXCEPT !.name = n1, !.minDnssec = TRUE]}
=============================================================================
