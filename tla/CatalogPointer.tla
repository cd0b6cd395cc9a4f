---------------------------- MODULE CatalogPointer ----------------------------
(***************************************************************************)
(* The catalog pointer (src/dns_aid/core/catalog_pointer.py): SVCB records *)
(* under two labels that say on which host a domain's agent catalog is.    *)
(* The index label may belong to somebody else, so publishing looks before *)
(* it writes there.  Several publishers share the zone.                    *)
(***************************************************************************)
EXTENDS Naturals, Sequences, FiniteSets, SequencesExt

CONSTANTS
  Publishers,
  Hosts,      \* catalog hosts, in lower case
  UnsafeHosts,\* those of them the fetch guard refuses
  MaxPublish, \* bound: publications and withdrawals
  MaxBroken,  \* bound: requests to the backend that fail
  NoHost

VARIABLES
  pointer,  \* per label, the host its record names, and whether it is an alias
  placing,  \* what each publisher is at
  begun, broken,
  edition,  \* how often the index label was written
  replaced, \* (ghost) the host an unforced publication took off the index label,
            \* although the label had not changed since it looked
  resolved  \* (ghost) the host of the last resolution

cpVars == <<pointer, placing, begun, broken, edition, replaced, resolved>>

Labels == <<"_catalog", "_index">>
Pointer(host, alias) == [host |-> host, alias |-> alias]
Absent == Pointer(NoHost, FALSE)

AtRest == [at |-> 0, host |-> NoHost, mixed |-> FALSE, force |-> FALSE, withdraw |-> FALSE,
           looked |-> FALSE, edition |-> 0]

cpInit ==
  /\ pointer \in [ToSet(Labels) -> {Absent} \cup {Pointer(h, a) : h \in Hosts, a \in BOOLEAN}]
  /\ pointer["_catalog"] \in {Absent, Pointer(CHOOSE h \in Hosts : TRUE, TRUE)}
  /\ placing = [p \in Publishers |-> AtRest]
  /\ begun = 0 /\ broken = 0 /\ edition = 1
  /\ replaced = NoHost
  /\ resolved = NoHost

(* publish_catalog_pointer begins once the zone is known to exist; the     *)
(* host may be given in mixed case, which the comparison does not fold.    *)
BeginPublish(p, host, mixed, force) ==
  /\ placing[p].at = 0
  /\ begun < MaxPublish
  /\ begun' = begun + 1
  /\ placing' = [placing EXCEPT ![p] = [AtRest EXCEPT !.at = 1, !.host = host, !.mixed = mixed,
                                                     !.force = force]]
  /\ UNCHANGED <<pointer, broken, edition, replaced, resolved>>

BeginUnpublish(p) ==
  /\ placing[p].at = 0
  /\ begun < MaxPublish
  /\ begun' = begun + 1
  /\ placing' = [placing EXCEPT ![p] = [AtRest EXCEPT !.at = 1, !.withdraw = TRUE]]
  /\ UNCHANGED <<pointer, broken, edition, replaced, resolved>>

LabelOf(p) == Labels[placing[p].at]
Advance(p, state) ==
  placing' = [placing EXCEPT ![p] =
                IF state.at = Len(Labels) THEN AtRest
                ELSE [state EXCEPT !.at = @ + 1, !.looked = FALSE]]

MustLook(p) == LabelOf(p) = "_index" /\ ~ placing[p].force /\ ~ placing[p].looked

\* The look: another host's record stops the label, no record or a failed read do not.
Foreign(p, current) ==
  current.host # NoHost /\ (current.host # placing[p].host \/ placing[p].mixed)

Working(p) == placing[p].at # 0 /\ ~ placing[p].withdraw

Look(p) ==
  /\ Working(p) /\ MustLook(p)
  /\ IF Foreign(p, pointer["_index"])
     THEN Advance(p, placing[p])
     ELSE placing' = [placing EXCEPT ![p].looked = TRUE, ![p].edition = edition]
  /\ UNCHANGED <<pointer, begun, broken, edition, replaced, resolved>>

LookFails(p) ==
  /\ Working(p) /\ MustLook(p)
  /\ broken < MaxBroken /\ broken' = broken + 1
  /\ placing' = [placing EXCEPT ![p].looked = TRUE, ![p].edition = 0]
  /\ UNCHANGED <<pointer, begun, edition, replaced, resolved>>

Write(p) ==
  LET label == LabelOf(p)  new == Pointer(placing[p].host, FALSE) IN
  /\ Working(p) /\ ~ MustLook(p)
  /\ pointer' = [pointer EXCEPT ![label] = new]
  /\ edition' = IF label = "_index" THEN edition + 1 ELSE edition
  /\ replaced' = IF /\ label = "_index" /\ ~ placing[p].force
                    /\ placing[p].edition = edition
                    /\ pointer[label].host \notin {NoHost, placing[p].host}
                 THEN pointer[label].host ELSE replaced
  /\ Advance(p, placing[p])
  /\ UNCHANGED <<begun, broken, resolved>>

\* A write that fails ends the publication: what was written stays.
WriteFails(p) ==
  /\ Working(p) /\ ~ MustLook(p)
  /\ broken < MaxBroken /\ broken' = broken + 1
  /\ placing' = [placing EXCEPT ![p] = AtRest]
  /\ UNCHANGED <<pointer, begun, edition, replaced, resolved>>

(* unpublish_catalog_pointer: every label, whatever the others answer. *)
Withdraw(p) ==
  LET label == LabelOf(p) IN
  /\ placing[p].at # 0 /\ placing[p].withdraw
  /\ \/ /\ pointer' = [pointer EXCEPT ![label] = Absent]
        /\ edition' = IF label = "_index" THEN edition + 1 ELSE edition
        /\ broken' = broken
     \/ /\ broken < MaxBroken /\ broken' = broken + 1
        /\ UNCHANGED <<pointer, edition>>
  /\ Advance(p, placing[p])
  /\ UNCHANGED <<begun, replaced, resolved>>

(* resolve_catalog_pointer: the first label with a service-mode record that *)
(* names a host the guard lets through.                                     *)
Usable(r) == r.host # NoHost /\ ~ r.alias /\ r.host \notin UnsafeHosts
Resolution ==
  LET at == {i \in DOMAIN Labels : Usable(pointer[Labels[i]])} IN
  IF at = {} THEN NoHost
  ELSE pointer[Labels[CHOOSE i \in at : \A j \in at : i <= j]].host

Resolve ==
  /\ resolved' = Resolution
  /\ UNCHANGED <<pointer, placing, begun, broken, edition, replaced>>

cpNext ==
  \/ \E p \in Publishers :
       \/ \E host \in Hosts, mixed, force \in BOOLEAN : BeginPublish(p, host, mixed, force)
       \/ BeginUnpublish(p)
       \/ Look(p)
       \/ LookFails(p)
       \/ Write(p)
       \/ WriteFails(p)
       \/ Withdraw(p)
  \/ Resolve

cpSpec == cpInit /\ [][cpNext]_cpVars

-----------------------------------------------------------------------------
cpTypeOK ==
  /\ pointer \in [ToSet(Labels) -> [host : Hosts \cup {NoHost}, alias : BOOLEAN]]
  /\ \A p \in Publishers : placing[p].at \in 0 .. Len(Labels)
  /\ resolved \in Hosts \cup {NoHost}

(* The guard of publish_catalog_pointer (catalog_pointer.py:337): without  *)
(* force_index a record of another host leaves the index label only if the *)
(* look failed or the label was written between the look and the write.    *)
IndexIsGuarded == replaced = NoHost
=============================================================================
