----------------------------- MODULE MCJwksCache -----------------------------
(* Instances of JwksCache for TLC.                                         *)
EXTENDS JwksCache, TLC

CONSTANTS k1, k2, kidA, kidB, kidX

KidOf == k1 :> kidA @@ k2 :> kidB

Signed(signer, kid) == [signer |-> signer, kid |-> kid, lapsed |-> FALSE]

(* Genuine signatures of each key, one that names an unpublished kid, one  *)
(* without a kid, one lapsed; and forgeries under each kind of kid.        *)
Hints == {Signed(k1, kidA), Signed(k2, kidB), Signed(k1, kidX), Signed(k1, NoKid),
          [signer |-> k1, kid |-> kidA, lapsed |-> TRUE],
          Signed(Forger, kidA), Signed(Forger, kidX), Signed(Forger, NoKid)}
Bogus == {Signed(k1, kidA), Signed(Forger, kidX)}

OutageDocs == {{k1}, Down}
AnyDocs == {{k1}, {k1, k2}, {k2}, {}, Down}

TaskSymmetry == Permutations(Tasks)
=============================================================================
