------------------------------ MODULE MC_Login ------------------------------
(***************************************************************************)
(* Small instances of Login: two machines with keys of their own, or with  *)
(* a key they share because one registry was copied to the other.          *)
(***************************************************************************)
EXTENDS Login, TLC

CONSTANTS m1, m2, k1, k2, o1, o2, o3

OwnKeys   == (m1 :> k1) @@ (m2 :> k2)
SharedKey == (m1 :> k1) @@ (m2 :> k1)

\* Objects not created yet are interchangeable, and so are two machines together
\* with their own keys.
Swap     == (m1 :> m2) @@ (m2 :> m1) @@ (k1 :> k2) @@ (k2 :> k1)
Symmetry == Permutations(Objects) \cup {Swap}
=============================================================================
