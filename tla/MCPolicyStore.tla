--------------------------- MODULE MCPolicyStore ---------------------------
(* Model-checking instances of PolicyStore.                                *)
EXTENDS PolicyStore, TLC

CONSTANTS u1, u2, o1, o2, a1, a1x, bad, w1

\* Two users, each always spelled the same way.
MCOwners == u1 :> o1 @@ u2 :> o2

\* Two spellings of one wallet address, and a string that is none.
MCNormal == a1 :> w1 @@ a1x :> w1 @@ bad :> None

\* Requests and policy ids are interchangeable.
MCSymmetry == Permutations(Requests) \cup Permutations(Policies)
=============================================================================
