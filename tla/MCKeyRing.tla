------------------------------ MODULE MCKeyRing ------------------------------
(***************************************************************************)
(* Instances of KeyRing for TLC: sessions, requests and grants are         *)
(* interchangeable.                                                        *)
(***************************************************************************)
EXTENDS KeyRing, TLC

Symmetry == Permutations(Sessions) \cup Permutations(Requests) \cup Permutations(Grants)
=============================================================================
