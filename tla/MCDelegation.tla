------------------------------ MODULE MCDelegation ------------------------------
(* Delegation for TLC: one user has an account with two calendars, the     *)
(* other an account with one.                                              *)
EXTENDS Delegation, TLC

CONSTANTS u1, u2, a1, a2, c1, c2, c3

MCOwner == a1 :> u1 @@ a2 :> u2
MCHolds == a1 :> {c1, c2} @@ a2 :> {c3}
MCMaxKey == u1 :> 1 @@ u2 :> 0

Granted == {g \in Grants : grant[g] # None}
Asked == {req[r].by : r \in {q \in Requests : req[q] # None}}
Marked == \/ raced # {} \/ \E p \in Patches : patch[p] # None
          \/ \E u \in Users : Defaults(u) # {}

(* Bounds on the states that are followed further.  Default marks, which   *)
(* no grant looks at, are set where nothing is granted or asked.  The      *)
(* owner's own requests, which look at no grant, are made where there is   *)
(* none, and a grant that has lapsed is followed as long as a request of   *)
(* it is under way.                                                        *)
Focus == /\ Marked => Granted \cup Asked = {}
         /\ Granted # {} => Asked \subseteq Grants /\ \A g \in Granted : Live(g) \/ g \in Asked

Swap == c1 :> c2 @@ c2 :> c1
Symmetry == Permutations(Uids) \cup {p @@ Swap : p \in Permutations(Uids)}
=============================================================================
