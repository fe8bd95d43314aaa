----------------------------- MODULE MCTaskList -----------------------------
(* Small instances of TaskList: the values of its constants that a         *)
(* configuration file cannot write.                                        *)
EXTENDS TaskList, TLC

Thrice == [interval |-> 2, phase |-> Floating, bound |-> "count", n |-> 3]
Twice == [Thrice EXCEPT !.n = 2]

Fresh(start, due, rule, done) ==
  [start |-> start, due |-> due, rule |-> rule, exdates |-> {},
   title |-> CHOOSE t \in Titles : TRUE, done |-> done, overrides |-> {}]

Chores == {Fresh(Absent, 1, Thrice, FALSE)}
AllKinds == {Fresh(Absent, 1, Thrice, FALSE), Fresh(1, 2, Thrice, FALSE),
             Fresh(Absent, Absent, NoRule, FALSE), Fresh(1, Absent, NoRule, TRUE)}

JustTwice == {Twice}
Week == 0 .. 9
Forth == {1}

Symmetry == Permutations(Uids) \cup Permutations(Clients)
=============================================================================
