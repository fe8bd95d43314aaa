--------------------------- MODULE MCSeriesEditor ---------------------------
(* Small instances of SeriesEditor: the values of its constants that a     *)
(* configuration file cannot write.                                        *)
EXTENDS SeriesEditor, TLC

MCFloating == [interval |-> 2, phase |-> Floating, bound |-> "never", n |-> 0]

CountRule == [MCFloating EXCEPT !.bound = "count", !.n = 3]
ShortRule == [MCFloating EXCEPT !.bound = "count", !.n = 2]
UntilRule == [MCFloating EXCEPT !.bound = "until", !.n = 4]

JustCount == {CountRule}
CountAndUntil == {CountRule, UntilRule}
JustShort == {ShortRule}
JustMonthly == {[interval |-> 3, phase |-> 0, bound |-> "never", n |-> 0]}

Window == (-4) .. 10
BackAndForth == {-1, 2}
Forth == {1}
Stay == {0}

Symmetry == Permutations(Uids) \cup Permutations(Clients) \cup Permutations(Titles)
=============================================================================
