------------------------------- MODULE Agenda -------------------------------
(***************************************************************************)
(* What the scoped edits promise, with recurrence spelled out: a calendar  *)
(* is the plain list of the occurrences it shows.  An occurrence belongs   *)
(* to a series, stands for one slot of it, and has a time and a text of    *)
(* its own; a customised one keeps them when its series is edited, unless  *)
(* the edit asks to reset them.  The scopes `this', `thisfuture' and `all' *)
(* act on one occurrence, on those from a slot on, and on every one.       *)
(***************************************************************************)
EXTENDS Integers

CONSTANTS SeriesIds,   \* names of series (resource UIDs)
          Titles,
          Slots,       \* the times considered, a finite set of integers
          Deltas       \* by how much an edit can move an occurrence

VARIABLE items

Fields == {"time", "title"}

Item == [series : SeriesIds, slot : Int, time : Int, title : Titles, custom : BOOLEAN]

Of(s) == {i \in items : i.series = s}

Plain(s, slot, title) ==
  [series |-> s, slot |-> slot, time |-> slot, title |-> title, custom |-> FALSE]

(* An occurrence carried along by an edit of its series into series s2.    *)
Moved(i, s2, delta, title, reset) ==
  IF i.custom
  THEN [i EXCEPT !.series = s2, !.slot = @ + delta,
                 !.time  = IF "time" \in reset THEN i.slot + delta ELSE @,
                 !.title = IF "title" \in reset THEN title ELSE @]
  ELSE Plain(s2, i.slot + delta, title)

Replace(old, new) == items' = (items \ old) \cup new

-----------------------------------------------------------------------------
(* A new series, or a single event, of plain occurrences.                  *)
Create(s, title) ==
  /\ Of(s) = {}
  /\ items \subseteq items'
  /\ \A i \in items' \ items : i = Plain(s, i.slot, title)

EditOne(i, time, title) ==
  Replace({i}, {[i EXCEPT !.time = time, !.title = title, !.custom = TRUE]})

EditSeries(s, delta, title, reset) ==
  Replace(Of(s), {Moved(i, s, delta, title, reset) : i \in Of(s)})

(* The edited occurrence becomes a plain one, at the head of the new       *)
(* series s2 (or of the old one when it was the first slot, s2 = s).       *)
EditFuture(i, s2, delta, title, reset) ==
  LET future == {j \in Of(i.series) : j.slot >= i.slot}
  IN  /\ s2 # i.series => Of(s2) = {}
      /\ s2 = i.series => future = Of(i.series)
      /\ Replace(future,
                 {Plain(s2, i.slot + delta, title)}
                   \cup {Moved(j, s2, delta, title, reset) : j \in future \ {i}})

Remove(i) == Replace({i}, {})

RemoveFuture(i) == Replace({j \in Of(i.series) : j.slot >= i.slot}, {})

RemoveSeries(s) == Replace(Of(s), {})

Init == /\ items \subseteq Item
        /\ \A i \in items : ~i.custom /\ i.time = i.slot

Next ==
  /\ items' # items
  /\ \/ \E i \in items : Remove(i) \/ RemoveFuture(i)
     \/ \E s \in SeriesIds : RemoveSeries(s)
     \/ \E s \in SeriesIds, title \in Titles : Create(s, title)
     \/ \E i \in items, time \in Slots, title \in Titles : EditOne(i, time, title)
     \/ \E s \in SeriesIds, delta \in Deltas, title \in Titles, reset \in SUBSET Fields :
          EditSeries(s, delta, title, reset)
     \/ \E i \in items, s2 \in SeriesIds, delta \in Deltas, title \in Titles,
           reset \in SUBSET Fields : EditFuture(i, s2, delta, title, reset)

Spec == Init /\ [][Next]_items
=============================================================================
