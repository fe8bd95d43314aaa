----------------------------- MODULE TaskSeries -----------------------------
(***************************************************************************)
(* The VTODO half of src/webcaldav/caldav_client.py: a task has a start, a *)
(* due date, both or neither, and is done or not.  A recurring task ticks  *)
(* off one occurrence at a time, with an override that carries the         *)
(* COMPLETED status.  Rules, exception dates and the rebinding of          *)
(* overrides are those of module Series.                                   *)
(***************************************************************************)
EXTENDS Series

CONSTANT Absent       \* a start or due date a task does not have

ASSUME AbsentAssumption == Absent \notin Int

Date == Int \cup {Absent}

TaskOverride == [rid : Int, start : Date, due : Date, title : Titles, done : BOOLEAN]

Task == [start : Date, due : Date, rule : Rule \cup {NoRule}, exdates : SUBSET Int,
         title : Titles, done : BOOLEAN, overrides : SUBSET TaskOverride]

(* DTSTART, or DUE for a task that has no start.                           *)
Anchor(x) == IF x.start # Absent THEN x.start ELSE x.due

Plus(date, delta) == IF date = Absent THEN Absent ELSE date + delta

IsRecurring(r) == r.rule # NoRule

-----------------------------------------------------------------------------
(* The start and due date of the occurrence at a slot.                     *)
OccurrenceSpan(r, pivot) ==
  LET delta == pivot - Anchor(r)
  IN  [start |-> Plus(r.start, delta), due |-> Plus(r.due, delta)]

Moved(r, o) == [start |-> o.start, due |-> o.due] # OccurrenceSpan(r, o.rid)

(* The slot a recurrence_id stands for (_resolve_pivot on tasks).          *)
ResolveTaskPivot(r, candidate) ==
  LET moved == {o \in r.overrides : Anchor(o) = candidate}
  IN  IF (\E o \in r.overrides : o.rid = candidate) \/ moved = {}
      THEN {candidate}
      ELSE {o.rid : o \in moved}

At(r, pivot) == {o \in r.overrides : o.rid = pivot}

NotAt(r, pivot) == r.overrides \ At(r, pivot)

(* Mutant: adds the override without removing the earlier one.             *)
WithOverride_Appends(r, pivot, span, title, done) ==
  [r EXCEPT !.overrides = @ \cup
     {[rid |-> pivot, start |-> span.start, due |-> span.due, title |-> title, done |-> done]}]

WithOverride(r, pivot, span, title, done) ==
  [r EXCEPT !.overrides = NotAt(r, pivot) \cup
     {[rid |-> pivot, start |-> span.start, due |-> span.due, title |-> title, done |-> done]}]

-----------------------------------------------------------------------------
(* The status of a task.                                                   *)
TickWhole(r, done) == [r EXCEPT !.done = done]

(* Mutant: an override is rebuilt from the series when it is ticked.       *)
TickOccurrence_Rebuilds(r, pivot, done) ==
  IF done THEN WithOverride(r, pivot, OccurrenceSpan(r, pivot), r.title, TRUE)
  ELSE [r EXCEPT !.overrides = NotAt(r, pivot)]

(* An existing override is ticked in place; one that has not moved is      *)
(* dropped when it is unticked.  Else a tick makes an override.            *)
TickOccurrence(r, pivot, done) ==
  IF At(r, pivot) # {}
  THEN [r EXCEPT !.overrides =
          NotAt(r, pivot) \cup {[o EXCEPT !.done = done] :
                                  o \in {p \in At(r, pivot) : done \/ Moved(r, p)}}]
  ELSE IF done THEN WithOverride(r, pivot, OccurrenceSpan(r, pivot), r.title, TRUE)
  ELSE r

-----------------------------------------------------------------------------
(* The scoped edits.  `e' is [start, due, title, rule, reset].             *)

ResetTaskOverrides(ovs, e, start, due) ==
  {[o EXCEPT !.start = IF "time" \in e.reset THEN o.rid ELSE @,
             !.due   = IF "time" \notin e.reset THEN @
                       ELSE IF Absent \in {start, due} THEN Absent
                       ELSE o.rid + (due - start),
             !.title = IF "title" \in e.reset THEN e.title ELSE @] : o \in ovs}

(* A plain task: both dates are the given ones, and a rule needs one.      *)
EditTask(r, e) ==
  LET given == [start |-> e.start, due |-> e.due]
  IN  [r EXCEPT !.start = e.start, !.due = e.due, !.title = e.title,
                !.rule = IF e.rule # NoRule /\ Anchor(given) # Absent
                         THEN BuildRule(e.rule, Anchor(given)) ELSE @,
                !.overrides = ResetTaskOverrides(@, e, e.start, e.due)]

(* A series moves by what the edit does to the anchor of the occurrence;   *)
(* any other change of its dates is dropped.                               *)
AnchorGiven(r, e) == IF r.start # Absent THEN e.start ELSE e.due

EditTaskAll(r, e, pivot) ==
  LET delta == IF AnchorGiven(r, e) = Absent THEN 0 ELSE AnchorGiven(r, e) - pivot
      start == Plus(r.start, delta)
      due   == Plus(r.due, delta)
  IN  [r EXCEPT !.start = start, !.due = due, !.title = e.title,
                !.exdates = Shift(@, delta),
                !.rule = IF e.rule # NoRule
                         THEN BuildRule(e.rule, IF start # Absent THEN start ELSE due)
                         ELSE ShiftUntil(@, delta),
                !.overrides = ResetTaskOverrides(ShiftOverrides(@, delta), e, start, due)]

(* Mutant: the override is rebuilt without the tick of the one it replaces. *)
EditTaskThis_Unticks(r, e, pivot) ==
  WithOverride(r, pivot, [start |-> e.start, due |-> e.due], e.title, FALSE)

(* The tick of an earlier override of the slot is carried over.            *)
EditTaskThis(r, e, pivot) ==
  WithOverride(r, pivot, [start |-> e.start, due |-> e.due], e.title,
               \E o \in At(r, pivot) : o.done)

(* Where `this and future' puts the first of its occurrences.              *)
FutureAnchor(r, e, pivot) ==
  IF AnchorGiven(r, e) = Absent THEN pivot ELSE AnchorGiven(r, e)

FutureTaskRule(r, e, pivot, delta) ==
  IF e.rule # NoRule THEN BuildRule(e.rule, FutureAnchor(r, e, pivot))
  ELSE ShiftUntil(RemainingRule(Anchor(r), r.rule, pivot), delta)

(* In place when it is the first occurrence: the tick of the override at   *)
(* the pivot is lost, the status of the series stays.                      *)
RewriteTask(r, e, pivot) ==
  LET delta == FutureAnchor(r, e, pivot) - Anchor(r)
  IN  [r EXCEPT !.start = e.start, !.due = e.due, !.title = e.title,
                !.exdates = Shift(@, delta),
                !.rule = FutureTaskRule(r, e, pivot, delta),
                !.overrides =
                   ResetTaskOverrides(ShiftOverrides(NotAt(r, pivot), delta), e, e.start, e.due)]

CutTask(r, pivot) ==
  [r EXCEPT !.rule = TruncateUntil(Anchor(r), r.rule, pivot),
            !.exdates = {t \in @ : t < pivot},
            !.overrides = OverridesBefore(@, pivot)]

(* Mutant: the overrides of the future part are not rebound to the new     *)
(* start.                                                                  *)
FutureTask_Stationary(r, e, pivot) ==
  LET delta == FutureAnchor(r, e, pivot) - pivot
  IN  [start |-> e.start, due |-> e.due, title |-> e.title, done |-> FALSE,
       rule |-> FutureTaskRule(r, e, pivot, delta),
       exdates |-> Shift({t \in r.exdates : t >= pivot}, delta),
       overrides |-> ResetTaskOverrides({o \in r.overrides : o.rid > pivot}, e, e.start, e.due)]

(* The new series of a split: not done, whatever the old one was.          *)
FutureTask(r, e, pivot) ==
  LET delta == FutureAnchor(r, e, pivot) - pivot
      later == ShiftOverrides({o \in r.overrides : o.rid > pivot}, delta)
  IN  [start |-> e.start, due |-> e.due, title |-> e.title, done |-> FALSE,
       rule |-> FutureTaskRule(r, e, pivot, delta),
       exdates |-> Shift({t \in r.exdates : t >= pivot}, delta),
       overrides |-> ResetTaskOverrides(later, e, e.start, e.due)]

SkipOccurrence(r, pivot) == [r EXCEPT !.exdates = @ \cup {pivot}]

DropTail(r, pivot) ==
  [r EXCEPT !.rule = TruncateUntil(Anchor(r), r.rule, pivot),
            !.overrides = OverridesBefore(@, pivot)]

-----------------------------------------------------------------------------
(* What the task list shows: a task without dates as one undated item, the *)
(* slots of a series that are neither excluded nor overridden, and the     *)
(* overrides that still have a date.  A series that has lost its dates is  *)
(* found among the tasks without dates.                                    *)
Item(slot, span, title, done) ==
  [slot |-> slot, start |-> span.start, due |-> span.due, title |-> title, done |-> done]

PlainItems(r, window) ==
  {Item(t, OccurrenceSpan(r, t), r.title, r.done) :
     t \in {u \in window : /\ IsSlot(Anchor(r), r.rule, u)
                           /\ u \notin r.exdates
                           /\ At(r, u) = {}}}

CustomItems(r) ==
  {Item(o.rid, [start |-> o.start, due |-> o.due], o.title, o.done) :
     o \in {p \in r.overrides : p.rid \notin r.exdates /\ Anchor(p) # Absent}}

Items(r, window) ==
  IF Anchor(r) = Absent
  THEN {Item(Absent, [start |-> Absent, due |-> Absent], r.title, r.done)}
  ELSE PlainItems(r, window) \cup CustomItems(r)
=============================================================================
