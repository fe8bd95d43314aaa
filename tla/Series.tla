------------------------------- MODULE Series -------------------------------
(***************************************************************************)
(* The recurring-event algebra of src/webcaldav/caldav_client.py: one      *)
(* iCalendar resource (a master component with an optional RRULE and its   *)
(* EXDATEs, and the detached RECURRENCE-ID overrides) and the pure         *)
(* rewritings that the scoped edits and deletes apply to it.  Times are    *)
(* integers on one axis; a resource keeps its value type (dates for an     *)
(* all-day series, datetimes otherwise).  All text fields are one `title'. *)
(***************************************************************************)
EXTENDS Integers, FiniteSets

CONSTANTS Titles,      \* what the text fields of a component may hold
          NoRule,      \* the RRULE of an event that does not recur
          Floating     \* the phase of a rule that follows its DTSTART

(***************************************************************************)
(* An RRULE: every `interval' ticks, ended by COUNT or UNTIL or by nothing *)
(* (`n' is the count or the last admissible time).  A rule carrying        *)
(* BYMONTHDAY / BYDAY generates slots at a fixed phase of its period       *)
(* whatever DTSTART is; a daily or weekly one follows DTSTART (Floating).  *)
(***************************************************************************)
Rule == {r \in [interval : Nat \ {0}, phase : Int \cup {Floating},
                bound : {"never", "count", "until"}, n : Int] :
           r.bound = "count" => r.n >= 1}

(* A detached single-occurrence override: the slot it replaces, and its    *)
(* own time and text.                                                      *)
Override == [rid : Int, time : Int, title : Titles]

Resource == [start : Int, rule : Rule \cup {NoRule}, exdates : SUBSET Int,
             title : Titles, allDay : BOOLEAN, overrides : SUBSET Override]

(* The properties a save can ask to reset on customised occurrences.       *)
Fields == {"time", "title"}

ASSUME SeriesAssumption == NoRule \notin Rule /\ Floating \notin Int

-----------------------------------------------------------------------------
(* The slots a rule generates from a DTSTART.                              *)

First(start, rule) ==
  IF rule.phase = Floating THEN start
  ELSE start + ((rule.phase - start) % rule.interval)

SlotAt(start, rule, k) == First(start, rule) + k * rule.interval

Admitted(rule, k, t) == /\ rule.bound = "count" => k < rule.n
                        /\ rule.bound = "until" => t <= rule.n

IsSlot(start, rule, t) ==
  IF rule = NoRule
  THEN t = start
  ELSE \E k \in 0 .. (t - start) : /\ t = SlotAt(start, rule, k)
                                   /\ Admitted(rule, k, t)

-----------------------------------------------------------------------------
(* Rewriting of rules and exception dates.                                 *)

ShiftUntil(rule, delta) ==
  IF rule.bound = "until" THEN [rule EXCEPT !.n = @ + delta] ELSE rule

(* The editor's model carries no phase of its own: a monthly rule is       *)
(* pinned to the day of month of the start it is built for.                *)
BuildRule(rule, start) ==
  IF rule.phase = Floating THEN rule
  ELSE [rule EXCEPT !.phase = start % rule.interval]

SlotsBefore(start, rule, pivot) ==
  {t \in start .. (pivot - 1) : IsSlot(start, rule, t)}

(* The greatest slot before the pivot; `pivot - epsilon' when there is none. *)
LastBefore(start, rule, pivot) ==
  LET before == SlotsBefore(start, rule, pivot)
  IN  IF before = {} THEN pivot - 1
      ELSE CHOOSE t \in before : \A u \in before : u <= t

TruncateUntil(start, rule, pivot) ==
  [rule EXCEPT !.bound = "until", !.n = LastBefore(start, rule, pivot)]

CountThrough(start, rule, pivot) ==
  Cardinality({k \in 0 .. (pivot - start) :
                 /\ SlotAt(start, rule, k) <= pivot
                 /\ Admitted(rule, k, SlotAt(start, rule, k))})

(* Mutant: counts the pivot among the occurrences before it.               *)
RemainingRule_OffByOne(start, rule, pivot) ==
  IF rule.bound # "count" THEN rule
  ELSE [rule EXCEPT !.n = @ - CountThrough(start, rule, pivot)]

RemainingRule(start, rule, pivot) ==
  IF rule.bound # "count" THEN rule
  ELSE LET left == rule.n - (CountThrough(start, rule, pivot) - 1)
       IN  [rule EXCEPT !.n = IF left < 1 THEN 1 ELSE left]

Shift(S, delta) == {t + delta : t \in S}

-----------------------------------------------------------------------------
(* Rewriting of overrides.  A series edit rebinds an override to the new   *)
(* grid and leaves its own time where the user put it.                     *)

ShiftOverrides(ovs, delta) == {[o EXCEPT !.rid = @ + delta] : o \in ovs}

ResetOverrides(ovs, fields, title) ==
  {[o EXCEPT !.time  = IF "time" \in fields THEN o.rid ELSE @,
             !.title = IF "title" \in fields THEN title ELSE @] : o \in ovs}

(* At most one override for a slot.                                        *)
OnePerSlot(ovs) == \A o, p \in ovs : o.rid = p.rid => o = p

(* Mutant: adds the override without looking for an earlier one.           *)
UpsertOverride_Appends(ovs, pivot, time, title) ==
  ovs \cup {[rid |-> pivot, time |-> time, title |-> title]}

UpsertOverride(ovs, pivot, time, title) ==
  {o \in ovs : o.rid # pivot} \cup {[rid |-> pivot, time |-> time, title |-> title]}

OverridesBefore(ovs, pivot) == {o \in ovs : o.rid < pivot}

(* Mutant: the times of moved overrides are looked at first.               *)
ResolvePivot_TimeFirst(r, candidate) ==
  LET moved == {o \in r.overrides : o.time = candidate}
  IN  IF moved = {} THEN {candidate} ELSE {o.rid : o \in moved}

(* The occurrence a request's recurrence_id stands for: itself when an     *)
(* override is keyed on it, else the slot of an override whose own time it *)
(* is (the first in document order, any of them here), else itself.        *)
ResolvePivot(r, candidate) ==
  LET moved == {o \in r.overrides : o.time = candidate}
  IN  IF (\E o \in r.overrides : o.rid = candidate) \/ moved = {}
      THEN {candidate}
      ELSE {o.rid : o \in moved}

-----------------------------------------------------------------------------
(* The scoped edits.  `e' is an edit [start, title, rule, reset]: the time *)
(* and text given to the edited occurrence, the rule of the editor (NoRule *)
(* when it sent none), and the properties to reset on overrides.           *)

(* A plain event, or no pivot: the given start is the new DTSTART.         *)
EditPlain(r, e) ==
  [r EXCEPT !.start = e.start, !.title = e.title,
            !.rule = IF e.rule # NoRule THEN BuildRule(e.rule, e.start) ELSE @,
            !.overrides = ResetOverrides(@, e.reset, e.title)]

EditAll(r, e, pivot) ==
  LET delta == e.start - pivot
      start == r.start + delta
  IN  [r EXCEPT !.start = start, !.title = e.title,
                !.exdates = Shift(@, delta),
                !.rule = IF e.rule # NoRule THEN BuildRule(e.rule, start)
                         ELSE ShiftUntil(@, delta),
                !.overrides = ResetOverrides(ShiftOverrides(@, delta), e.reset, e.title)]

EditThis(r, e, pivot) ==
  [r EXCEPT !.overrides = UpsertOverride(@, pivot, e.start, e.title)]

(* The rule of the future part, before the series starts where it is put.  *)
FutureRule(r, e, pivot, delta) ==
  IF e.rule # NoRule THEN BuildRule(e.rule, e.start)
  ELSE ShiftUntil(RemainingRule(r.start, r.rule, pivot), delta)

(* `This and future' of the first occurrence rewrites the series in place. *)
RewriteFirst(r, e, pivot) ==
  LET delta == e.start - r.start
      kept  == {o \in r.overrides : o.rid # pivot}
  IN  [r EXCEPT !.start = e.start, !.title = e.title,
                !.exdates = Shift(@, delta),
                !.rule = FutureRule(r, e, pivot, delta),
                !.overrides = ResetOverrides(ShiftOverrides(kept, delta), e.reset, e.title)]

(* Mutant: the overrides of the future part stay behind.                   *)
SplitOld_KeepsOverrides(r, pivot) ==
  [r EXCEPT !.rule = TruncateUntil(r.start, r.rule, pivot),
            !.exdates = {t \in @ : t < pivot}]

(* Mutant: exception dates do not follow the series to its new start.      *)
SplitNew_StationaryExdates(r, e, pivot) ==
  LET delta    == e.start - pivot
      migrated == {o \in r.overrides : o.rid > pivot}
  IN  [start |-> e.start, title |-> e.title, allDay |-> r.allDay,
       rule |-> FutureRule(r, e, pivot, delta),
       exdates |-> {t \in r.exdates : t >= pivot},
       overrides |-> ResetOverrides(ShiftOverrides(migrated, delta), e.reset, e.title)]

(* Of a later one it splits the series: the old resource is cut before the *)
(* pivot and a new one starts at the edited occurrence.                    *)
SplitOld(r, pivot) ==
  [r EXCEPT !.rule = TruncateUntil(r.start, r.rule, pivot),
            !.exdates = {t \in @ : t < pivot},
            !.overrides = OverridesBefore(@, pivot)]

SplitNew(r, e, pivot) ==
  LET delta    == e.start - pivot
      migrated == {o \in r.overrides : o.rid > pivot}
  IN  [start |-> e.start, title |-> e.title, allDay |-> r.allDay,
       rule |-> FutureRule(r, e, pivot, delta),
       exdates |-> Shift({t \in r.exdates : t >= pivot}, delta),
       overrides |-> ResetOverrides(ShiftOverrides(migrated, delta), e.reset, e.title)]

(* The in-place rewrite subtracts DTSTART, coerced to a datetime, from the *)
(* given start as it came: with two dates that raises a TypeError.         *)
RewriteRaises(r) == r.allDay

DeleteThis(r, pivot) == [r EXCEPT !.exdates = @ \cup {pivot}]

DeleteFuture(r, pivot) ==
  [r EXCEPT !.rule = TruncateUntil(r.start, r.rule, pivot),
            !.overrides = OverridesBefore(@, pivot)]

-----------------------------------------------------------------------------
(* What a calendar view shows of a resource in a window of time: the slots *)
(* that are neither excluded nor overridden, and the overrides, except the *)
(* one of an excluded slot.                                                *)
Occurrence == [slot : Int, time : Int, title : Titles, custom : BOOLEAN]

PlainOccurrences(r, window) ==
  {[slot |-> t, time |-> t, title |-> r.title, custom |-> FALSE] :
     t \in {u \in window : /\ IsSlot(r.start, r.rule, u)
                           /\ u \notin r.exdates
                           /\ \A o \in r.overrides : o.rid # u}}

CustomOccurrences(r) ==
  {[slot |-> o.rid, time |-> o.time, title |-> o.title, custom |-> TRUE] :
     o \in {p \in r.overrides : p.rid \notin r.exdates}}

Occurrences(r, window) == PlainOccurrences(r, window) \cup CustomOccurrences(r)
=============================================================================
