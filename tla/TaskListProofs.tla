--------------------------- MODULE TaskListProofs ---------------------------
(***************************************************************************)
(* Theorems on TaskList: for any pages, tasks, rules and gestures, in any  *)
(* interleaving and with any failures, tasks stay well formed, none has    *)
(* two statuses for one occurrence, ticks stay in place and follow edits.  *)
(***************************************************************************)
EXTENDS TaskList, SeriesProofs

(* A task none of whose slots has two overrides.                           *)
SoundTask == {r \in Task : OnePerSlot(r.overrides)}

(* A recurring task that has not lost its dates.                           *)
DatedSeries == {r \in SoundTask : r.rule # NoRule /\ Anchor(r) # Absent}

(* The slots that are ticked.                                              *)
Ticks(ovs) == {o.rid : o \in {p \in ovs : p.done}}

-----------------------------------------------------------------------------
(* Overrides.                                                              *)

(* Rebinding overrides moves all of them by one distance.                  *)
LEMMA ShiftedOverrides ==
  ASSUME NEW ovs \in SUBSET TaskOverride, OnePerSlot(ovs), NEW delta \in Int
  PROVE  /\ ShiftOverrides(ovs, delta) \in SUBSET TaskOverride
         /\ OnePerSlot(ShiftOverrides(ovs, delta))
         /\ Ticks(ShiftOverrides(ovs, delta)) = Shift(Ticks(ovs), delta)
<1>1. \A o \in ovs : o.rid \in Int
  BY DEF TaskOverride
<1>3. \A o, p \in ovs : o.rid + delta = p.rid + delta => o = p
  <2> SUFFICES ASSUME NEW o \in ovs, NEW p \in ovs, o.rid + delta = p.rid + delta
               PROVE  o = p
    OBVIOUS
  <2>1. o.rid \in Int /\ p.rid \in Int
    BY <1>1
  <2> QED BY <2>1 DEF OnePerSlot
<1> DEFINE S(o) == [o EXCEPT !.rid = @ + delta]
<1>2. \A o \in ovs : S(o) \in TaskOverride /\ S(o).rid = o.rid + delta /\ S(o).done = o.done
  BY DEF TaskOverride
<1>4. ShiftOverrides(ovs, delta) = {S(o) : o \in ovs}
  BY DEF ShiftOverrides
<1> HIDE DEF S
<1>5. OnePerSlot({S(o) : o \in ovs})
  BY <1>2, <1>3 DEF OnePerSlot
<1>6. Ticks({S(o) : o \in ovs}) = Shift(Ticks(ovs), delta)
  BY <1>2 DEF Ticks, Shift
<1> QED BY <1>2, <1>4, <1>5, <1>6

(* Resetting them changes dates and text only.                             *)
LEMMA ResetKeepsTicks ==
  ASSUME NEW ovs \in SUBSET TaskOverride, OnePerSlot(ovs), NEW e, e.title \in Titles,
         NEW start \in Date, NEW due \in Date
  PROVE  /\ ResetTaskOverrides(ovs, e, start, due) \in SUBSET TaskOverride
         /\ OnePerSlot(ResetTaskOverrides(ovs, e, start, due))
         /\ Ticks(ResetTaskOverrides(ovs, e, start, due)) = Ticks(ovs)
<1> DEFINE R(o) == [o EXCEPT !.start = IF "time" \in e.reset THEN o.rid ELSE @,
                             !.due   = IF "time" \notin e.reset THEN @
                                       ELSE IF Absent \in {start, due} THEN Absent
                                       ELSE o.rid + (due - start),
                             !.title = IF "title" \in e.reset THEN e.title ELSE @]
<1>1. \A o \in ovs : R(o) \in TaskOverride /\ R(o).rid = o.rid /\ R(o).done = o.done
  <2> SUFFICES ASSUME NEW o \in ovs
               PROVE  R(o) \in TaskOverride /\ R(o).rid = o.rid /\ R(o).done = o.done
    OBVIOUS
  <2>1. o \in TaskOverride
    OBVIOUS
  <2>2. (IF "time" \notin e.reset THEN o.due
         ELSE IF Absent \in {start, due} THEN Absent ELSE o.rid + (due - start)) \in Date
    BY <2>1 DEF TaskOverride, Date
  <2>3. (IF "time" \in e.reset THEN o.rid ELSE o.start) \in Date
    BY <2>1 DEF TaskOverride, Date
  <2>4. (IF "title" \in e.reset THEN e.title ELSE o.title) \in Titles
    BY <2>1 DEF TaskOverride
  <2> QED BY <2>1, <2>2, <2>3, <2>4 DEF TaskOverride
<1>2. ResetTaskOverrides(ovs, e, start, due) = {R(o) : o \in ovs}
  BY DEF ResetTaskOverrides
<1> HIDE DEF R
<1>3. OnePerSlot({R(o) : o \in ovs})
  BY <1>1 DEF OnePerSlot
<1>4. Ticks({R(o) : o \in ovs}) = Ticks(ovs)
  BY <1>1 DEF Ticks
<1> QED BY <1>1, <1>2, <1>3, <1>4

(* What is left out of a set of overrides leaves the rest as it was.       *)
LEMMA FewerOverrides ==
  ASSUME NEW ovs \in SUBSET TaskOverride, OnePerSlot(ovs), NEW kept \in SUBSET ovs
  PROVE  kept \in SUBSET TaskOverride /\ OnePerSlot(kept)
BY DEF OnePerSlot

(* The new override of a slot takes the place of the old one.              *)
LEMMA OverrideReplaced ==
  ASSUME NEW r \in SoundTask, NEW pivot \in Int, NEW span, span.start \in Date,
         span.due \in Date, NEW title \in Titles, NEW done \in BOOLEAN
  PROVE  WithOverride(r, pivot, span, title, done) \in SoundTask
<1> DEFINE o == [rid |-> pivot, start |-> span.start, due |-> span.due,
                 title |-> title, done |-> done]
           ovs == NotAt(r, pivot) \cup {o}
<1>1. o \in TaskOverride /\ o.rid = pivot
  BY DEF TaskOverride
<1>2. r \in Task /\ r.overrides \in SUBSET TaskOverride /\ OnePerSlot(r.overrides)
  BY DEF SoundTask, Task
<1>3. NotAt(r, pivot) \subseteq r.overrides /\ \A p \in NotAt(r, pivot) : p.rid # pivot
  BY DEF NotAt, At
<1> HIDE DEF o
<1>4. ovs \in SUBSET TaskOverride
  BY <1>1, <1>2, <1>3
<1>5. OnePerSlot(ovs)
  BY <1>1, <1>2, <1>3 DEF OnePerSlot
<1>6. WithOverride(r, pivot, span, title, done) = [r EXCEPT !.overrides = ovs]
  BY DEF WithOverride, o
<1> HIDE DEF ovs
<1> QED BY <1>2, <1>4, <1>5, <1>6 DEF SoundTask, Task

-----------------------------------------------------------------------------
(* The operations on a task.                                               *)

LEMMA PlusTyped ==
  ASSUME NEW date \in Date, NEW delta \in Int
  PROVE  Plus(date, delta) \in Date /\ (Plus(date, delta) = Absent <=> date = Absent)
BY AbsentAssumption DEF Plus, Date

LEMMA TaskTyped ==
  ASSUME NEW r \in SoundTask
  PROVE  /\ r \in Task /\ r.start \in Date /\ r.due \in Date
         /\ r.rule \in Rule \cup {NoRule} /\ r.exdates \in SUBSET Int
         /\ r.title \in Titles /\ r.done \in BOOLEAN
         /\ r.overrides \in SUBSET TaskOverride /\ OnePerSlot(r.overrides)
         /\ Anchor(r) \in Date
         /\ r \in DatedSeries => Anchor(r) \in Int /\ r.rule \in Rule
BY DEF SoundTask, DatedSeries, Task, Anchor, Date

LEMMA EditTyped ==
  ASSUME NEW e \in Edit
  PROVE  /\ e.start \in Date /\ e.due \in Date /\ e.title \in Titles
         /\ e.rule \in Rule \cup {NoRule} /\ e.reset \in SUBSET Fields
         /\ e.rule # NoRule => e.rule \in Rule /\ Anchor(e) \in Int
BY DEF Edit, Anchor, Date

LEMMA SpanTyped ==
  ASSUME NEW r \in SoundTask, Anchor(r) # Absent, NEW pivot \in Int
  PROVE  OccurrenceSpan(r, pivot).start \in Date /\ OccurrenceSpan(r, pivot).due \in Date
<1>1. pivot - Anchor(r) \in Int
  BY TaskTyped DEF Date
<1> QED BY <1>1, TaskTyped, PlusTyped DEF OccurrenceSpan

(* Ticking an occurrence.                                                  *)
LEMMA TickStaysSound ==
  ASSUME NEW r \in DatedSeries, NEW pivot \in Int, NEW done \in BOOLEAN
  PROVE  TickOccurrence(r, pivot, done) \in SoundTask
<1>1. r \in SoundTask
  BY DEF DatedSeries
<1>2. CASE At(r, pivot) # {}
  <2> DEFINE S(o) == [o EXCEPT !.done = done]
             kept == {p \in At(r, pivot) : done \/ Moved(r, p)}
             ovs == NotAt(r, pivot) \cup {S(o) : o \in kept}
  <2>1. r.overrides \in SUBSET TaskOverride /\ OnePerSlot(r.overrides) /\ r \in Task
    BY <1>1, TaskTyped
  <2>2. \A o \in TaskOverride : S(o) \in TaskOverride /\ S(o).rid = o.rid
    BY DEF TaskOverride
  <2>3. TickOccurrence(r, pivot, done) = [r EXCEPT !.overrides = ovs]
    BY <1>2 DEF TickOccurrence
  <2>4. /\ kept \subseteq r.overrides /\ \A o \in kept : o.rid = pivot
        /\ NotAt(r, pivot) \subseteq r.overrides /\ \A o \in NotAt(r, pivot) : o.rid # pivot
    BY DEF At, NotAt
  <2> HIDE DEF S, kept
  <2>5. ovs \in SUBSET TaskOverride
    BY <2>1, <2>2, <2>4
  <2>6. OnePerSlot(ovs)
    BY <2>1, <2>2, <2>4 DEF OnePerSlot
  <2> HIDE DEF ovs
  <2> QED BY <2>1, <2>3, <2>5, <2>6 DEF SoundTask, Task
<1>3. CASE At(r, pivot) = {} /\ done
  BY <1>1, <1>3, SpanTyped, TaskTyped, OverrideReplaced DEF TickOccurrence, DatedSeries
<1>4. CASE At(r, pivot) = {} /\ ~done
  BY <1>1, <1>4 DEF TickOccurrence
<1> QED BY <1>2, <1>3, <1>4

(* The edits that leave the slots of a task alone.                         *)
LEMMA PlainEditsStaySound ==
  ASSUME NEW r \in SoundTask, NEW e \in Edit, NEW pivot \in Int, NEW done \in BOOLEAN
  PROVE  /\ EditTask(r, e) \in SoundTask
         /\ EditTaskThis(r, e, pivot) \in SoundTask
         /\ TickWhole(r, done) \in SoundTask
         /\ SkipOccurrence(r, pivot) \in SoundTask
<1>1. EditTask(r, e) \in SoundTask
  <2> DEFINE given == [start |-> e.start, due |-> e.due]
             rule == IF e.rule # NoRule /\ Anchor(given) # Absent
                     THEN BuildRule(e.rule, Anchor(given)) ELSE r.rule
             ovs == ResetTaskOverrides(r.overrides, e, e.start, e.due)
  <2>1. rule \in Rule \cup {NoRule}
    <3>1. Anchor(given) \in Date
      BY EditTyped DEF Anchor
    <3>2. Anchor(given) # Absent => Anchor(given) \in Int
      BY <3>1 DEF Date
    <3> HIDE DEF given
    <3>3. e.rule # NoRule /\ Anchor(given) # Absent => BuildRule(e.rule, Anchor(given)) \in Rule
      BY <3>2, EditTyped, RuleTypes
    <3> QED BY <3>3, TaskTyped
  <2>2. ovs \in SUBSET TaskOverride /\ OnePerSlot(ovs)
    BY TaskTyped, EditTyped, ResetKeepsTicks
  <2>3. EditTask(r, e) = [r EXCEPT !.start = e.start, !.due = e.due, !.title = e.title,
                                   !.rule = rule, !.overrides = ovs]
    BY DEF EditTask
  <2> HIDE DEF rule, ovs
  <2> QED BY <2>1, <2>2, <2>3, TaskTyped, EditTyped DEF SoundTask, Task
<1>2. EditTaskThis(r, e, pivot) \in SoundTask
  <2>1. (\E o \in At(r, pivot) : o.done) \in BOOLEAN
    OBVIOUS
  <2> QED BY <2>1, EditTyped, OverrideReplaced DEF EditTaskThis
<1>3. TickWhole(r, done) \in SoundTask
  BY DEF TickWhole, SoundTask, Task
<1>4. SkipOccurrence(r, pivot) \in SoundTask
  BY DEF SkipOccurrence, SoundTask, Task
<1> QED BY <1>1, <1>2, <1>3, <1>4

(* The overrides of an edited series: rebound, then reset.                 *)
LEMMA CarriedTicks ==
  ASSUME NEW ovs \in SUBSET TaskOverride, OnePerSlot(ovs), NEW delta \in Int,
         NEW e, e.title \in Titles, NEW start \in Date, NEW due \in Date
  PROVE  LET carried == ResetTaskOverrides(ShiftOverrides(ovs, delta), e, start, due)
         IN  /\ carried \in SUBSET TaskOverride /\ OnePerSlot(carried)
             /\ Ticks(carried) = Shift(Ticks(ovs), delta)
<1> DEFINE shifted == ShiftOverrides(ovs, delta)
<1>1. shifted \in SUBSET TaskOverride /\ OnePerSlot(shifted)
      /\ Ticks(shifted) = Shift(Ticks(ovs), delta)
  BY ShiftedOverrides
<1> HIDE DEF shifted
<1>2. LET carried == ResetTaskOverrides(shifted, e, start, due)
      IN  /\ carried \in SUBSET TaskOverride /\ OnePerSlot(carried)
          /\ Ticks(carried) = Ticks(shifted)
  BY <1>1, ResetKeepsTicks
<1> QED BY <1>1, <1>2 DEF shifted

(* An edit of the whole series takes the ticks to the new grid.            *)
LEMMA EditAllCarries ==
  ASSUME NEW r \in DatedSeries, NEW e \in Edit, NEW pivot \in Int
  PROVE  /\ EditTaskAll(r, e, pivot) \in SoundTask
         /\ EditTaskAll(r, e, pivot).done = r.done
         /\ Ticked(EditTaskAll(r, e, pivot)) =
              Shift(Ticked(r), Anchor(EditTaskAll(r, e, pivot)) - Anchor(r))
<1> DEFINE delta == IF AnchorGiven(r, e) = Absent THEN 0 ELSE AnchorGiven(r, e) - pivot
           start == Plus(r.start, delta)
           due   == Plus(r.due, delta)
           given == IF start # Absent THEN start ELSE due
           rule  == IF e.rule # NoRule THEN BuildRule(e.rule, given)
                    ELSE ShiftUntil(r.rule, delta)
           ovs   == ResetTaskOverrides(ShiftOverrides(r.overrides, delta), e, start, due)
<1>1. r \in SoundTask
  BY DEF DatedSeries
<1>2. delta \in Int
  BY EditTyped DEF AnchorGiven, Date
<1> HIDE DEF delta
<1>3. start \in Date /\ due \in Date /\ given = Anchor(r) + delta /\ given \in Int
  BY <1>1, <1>2, TaskTyped, PlusTyped, AbsentAssumption DEF Plus, Anchor, Date
<1> HIDE DEF start, due, given
<1>4. rule \in Rule
  BY <1>1, <1>2, <1>3, TaskTyped, EditTyped, RuleTypes
<1>5. ovs \in SUBSET TaskOverride /\ OnePerSlot(ovs) /\ Ticks(ovs) = Shift(Ticks(r.overrides), delta)
  BY <1>1, <1>2, <1>3, TaskTyped, EditTyped, CarriedTicks
<1>6. Shift(r.exdates, delta) \in SUBSET Int
  BY <1>1, <1>2, TaskTyped, ShiftTypes
<1>7. EditTaskAll(r, e, pivot) =
        [r EXCEPT !.start = start, !.due = due, !.title = e.title,
                  !.exdates = Shift(r.exdates, delta), !.rule = rule, !.overrides = ovs]
  BY DEF EditTaskAll, delta, start, due, given
<1> HIDE DEF rule, ovs
<1> DEFINE s == [r EXCEPT !.start = start, !.due = due, !.title = e.title,
                  !.exdates = Shift(r.exdates, delta), !.rule = rule, !.overrides = ovs]
<1>8. s \in Task /\ s.start = start /\ s.due = due /\ s.overrides = ovs /\ s.done = r.done
  BY <1>1, <1>3, <1>4, <1>5, <1>6, TaskTyped, EditTyped DEF Task
<1> HIDE DEF s
<1>9. Anchor(s) = given
  BY <1>8 DEF Anchor, given
<1>10. Anchor(s) - Anchor(r) = delta
  BY <1>1, <1>2, <1>3, <1>9, TaskTyped
<1>11. s \in SoundTask
  BY <1>5, <1>8 DEF SoundTask
<1>12. Ticked(s) = Shift(Ticked(r), delta)
  BY <1>5, <1>8 DEF Ticked, Ticks
<1> QED BY <1>7, <1>8, <1>10, <1>11, <1>12 DEF s

(* The rule of the part that starts at the edited occurrence.              *)
LEMMA FutureRuleTyped ==
  ASSUME NEW r \in DatedSeries, NEW e \in Edit, NEW pivot \in Int, NEW delta \in Int
  PROVE  /\ FutureTaskRule(r, e, pivot, delta) \in Rule
         /\ FutureAnchor(r, e, pivot) \in Int
<1>1. r \in SoundTask
  BY DEF DatedSeries
<1>2. FutureAnchor(r, e, pivot) \in Int
  BY EditTyped DEF FutureAnchor, AnchorGiven, Date
<1>3. CASE e.rule # NoRule
  BY <1>2, <1>3, EditTyped, RuleTypes DEF FutureTaskRule
<1>4. CASE e.rule = NoRule
  <2>1. Anchor(r) \in Int /\ r.rule \in Rule
    BY <1>1, TaskTyped
  <2> DEFINE left == RemainingRule(Anchor(r), r.rule, pivot)
  <2>2. left \in Rule
    BY <2>1, RuleTypes
  <2>3. FutureTaskRule(r, e, pivot, delta) = ShiftUntil(left, delta)
    BY <1>4 DEF FutureTaskRule
  <2> HIDE DEF left
  <2>4. ShiftUntil(left, delta) \in Rule
    BY <2>2, RuleTypes
  <2> QED BY <1>2, <2>3, <2>4
<1> QED BY <1>2, <1>3, <1>4

(* An edit that keeps which dates there are puts the anchor where the     *)
(* occurrence goes.                                                        *)
LEMMA AnchorKept ==
  ASSUME NEW r \in DatedSeries, NEW e \in Edit, NEW pivot \in Int, KeepsDates(r, e),
         NEW s, s.start = e.start, s.due = e.due
  PROVE  Anchor(s) = FutureAnchor(r, e, pivot)
<1>1. Anchor(r) # Absent
  BY DEF DatedSeries
<1>2. Anchor(s) = IF e.start # Absent THEN e.start ELSE e.due
  BY DEF Anchor
<1> QED BY <1>1, <1>2 DEF KeepsDates, Anchor, FutureAnchor, AnchorGiven

(* More slots, more shifted slots.                                         *)
LEMMA ShiftGrows ==
  ASSUME NEW A, NEW B, A \subseteq B, NEW delta
  PROVE  Shift(A, delta) \subseteq Shift(B, delta)
BY DEF Shift

(* Rewriting a series in place takes all ticks but the pivot's along.      *)
LEMMA RewriteCarries ==
  ASSUME NEW r \in DatedSeries, NEW e \in Edit, NEW pivot \in Int
  PROVE  /\ RewriteTask(r, e, pivot) \in SoundTask
         /\ KeepsDates(r, e) =>
              TakesAlong(RewriteTask(r, e, pivot), Ticked(r) \ {pivot}, Ticked(r),
                      Anchor(RewriteTask(r, e, pivot)) - Anchor(r))
<1> DEFINE delta == FutureAnchor(r, e, pivot) - Anchor(r)
           kept  == NotAt(r, pivot)
           rule  == FutureTaskRule(r, e, pivot, delta)
           ovs   == ResetTaskOverrides(ShiftOverrides(kept, delta), e, e.start, e.due)
<1>1. r \in SoundTask
  BY DEF DatedSeries
<1>2. FutureAnchor(r, e, pivot) \in Int
  BY FutureRuleTyped, 0 \in Int
<1>3. delta \in Int
  BY <1>1, <1>2, TaskTyped
<1>4. kept \in SUBSET TaskOverride /\ OnePerSlot(kept)
  <2>1. kept \in SUBSET r.overrides
    BY DEF NotAt
  <2> QED BY <1>1, <2>1, TaskTyped, FewerOverrides
<1>5. RewriteTask(r, e, pivot) =
        [r EXCEPT !.start = e.start, !.due = e.due, !.title = e.title,
                  !.exdates = Shift(r.exdates, delta), !.rule = rule, !.overrides = ovs]
  BY DEF RewriteTask
<1>9. Ticks(kept) = Ticked(r) \ {pivot}
  BY DEF Ticks, Ticked, NotAt, At
<1>10. FutureAnchor(r, e, pivot) = Anchor(r) + delta
  BY <1>1, <1>2, TaskTyped
<1> HIDE DEF delta, kept
<1>6. rule \in Rule
  BY <1>3, FutureRuleTyped
<1>7. ovs \in SUBSET TaskOverride /\ OnePerSlot(ovs) /\ Ticks(ovs) = Shift(Ticks(kept), delta)
  BY <1>3, <1>4, EditTyped, CarriedTicks
<1>8. Shift(r.exdates, delta) \in SUBSET Int
  BY <1>1, <1>3, TaskTyped, ShiftTypes
<1> HIDE DEF rule, ovs
<1> DEFINE s == [r EXCEPT !.start = e.start, !.due = e.due, !.title = e.title,
                  !.exdates = Shift(r.exdates, delta), !.rule = rule, !.overrides = ovs]
<1>11. s \in SoundTask /\ s.start = e.start /\ s.due = e.due /\ s.overrides = ovs
  BY <1>1, <1>6, <1>7, <1>8, TaskTyped, EditTyped DEF SoundTask, Task
<1> HIDE DEF s
<1>12. Ticked(s) = Shift(Ticked(r) \ {pivot}, delta)
  BY <1>7, <1>9, <1>11 DEF Ticked, Ticks
<1>13. ASSUME KeepsDates(r, e)
       PROVE  TakesAlong(s, Ticked(r) \ {pivot}, Ticked(r), Anchor(s) - Anchor(r))
  <2>1. Anchor(s) = Anchor(r) + delta
    BY <1>10, <1>11, <1>13, AnchorKept
  <2>2. Anchor(r) \in Int
    BY <1>1, TaskTyped
  <2>3. Anchor(s) - Anchor(r) = delta
    BY <1>3, <2>1, <2>2
  <2>4. Shift(Ticked(r) \ {pivot}, delta) \subseteq Shift(Ticked(r), delta)
    BY ShiftGrows
  <2> QED BY <1>12, <2>3, <2>4 DEF TakesAlong
<1> QED BY <1>5, <1>11, <1>13 DEF s

(* Cutting a series keeps the ticks before the pivot.                      *)
LEMMA CutKeepsEarlier ==
  ASSUME NEW r \in DatedSeries, NEW pivot \in Int
  PROVE  /\ CutTask(r, pivot) \in SoundTask
         /\ DropTail(r, pivot) \in SoundTask
         /\ Ticked(CutTask(r, pivot)) = {t \in Ticked(r) : t < pivot}
<1> DEFINE ovs  == OverridesBefore(r.overrides, pivot)
           rule == TruncateUntil(Anchor(r), r.rule, pivot)
           ex   == {t \in r.exdates : t < pivot}
<1>1. r \in SoundTask
  BY DEF DatedSeries
<1>2. rule \in Rule
  BY <1>1, TaskTyped, RuleTypes, 0 \in Int
<1>3. ovs \in SUBSET TaskOverride /\ OnePerSlot(ovs)
  <2>1. ovs \in SUBSET r.overrides
    BY DEF OverridesBefore
  <2> QED BY <1>1, <2>1, TaskTyped, FewerOverrides
<1>4. Ticks(ovs) = {t \in Ticks(r.overrides) : t < pivot}
  BY DEF Ticks, OverridesBefore
<1>5. /\ CutTask(r, pivot) = [r EXCEPT !.rule = rule, !.exdates = ex, !.overrides = ovs]
      /\ DropTail(r, pivot) = [r EXCEPT !.rule = rule, !.overrides = ovs]
  BY DEF CutTask, DropTail
<1>6. ex \in SUBSET Int
  BY <1>1, TaskTyped
<1> HIDE DEF ovs, rule, ex
<1>7. CutTask(r, pivot) \in SoundTask /\ CutTask(r, pivot).overrides = ovs
  BY <1>1, <1>2, <1>3, <1>5, <1>6, TaskTyped DEF SoundTask, Task
<1>8. DropTail(r, pivot) \in SoundTask
  BY <1>1, <1>2, <1>3, <1>5, TaskTyped DEF SoundTask, Task
<1>9. Ticked(CutTask(r, pivot)) = {t \in Ticked(r) : t < pivot}
  BY <1>4, <1>7 DEF Ticked, Ticks
<1> QED BY <1>7, <1>8, <1>9

(* The new series of a split takes the later ticks to where it starts.     *)
LEMMA FutureTakesLater ==
  ASSUME NEW r \in DatedSeries, NEW e \in Edit, NEW pivot \in Int
  PROVE  /\ FutureTask(r, e, pivot) \in SoundTask
         /\ KeepsDates(r, e) =>
              TakesAlong(FutureTask(r, e, pivot), {t \in Ticked(r) : t > pivot},
                      {t \in Ticked(r) : t >= pivot}, Anchor(FutureTask(r, e, pivot)) - pivot)
<1> DEFINE delta == FutureAnchor(r, e, pivot) - pivot
           kept  == {o \in r.overrides : o.rid > pivot}
           rule  == FutureTaskRule(r, e, pivot, delta)
           ovs   == ResetTaskOverrides(ShiftOverrides(kept, delta), e, e.start, e.due)
           ex    == Shift({t \in r.exdates : t >= pivot}, delta)
           s     == [start |-> e.start, due |-> e.due, title |-> e.title, done |-> FALSE,
                     rule |-> rule, exdates |-> ex, overrides |-> ovs]
<1>1. r \in SoundTask
  BY DEF DatedSeries
<1>2. FutureAnchor(r, e, pivot) \in Int
  BY FutureRuleTyped, 0 \in Int
<1>3. delta \in Int
  BY <1>2
<1>4. kept \in SUBSET TaskOverride /\ OnePerSlot(kept)
  <2>1. kept \in SUBSET r.overrides
    OBVIOUS
  <2> QED BY <1>1, <2>1, TaskTyped, FewerOverrides
<1>5. Ticks(kept) = {t \in Ticks(r.overrides) : t > pivot}
  BY DEF Ticks
<1>6. FutureTask(r, e, pivot) = s
  BY DEF FutureTask
<1>7. KeepsDates(r, e) => Anchor(s) - pivot = delta
  BY <1>2, AnchorKept
<1> HIDE DEF delta, kept
<1>8. rule \in Rule
  BY <1>3, FutureRuleTyped
<1>9. ovs \in SUBSET TaskOverride /\ OnePerSlot(ovs) /\ Ticks(ovs) = Shift(Ticks(kept), delta)
  BY <1>3, <1>4, EditTyped, CarriedTicks
<1>10. ex \in SUBSET Int
  <2>1. {t \in r.exdates : t >= pivot} \in SUBSET Int
    BY <1>1, TaskTyped
  <2> QED BY <1>3, <2>1, ShiftTypes
<1> HIDE DEF rule, ovs, ex
<1>11. s \in SoundTask /\ s.overrides = ovs
  BY <1>8, <1>9, <1>10, EditTyped DEF SoundTask, Task
<1> HIDE DEF s
<1>12. Ticked(s) = Shift({t \in Ticked(r) : t > pivot}, delta)
  BY <1>5, <1>9, <1>11 DEF Ticked, Ticks
<1>13. {t \in Ticked(r) : t > pivot} \subseteq {t \in Ticked(r) : t >= pivot}
  <2>1. \A t \in Ticked(r) : t \in Int
    BY <1>1, TaskTyped DEF Ticked, TaskOverride
  <2> QED BY <2>1
<1>14. Shift({t \in Ticked(r) : t > pivot}, delta) \subseteq Shift({t \in Ticked(r) : t >= pivot}, delta)
  BY <1>13, ShiftGrows
<1>15. ASSUME KeepsDates(r, e)
       PROVE  TakesAlong(s, {t \in Ticked(r) : t > pivot}, {t \in Ticked(r) : t >= pivot},
                      Anchor(s) - pivot)
  BY <1>7, <1>12, <1>14, <1>15 DEF TakesAlong
<1> QED BY <1>6, <1>11, <1>15

-----------------------------------------------------------------------------
(* The invariant: TypeOK, with every task sound that is stored or waits to *)
(* be PUT.                                                                 *)
SoundWrite == [uid : Uids, res : SoundTask \cup {NoTask}]

IInv ==
  /\ store \in [Uids -> SoundTask \cup {NoTask}]
  /\ minted \subseteq Uids
  /\ request \in [Clients -> Request \cup {NoRequest}]
  /\ after \in [Clients -> StatusRequest \cup {NoRequest}]
  /\ writes \in [Clients -> Seq(SoundWrite)]
  /\ reply \in [Clients -> {"none", "ok", "notfound", "error"}]
  /\ sent \in 0 .. MaxRequests
  /\ \A c \in Clients : after[c] # NoRequest => reply[c] \in {"none", "ok"}

LEMMA InitHolds == Init => IInv
<1> SUFFICES ASSUME Init PROVE IInv
  OBVIOUS
<1>1. PICK u \in Uids, first \in FirstTasks :
        /\ store = [v \in Uids |-> IF v = u THEN first ELSE NoTask]
        /\ minted = {u}
  BY DEF Init
<1>2. first \in SoundTask
  BY TaskListAssumption DEF SoundTask
<1>3. store \in [Uids -> SoundTask \cup {NoTask}] /\ minted \subseteq Uids
  BY <1>1, <1>2
<1>4. writes \in [Clients -> Seq(SoundWrite)]
  BY DEF Init
<1> QED BY <1>3, <1>4, TaskListAssumption DEF Init, IInv

-----------------------------------------------------------------------------
(* The client.                                                             *)

LEMMA ItemTyped ==
  ASSUME NEW r \in SoundTask, NEW i \in Items(r, Window)
  PROVE  /\ i.start \in Date /\ i.due \in Date /\ i.title \in Titles /\ i.done \in BOOLEAN
         /\ i.slot \in Int \cup {Absent}
<1>1. CASE Anchor(r) = Absent
  BY <1>1, TaskTyped DEF Items, Item, Date
<1>2. CASE i \in PlainItems(r, Window) /\ Anchor(r) # Absent
  <2>1. PICK t \in Window : i = Item(t, OccurrenceSpan(r, t), r.title, r.done)
    BY <1>2 DEF PlainItems
  <2>2. t \in Int
    BY TaskListAssumption
  <2> QED BY <1>2, <2>1, <2>2, SpanTyped, TaskTyped DEF Item
<1>3. CASE i \in CustomItems(r)
  <2>1. PICK o \in r.overrides :
          i = Item(o.rid, [start |-> o.start, due |-> o.due], o.title, o.done)
    BY <1>3 DEF CustomItems
  <2>2. o \in TaskOverride
    BY TaskTyped
  <2> QED BY <2>1, <2>2 DEF Item, TaskOverride
<1> QED BY <1>1, <1>2, <1>3 DEF Items

LEMMA LiveTasks ==
  ASSUME IInv, NEW uid \in Live, NEW i \in Items(store[uid], Window)
  PROVE  /\ uid \in Uids /\ store[uid] \in SoundTask
         /\ PivotOf(uid, i) \in Int \cup {NoPivot}
         /\ i.start \in Date /\ i.due \in Date /\ i.title \in Titles /\ i.done \in BOOLEAN
         /\ store[uid].rule \in Rule \cup {NoRule}
<1>1. uid \in Uids /\ store[uid] \in SoundTask
  BY DEF IInv, Live
<1>2. PivotOf(uid, i) \in Int \cup {NoPivot}
  BY <1>1, ItemTyped DEF PivotOf
<1> QED BY <1>1, <1>2, ItemTyped, TaskTyped

LEMMA SendKeeps ==
  ASSUME IInv, NEW c \in Clients, NEW q \in Request,
         NEW then \in StatusRequest \cup {NoRequest}, Idle(c), Send(c, q, then),
         minted' \subseteq Uids
  PROVE  IInv'
<1>1. sent' \in 0 .. MaxRequests
  BY TaskListAssumption DEF IInv, Send, Idle
<1>2. /\ request' \in [Clients -> Request \cup {NoRequest}]
      /\ after' \in [Clients -> StatusRequest \cup {NoRequest}]
      /\ reply' \in [Clients -> {"none", "ok", "notfound", "error"}]
  BY DEF IInv, Send
<1>3. \A d \in Clients : after'[d] # NoRequest => reply'[d] \in {"none", "ok"}
  BY DEF IInv, Send
<1> QED BY <1>1, <1>2, <1>3 DEF IInv, Send

LEMMA EditSent ==
  ASSUME IInv, NEW c \in Clients, NEW uid \in Live, NEW i \in Items(store[uid], Window),
         NEW scope \in Scopes, NEW e \in Edit, NEW then \in StatusRequest \cup {NoRequest},
         Idle(c), Send(c, EditRequest(uid, i, scope, e), then), UNCHANGED minted
  PROVE  IInv'
<1>1. EditRequest(uid, i, scope, e) \in Request
  BY LiveTasks DEF EditRequest, Request
<1>2. minted' \subseteq Uids
  BY DEF IInv
<1> QED BY <1>1, <1>2, SendKeeps

LEMMA ScopesOfTyped ==
  ASSUME NEW uid
  PROVE  ScopesOf(uid) \subseteq Scopes
BY DEF ScopesOf, Scopes

LEMMA StatusTyped ==
  ASSUME IInv, NEW uid \in Live, NEW i \in Items(store[uid], Window), NEW done \in BOOLEAN
  PROVE  Status(uid, i, done) \in StatusRequest
BY LiveTasks DEF Status, StatusRequest

LEMMA DragKeeps ==
  ASSUME IInv, NEW c \in Clients, Drag(c)
  PROVE  IInv'
<1>1. PICK uid \in Live : \E i \in Items(store[uid], Window), d \in Moves,
        scope \in ScopesOf(uid), reset \in {{}, {"time"}} :
          /\ Send(c, EditRequest(uid, i, scope,
                 [start |-> DatesMoved(i, d).start, due |-> DatesMoved(i, d).due,
                  title |-> i.title, rule |-> NoRule, reset |-> reset]), NoRequest)
          /\ UNCHANGED minted
  BY DEF Drag
<1>2. PICK i \in Items(store[uid], Window), d \in Moves,
        scope \in ScopesOf(uid), reset \in {{}, {"time"}} :
          /\ Send(c, EditRequest(uid, i, scope,
                 [start |-> DatesMoved(i, d).start, due |-> DatesMoved(i, d).due,
                  title |-> i.title, rule |-> NoRule, reset |-> reset]), NoRequest)
          /\ UNCHANGED minted
  BY <1>1
<1> DEFINE e == [start |-> DatesMoved(i, d).start, due |-> DatesMoved(i, d).due,
                 title |-> i.title, rule |-> NoRule, reset |-> reset]
<1>3. DatesMoved(i, d).start \in Date /\ DatesMoved(i, d).due \in Date
  BY LiveTasks, PlusTyped, TaskListAssumption DEF DatesMoved
<1>4. reset \in SUBSET Fields /\ i.title \in Titles
  BY LiveTasks DEF Fields
<1>5. e \in Edit
  BY <1>3, <1>4 DEF Edit
<1>6. Send(c, EditRequest(uid, i, scope, e), NoRequest) /\ UNCHANGED minted
  BY <1>2
<1>7. Idle(c)
  BY DEF Drag
<1> HIDE DEF e
<1> QED BY <1>5, <1>6, <1>7, ScopesOfTyped, EditSent

LEMMA DatesForTyped ==
  ASSUME IInv, NEW uid \in Live, NEW i \in Items(store[uid], Window), NEW to \in DatesFor(i)
  PROVE  /\ to.start \in Date /\ to.due \in Date
         /\ to # Undated => Anchor(to) # Absent
<1>1. \A d \in Moves \cup {0} : d \in Int
  BY TaskListAssumption
<1>2. CASE to \in {DatesMoved(i, d) : d \in Moves \cup {0}}
  <2>1. PICK d \in Moves \cup {0} : to = [start |-> Plus(i.start, d), due |-> Plus(i.due, d)]
    BY <1>2 DEF DatesMoved
  <2>2. to.start \in Date /\ to.due \in Date
    BY <1>1, <2>1, LiveTasks, PlusTyped
  <2> QED BY <2>1, <2>2 DEF Anchor, Undated
<1>3. CASE to = [start |-> i.due, due |-> i.due]
  BY <1>3, LiveTasks DEF Anchor, Undated
<1>4. CASE to = Undated
  BY <1>4 DEF Undated, Date
<1>5. CASE to \in {[start |-> Absent, due |-> d] : d \in {e \in Moves : i.slot = Absent}}
  BY <1>1, <1>5, AbsentAssumption DEF Anchor, Date
<1> QED BY <1>2, <1>3, <1>4, <1>5 DEF DatesFor

LEMMA SaveKeeps ==
  ASSUME IInv, NEW c \in Clients, Save(c)
  PROVE  IInv'
<1> DEFINE E(to, title, rule, scope, reset) ==
             [start |-> to.start, due |-> to.due, title |-> title,
              rule |-> IF scope = "this" THEN NoRule ELSE rule, reset |-> reset]
           After(uid, i, tick) == IF tick THEN Status(uid, i, ~i.done) ELSE NoRequest
           Rules(uid, to) == IF to = Undated THEN {NoRule} ELSE {store[uid].rule} \cup NewRules
           Sent(uid, i, title, scope, tick, to, rule, reset) ==
             /\ (scope = "this" \/ ~IsRecurring(store[uid])) => reset = {}
             /\ Send(c, EditRequest(uid, i, scope, E(to, title, rule, scope, reset)),
                     After(uid, i, tick))
<1>1. PICK uid \in Live : \E i \in Items(store[uid], Window), title \in Titles,
        scope \in ScopesOf(uid), tick \in BOOLEAN : \E to \in DatesFor(i) :
          \E rule \in Rules(uid, to), reset \in {{}, Changed(i, to, title)} :
             Sent(uid, i, title, scope, tick, to, rule, reset)
  BY DEF Save
<1>2. PICK i \in Items(store[uid], Window), title \in Titles,
        scope \in ScopesOf(uid), tick \in BOOLEAN : \E to \in DatesFor(i) :
          \E rule \in Rules(uid, to), reset \in {{}, Changed(i, to, title)} :
             Sent(uid, i, title, scope, tick, to, rule, reset)
  BY <1>1
<1>3. PICK to \in DatesFor(i) :
        \E rule \in Rules(uid, to), reset \in {{}, Changed(i, to, title)} :
           Sent(uid, i, title, scope, tick, to, rule, reset)
  BY <1>2
<1>4. PICK rule \in Rules(uid, to), reset \in {{}, Changed(i, to, title)} :
        Sent(uid, i, title, scope, tick, to, rule, reset)
  BY <1>3
<1>5. rule \in Rule \cup {NoRule} /\ (rule # NoRule => to # Undated)
  BY LiveTasks, TaskListAssumption
<1>6. Anchor(E(to, title, rule, scope, reset)) = Anchor(to)
  BY DEF Anchor
<1>7. reset \in SUBSET Fields
  BY DEF Changed
<1>8. E(to, title, rule, scope, reset) \in Edit
  BY <1>5, <1>6, <1>7, DatesForTyped DEF Edit
<1>9. After(uid, i, tick) \in StatusRequest \cup {NoRequest}
  BY LiveTasks, StatusTyped
<1>10. Idle(c) /\ UNCHANGED minted
  BY DEF Save
<1>11. Send(c, EditRequest(uid, i, scope, E(to, title, rule, scope, reset)), After(uid, i, tick))
  BY <1>4 DEF Sent
<1> HIDE DEF E, After, Sent
<1> QED BY <1>8, <1>9, <1>10, <1>11, ScopesOfTyped, EditSent

LEMMA OtherGesturesKeep ==
  ASSUME IInv, NEW c \in Clients, Toggle(c) \/ Delete(c) \/ Create(c)
  PROVE  IInv'
<1>4. Idle(c)
  BY DEF Toggle, Delete, Create
<1>1. CASE Toggle(c)
  <2>1. PICK uid \in Live : \E i \in Items(store[uid], Window) :
          Send(c, Status(uid, i, ~i.done), NoRequest) /\ UNCHANGED minted
    BY <1>1 DEF Toggle
  <2>2. PICK i \in Items(store[uid], Window) :
          Send(c, Status(uid, i, ~i.done), NoRequest) /\ UNCHANGED minted
    BY <2>1
  <2>3. Status(uid, i, ~i.done) \in Request
    BY LiveTasks, StatusTyped DEF Request
  <2>4. minted' \subseteq Uids
    BY <2>2 DEF IInv
  <2> QED BY <2>2, <2>3, <2>4, <1>4, SendKeeps
<1>2. CASE Delete(c)
  <2> DEFINE Q(uid, i, scope) == [op |-> "delete", uid |-> uid, scope |-> scope,
                                  rid |-> PivotOf(uid, i)]
  <2>1. PICK uid \in Live : \E i \in Items(store[uid], Window), scope \in ScopesOf(uid) :
          Send(c, Q(uid, i, scope), NoRequest) /\ UNCHANGED minted
    BY <1>2 DEF Delete
  <2>2. PICK i \in Items(store[uid], Window), scope \in ScopesOf(uid) :
          Send(c, Q(uid, i, scope), NoRequest) /\ UNCHANGED minted
    BY <2>1
  <2>3. Q(uid, i, scope) \in Request
    BY LiveTasks, ScopesOfTyped DEF Request
  <2>4. minted' \subseteq Uids
    BY <2>2 DEF IInv
  <2> HIDE DEF Q
  <2> QED BY <2>2, <2>3, <2>4, <1>4, SendKeeps
<1>3. CASE Create(c)
  <2> DEFINE E(first, rule) == [start |-> first.start, due |-> first.due,
                                title |-> first.title, rule |-> rule, reset |-> {}]
             Q(uid, e) == [op |-> "create", uid |-> uid, edit |-> e]
  <2>1. PICK uid \in Uids \ minted, first \in FirstTasks, rule \in NewRules \cup {NoRule} :
          /\ Anchor(first) = Absent => rule = NoRule
          /\ Send(c, Q(uid, E(first, rule)), NoRequest)
          /\ minted' = minted \cup {uid}
    BY <1>3 DEF Create
  <2>2. first \in SoundTask /\ rule \in Rule \cup {NoRule}
    BY TaskListAssumption DEF SoundTask
  <2>3. Anchor(E(first, rule)) = Anchor(first)
    BY DEF Anchor
  <2>4. E(first, rule) \in Edit
    BY <2>1, <2>2, <2>3, TaskTyped DEF Edit
  <2> HIDE DEF E
  <2>5. Q(uid, E(first, rule)) \in Request
    BY <2>4 DEF Request
  <2>6. minted' \subseteq Uids
    BY <2>1 DEF IInv
  <2> HIDE DEF Q
  <2> QED BY <2>1, <2>5, <2>6, <1>4, SendKeeps
<1> QED BY <1>1, <1>2, <1>3

LEMMA PostStatusKeeps ==
  ASSUME IInv, NEW c \in Clients, PostStatus(c)
  PROVE  IInv'
<1>1. after[c] \in Request
  BY DEF IInv, PostStatus, Request
<1>2. request' \in [Clients -> Request \cup {NoRequest}]
  BY <1>1 DEF IInv, PostStatus
<1>3. /\ after' \in [Clients -> StatusRequest \cup {NoRequest}]
      /\ reply' \in [Clients -> {"none", "ok", "notfound", "error"}]
      /\ \A d \in Clients : after'[d] # NoRequest => reply'[d] \in {"none", "ok"}
  BY DEF IInv, PostStatus
<1> QED BY <1>2, <1>3 DEF IInv, PostStatus

-----------------------------------------------------------------------------
(* The handlers.                                                           *)

LEMMA PlanKeeps ==
  ASSUME IInv, NEW c \in Clients, NEW todo \in Seq(SoundWrite), Plan(c, todo),
         minted' \subseteq Uids
  PROVE  IInv'
BY DEF IInv, Plan

LEMMA FailKeeps ==
  ASSUME IInv, NEW c \in Clients, NEW answer \in {"notfound", "error"}, Fail(c, answer)
  PROVE  IInv'
<1>1. <<>> \in Seq(SoundWrite)
  OBVIOUS
<1>2. writes' \in [Clients -> Seq(SoundWrite)]
  BY <1>1 DEF IInv, Fail
<1>3. /\ request' \in [Clients -> Request \cup {NoRequest}]
      /\ after' \in [Clients -> StatusRequest \cup {NoRequest}]
      /\ reply' \in [Clients -> {"none", "ok", "notfound", "error"}]
      /\ \A d \in Clients : after'[d] # NoRequest => reply'[d] \in {"none", "ok"}
  BY DEF IInv, Fail
<1> QED BY <1>2, <1>3 DEF IInv, Fail

(* One PUT or DELETE in answer to a request.                               *)
LEMMA ReplaceKeeps ==
  ASSUME IInv, NEW c \in Clients, NEW res \in SoundTask \cup {NoTask},
         request[c].uid \in Uids, Replace(c, res)
  PROVE  IInv' /\ writes'[c][1].res = res
<1> DEFINE w == PutOf(request[c].uid, res)
<1>1. w \in SoundWrite /\ w.res = res
  BY DEF PutOf, SoundWrite
<1>2. Plan(c, <<w>>) /\ UNCHANGED minted
  BY DEF Replace
<1> HIDE DEF w
<1>3. <<w>> \in Seq(SoundWrite)
  BY <1>1
<1>4. minted' \subseteq Uids
  BY <1>2 DEF IInv
<1>5. writes'[c] = <<w>>
  BY <1>2 DEF Plan, IInv
<1>6. IInv'
  BY <1>2, <1>3, <1>4, PlanKeeps
<1>7. <<w>>[1] = w
  OBVIOUS
<1> QED BY <1>1, <1>5, <1>6, <1>7

(* What a handler finds: a sound task, and a pivot where one was sent.     *)
LEMMA Found ==
  ASSUME IInv, NEW c \in Clients, NEW op \in {"edit", "delete", "status"}, Finds(c, op)
  PROVE  /\ request[c].uid \in Uids /\ Target(c) \in SoundTask
         /\ op = "edit" => request[c].edit \in Edit
         /\ op = "status" => request[c].done \in BOOLEAN
         /\ request[c].rid \in Int \cup {NoPivot}
<1>1. request[c] \in Request /\ request[c].op = op
  BY DEF Finds, Asks, IInv
<1>2. /\ request[c].uid \in Uids /\ request[c].rid \in Int \cup {NoPivot}
      /\ op = "edit" => request[c].edit \in Edit
      /\ op = "status" => request[c].done \in BOOLEAN
  BY <1>1 DEF Request, StatusRequest
<1>3. Target(c) \in SoundTask
  BY <1>2 DEF Finds, Target, IInv
<1> QED BY <1>2, <1>3

LEMMA FoundOccurrence ==
  ASSUME IInv, NEW c \in Clients, NEW op \in {"edit", "delete", "status"},
         FindsOccurrence(c, op)
  PROVE  /\ request[c].uid \in Uids /\ Target(c) \in DatedSeries
         /\ op = "edit" => request[c].edit \in Edit
         /\ op = "status" => request[c].done \in BOOLEAN
         /\ request[c].rid \in Int
         /\ \A pivot \in Pivots(c) : pivot \in Int
<1>1. Finds(c, op) /\ ~Whole(c) /\ Anchor(Target(c)) # Absent
  BY DEF FindsOccurrence
<1>2. Target(c) \in DatedSeries /\ request[c].rid \in Int
  BY <1>1, Found DEF Whole, IsRecurring, DatedSeries
<1>3. Target(c).overrides \in SUBSET TaskOverride
  BY <1>1, Found, TaskTyped
<1>4. \A o \in Target(c).overrides : o.rid \in Int
  BY <1>3 DEF TaskOverride
<1>5. \A pivot \in Pivots(c) : pivot \in Int
  BY <1>2, <1>4 DEF Pivots, ResolveTaskPivot
<1> QED BY <1>1, <1>2, <1>5, Found

LEMMA CreateKeeps ==
  ASSUME IInv, NEW c \in Clients, CreateTask(c)
  PROVE  IInv'
<1> DEFINE e == request[c].edit
           rule == IF e.rule = NoRule THEN NoRule ELSE BuildRule(e.rule, Anchor(e))
           t == [start |-> e.start, due |-> e.due, title |-> e.title, done |-> FALSE,
                 rule |-> rule, exdates |-> {}, overrides |-> {}]
<1>1. request[c] \in Request /\ request[c].op = "create"
  BY DEF CreateTask, Asks, IInv
<1>2. request[c].uid \in Uids /\ e \in Edit
  BY <1>1 DEF Request, StatusRequest
<1>3. Replace(c, t)
  BY DEF CreateTask
<1> HIDE DEF e
<1>4. rule \in Rule \cup {NoRule}
  BY <1>2, EditTyped, RuleTypes
<1> HIDE DEF rule
<1>5. t \in SoundTask
  BY <1>2, <1>4, EditTyped DEF SoundTask, Task, OnePerSlot
<1> HIDE DEF t
<1> QED BY <1>2, <1>3, <1>5, ReplaceKeeps

LEMMA AllKeeps ==
  ASSUME IInv, NEW c \in Clients, UpdateTaskAll(c)
  PROVE  /\ IInv'
         /\ Ticked(writes'[c][1].res) =
              Shift(Ticked(Target(c)), Anchor(writes'[c][1].res) - Anchor(Target(c)))
         /\ writes'[c][1].res.done = Target(c).done
<1>1. FindsOccurrence(c, "edit")
  BY DEF UpdateTaskAll, FindsScoped
<1>2. PICK pivot \in Pivots(c) :
        Replace(c, EditTaskAll(Target(c), request[c].edit, pivot))
  BY DEF UpdateTaskAll
<1>3. Target(c) \in DatedSeries /\ request[c].edit \in Edit /\ pivot \in Int
      /\ request[c].uid \in Uids
  BY <1>1, FoundOccurrence
<1> DEFINE s == EditTaskAll(Target(c), request[c].edit, pivot)
<1>4. /\ s \in SoundTask /\ s.done = Target(c).done
      /\ Ticked(s) = Shift(Ticked(Target(c)), Anchor(s) - Anchor(Target(c)))
  BY <1>3, EditAllCarries
<1>5. Replace(c, s)
  BY <1>2
<1> HIDE DEF s
<1>6. IInv' /\ writes'[c][1].res = s
  BY <1>3, <1>4, <1>5, ReplaceKeeps
<1> QED BY <1>4, <1>6

LEMMA FirstKeeps ==
  ASSUME IInv, NEW c \in Clients, UpdateTaskFirst(c)
  PROVE  /\ IInv'
         /\ KeepsDates(Target(c), request[c].edit) =>
              \E pivot \in Pivots(c) :
                TakesAlong(writes'[c][1].res, Ticked(Target(c)) \ {pivot}, Ticked(Target(c)),
                        Anchor(writes'[c][1].res) - Anchor(Target(c)))
<1>1. FindsOccurrence(c, "edit")
  BY DEF UpdateTaskFirst, FindsScoped
<1>2. PICK pivot \in Pivots(c) :
        Replace(c, RewriteTask(Target(c), request[c].edit, pivot))
  BY DEF UpdateTaskFirst
<1>3. Target(c) \in DatedSeries /\ request[c].edit \in Edit /\ pivot \in Int
      /\ request[c].uid \in Uids
  BY <1>1, FoundOccurrence
<1> DEFINE s == RewriteTask(Target(c), request[c].edit, pivot)
<1>4. /\ s \in SoundTask
      /\ KeepsDates(Target(c), request[c].edit) =>
           TakesAlong(s, Ticked(Target(c)) \ {pivot}, Ticked(Target(c)),
                   Anchor(s) - Anchor(Target(c)))
  BY <1>3, RewriteCarries
<1>5. Replace(c, s)
  BY <1>2
<1> HIDE DEF s
<1>6. IInv' /\ writes'[c][1].res = s
  BY <1>3, <1>4, <1>5, ReplaceKeeps
<1> QED BY <1>4, <1>6

(* Edits of a task, and what they do to the ticks of a series.             *)
LEMMA UpdateKeeps ==
  ASSUME IInv, NEW c \in Clients,
         UpdateTask(c) \/ UpdateTaskAll(c) \/ UpdateTaskFirst(c)
  PROVE  IInv'
<1>1. CASE UpdateTask(c)
  <2>1. request[c].uid \in Uids /\ Target(c) \in SoundTask /\ request[c].edit \in Edit
    BY <1>1, Found DEF UpdateTask
  <2>2. EditTask(Target(c), request[c].edit) \in SoundTask
    BY <2>1, PlainEditsStaySound, 0 \in Int, TRUE \in BOOLEAN
  <2> QED BY <1>1, <2>1, <2>2, ReplaceKeeps DEF UpdateTask
<1>2. CASE UpdateTaskAll(c)
  BY <1>2, AllKeeps
<1>3. CASE UpdateTaskFirst(c)
  BY <1>3, FirstKeeps
<1> QED BY <1>1, <1>2, <1>3

LEMMA ThisKeeps ==
  ASSUME IInv, NEW c \in Clients, UpdateTaskThis(c)
  PROVE  IInv' /\ Ticked(writes'[c][1].res) = Ticked(Target(c))
<1> DEFINE r == Target(c)
           e == request[c].edit
<1>1. FindsOccurrence(c, "edit")
  BY DEF UpdateTaskThis, FindsScoped
<1>2. PICK pivot \in Pivots(c) : Replace(c, EditTaskThis(r, e, pivot))
  BY DEF UpdateTaskThis
<1>3. r \in DatedSeries /\ e \in Edit /\ pivot \in Int /\ request[c].uid \in Uids
  BY <1>1, FoundOccurrence
<1>4. r \in SoundTask
  BY <1>3 DEF DatedSeries
<1> HIDE DEF r, e
<1>5. EditTaskThis(r, e, pivot) \in SoundTask
  BY <1>3, <1>4, PlainEditsStaySound, TRUE \in BOOLEAN
<1>6. IInv' /\ writes'[c][1].res = EditTaskThis(r, e, pivot)
  BY <1>2, <1>3, <1>5, ReplaceKeeps
<1>7. Ticked(EditTaskThis(r, e, pivot)) = Ticked(r)
  <2> DEFINE done == \E o \in At(r, pivot) : o.done
             new == [rid |-> pivot, start |-> e.start, due |-> e.due,
                     title |-> e.title, done |-> done]
  <2>1. EditTaskThis(r, e, pivot) = [r EXCEPT !.overrides = NotAt(r, pivot) \cup {new}]
    BY DEF EditTaskThis, WithOverride
  <2>2. new.rid = pivot /\ new.done = done
    OBVIOUS
  <2> HIDE DEF new, done
  <2>3. r.overrides = NotAt(r, pivot) \cup At(r, pivot) /\ \A o \in At(r, pivot) : o.rid = pivot
    BY DEF NotAt, At
  <2>4. [r EXCEPT !.overrides = NotAt(r, pivot) \cup {new}].overrides = NotAt(r, pivot) \cup {new}
    BY <1>4, TaskTyped DEF Task
  <2>5. Ticked(EditTaskThis(r, e, pivot)) = Ticks(NotAt(r, pivot)) \cup (IF done THEN {pivot} ELSE {})
    BY <2>1, <2>2, <2>4 DEF Ticked, Ticks
  <2>6. Ticked(r) = Ticks(NotAt(r, pivot)) \cup Ticks(At(r, pivot))
    BY <2>3 DEF Ticked, Ticks
  <2>7. Ticks(At(r, pivot)) = IF done THEN {pivot} ELSE {}
    BY <2>3 DEF Ticks, done
  <2> QED BY <2>5, <2>6, <2>7
<1> QED BY <1>6, <1>7 DEF r

LEMMA SplitKeeps ==
  ASSUME IInv, NEW c \in Clients, UpdateTaskSplit(c)
  PROVE  /\ IInv'
         /\ \E pivot \in Pivots(c) :
              /\ Ticked(writes'[c][1].res) = {t \in Ticked(Target(c)) : t < pivot}
              /\ KeepsDates(Target(c), request[c].edit) =>
                   TakesAlong(writes'[c][2].res, {t \in Ticked(Target(c)) : t > pivot},
                           {t \in Ticked(Target(c)) : t >= pivot},
                           Anchor(writes'[c][2].res) - pivot)
<1> DEFINE r == Target(c)
           e == request[c].edit
<1>1. FindsOccurrence(c, "edit")
  BY DEF UpdateTaskSplit, FindsScoped
<1>2. PICK pivot \in Pivots(c), new \in Uids \ minted :
        /\ Plan(c, <<PutOf(request[c].uid, CutTask(r, pivot)),
                     PutOf(new, FutureTask(r, e, pivot))>>)
        /\ minted' = minted \cup {new}
  BY DEF UpdateTaskSplit
<1>3. r \in DatedSeries /\ e \in Edit /\ pivot \in Int /\ request[c].uid \in Uids
  BY <1>1, FoundOccurrence
<1>4. CutTask(r, pivot) \in SoundTask /\ FutureTask(r, e, pivot) \in SoundTask
  BY <1>3, CutKeepsEarlier, FutureTakesLater
<1> DEFINE v == PutOf(request[c].uid, CutTask(r, pivot))
           w == PutOf(new, FutureTask(r, e, pivot))
<1>5. /\ v \in SoundWrite /\ v.res = CutTask(r, pivot)
      /\ w \in SoundWrite /\ w.res = FutureTask(r, e, pivot)
  BY <1>3, <1>4 DEF PutOf, SoundWrite
<1>6. Plan(c, <<v, w>>) /\ minted' \subseteq Uids
  BY <1>2 DEF IInv
<1> HIDE DEF v, w, r, e
<1>7. <<v, w>> \in Seq(SoundWrite)
  BY <1>5
<1>8. IInv'
  BY <1>6, <1>7, PlanKeeps
<1>9. writes'[c] = <<v, w>>
  BY <1>6 DEF Plan, IInv
<1>10. writes'[c][1].res = CutTask(r, pivot) /\ writes'[c][2].res = FutureTask(r, e, pivot)
  BY <1>5, <1>9
<1> QED BY <1>3, <1>8, <1>10, CutKeepsEarlier, FutureTakesLater DEF r, e

LEMMA DeletesKeep ==
  ASSUME IInv, NEW c \in Clients, DeleteTask(c) \/ DeleteOccurrence(c) \/ DeleteTail(c)
  PROVE  IInv'
<1>1. CASE DeleteTask(c)
  BY <1>1, Found, ReplaceKeeps DEF DeleteTask
<1>2. CASE DeleteOccurrence(c)
  <2>1. FindsOccurrence(c, "delete") /\ Replace(c, SkipOccurrence(Target(c), request[c].rid))
    BY <1>2 DEF DeleteOccurrence, FindsScoped
  <2>2. Finds(c, "delete")
    BY <2>1 DEF FindsOccurrence
  <2>3. SkipOccurrence(Target(c), request[c].rid) \in SoundTask
    BY <2>1, FoundOccurrence DEF DatedSeries, SkipOccurrence, SoundTask, Task
  <2> QED BY <2>1, <2>2, <2>3, Found, ReplaceKeeps
<1>3. CASE DeleteTail(c)
  <2>1. FindsOccurrence(c, "delete") /\ Replace(c, DropTail(Target(c), request[c].rid))
    BY <1>3 DEF DeleteTail, FindsScoped
  <2> QED BY <2>1, FoundOccurrence, CutKeepsEarlier, ReplaceKeeps
<1> QED BY <1>1, <1>2, <1>3

LEMMA StatusKeeps ==
  ASSUME IInv, NEW c \in Clients, SetStatus(c) \/ SetOccurrenceStatus(c)
  PROVE  IInv'
<1>1. CASE SetStatus(c)
  <2>1. Finds(c, "status") /\ Replace(c, TickWhole(Target(c), request[c].done))
    BY <1>1 DEF SetStatus
  <2>2. TickWhole(Target(c), request[c].done) \in SoundTask
    BY <2>1, Found DEF TickWhole, SoundTask, Task
  <2> QED BY <2>1, <2>2, Found, ReplaceKeeps
<1>2. CASE SetOccurrenceStatus(c)
  <2>1. FindsOccurrence(c, "status")
    BY <1>2 DEF SetOccurrenceStatus
  <2>2. PICK pivot \in Pivots(c) :
          Replace(c, TickOccurrence(Target(c), pivot, request[c].done))
    BY <1>2 DEF SetOccurrenceStatus
  <2> QED BY <2>1, <2>2, FoundOccurrence, TickStaysSound, ReplaceKeeps
<1> QED BY <1>1, <1>2

LEMMA PutKeeps ==
  ASSUME IInv, NEW c \in Clients, Put(c)
  PROVE  IInv'
<1> DEFINE w == Head(writes[c])
<1>1. writes[c] \in Seq(SoundWrite) /\ writes[c] # <<>>
  BY DEF IInv, Put
<1>2. w \in SoundWrite /\ Tail(writes[c]) \in Seq(SoundWrite)
  BY <1>1
<1>3. w.uid \in Uids /\ w.res \in SoundTask \cup {NoTask}
  BY <1>2 DEF SoundWrite
<1>4. store' = [store EXCEPT ![w.uid] = w.res]
  BY DEF Put
<1> HIDE DEF w
<1>5. store' \in [Uids -> SoundTask \cup {NoTask}]
  BY <1>3, <1>4 DEF IInv
<1>6. writes' \in [Clients -> Seq(SoundWrite)]
  BY <1>2 DEF IInv, Put
<1>7. /\ reply' \in [Clients -> {"none", "ok", "notfound", "error"}]
      /\ \A d \in Clients : after'[d] # NoRequest => reply'[d] \in {"none", "ok"}
  BY DEF IInv, Put
<1> QED BY <1>5, <1>6, <1>7 DEF IInv, Put

LEMMA StepKeeps == IInv /\ [Next]_vars => IInv'
<1> SUFFICES ASSUME IInv, [Next]_vars PROVE IInv'
  OBVIOUS
<1>1. CASE UNCHANGED vars
  BY <1>1 DEF IInv, vars
<1>2. ASSUME NEW c \in Clients, Handle(c) PROVE IInv'
  <2>1. CASE NotFound(c)
    BY <2>1, FailKeeps DEF NotFound
  <2>2. CASE LosesAnchor(c)
    BY <2>2, FailKeeps DEF LosesAnchor
  <2>3. CASE ~NotFound(c) /\ ~LosesAnchor(c)
    BY <1>2, <2>3, CreateKeeps, UpdateKeeps, ThisKeeps, SplitKeeps, DeletesKeep, StatusKeeps
       DEF Handle
  <2> QED BY <2>1, <2>2, <2>3
<1>3. ASSUME NEW c \in Clients, CallFails(c) PROVE IInv'
  BY <1>3, FailKeeps DEF CallFails
<1> QED BY <1>1, <1>2, <1>3, DragKeeps, SaveKeeps, OtherGesturesKeep, PostStatusKeeps, PutKeeps
        DEF Next

LEMMA AlwaysIInv == Spec => []IInv
BY InitHolds, StepKeeps, PTL DEF Spec

-----------------------------------------------------------------------------
(* What a tick shows.                                                      *)

(* A tick touches the overrides of its slot only.                          *)
LEMMA TickTouches ==
  ASSUME NEW r \in DatedSeries, NEW pivot \in Int, NEW done \in BOOLEAN
  PROVE  LET s == TickOccurrence(r, pivot, done)
         IN  /\ s.start = r.start /\ s.due = r.due /\ s.rule = r.rule
             /\ s.exdates = r.exdates /\ s.title = r.title /\ s.done = r.done
             /\ NotAt(s, pivot) = NotAt(r, pivot)
             /\ At(r, pivot) = {} =>
                  At(s, pivot) =
                    IF done THEN {[rid |-> pivot, start |-> OccurrenceSpan(r, pivot).start,
                                   due |-> OccurrenceSpan(r, pivot).due,
                                   title |-> r.title, done |-> TRUE]}
                    ELSE {}
             /\ At(r, pivot) # {} =>
                  At(s, pivot) = {[o EXCEPT !.done = done] :
                                    o \in {p \in At(r, pivot) : done \/ Moved(r, p)}}
<1> DEFINE new == [rid |-> pivot, start |-> OccurrenceSpan(r, pivot).start,
                   due |-> OccurrenceSpan(r, pivot).due, title |-> r.title, done |-> TRUE]
           toggled == {[o EXCEPT !.done = done] :
                         o \in {p \in At(r, pivot) : done \/ Moved(r, p)}}
           there == IF At(r, pivot) # {} THEN toggled ELSE IF done THEN {new} ELSE {}
           s == [r EXCEPT !.overrides = NotAt(r, pivot) \cup there]
<1>1. r \in SoundTask /\ r \in Task /\ r.overrides \in SUBSET TaskOverride
  BY TaskTyped DEF DatedSeries
<1>2. r.overrides = NotAt(r, pivot) \cup At(r, pivot)
      /\ (\A o \in At(r, pivot) : o.rid = pivot) /\ (\A o \in NotAt(r, pivot) : o.rid # pivot)
  BY DEF NotAt, At
<1>3. \A o \in toggled : o.rid = pivot
  <2>1. \A o \in TaskOverride : [o EXCEPT !.done = done].rid = o.rid
    BY DEF TaskOverride
  <2> QED BY <1>1, <1>2, <2>1
<1>4. new.rid = pivot
  OBVIOUS
<1>5. r = [r EXCEPT !.overrides = r.overrides]
  BY <1>1 DEF Task
<1>6. TickOccurrence(r, pivot, done) = s
  <2>1. CASE At(r, pivot) # {}
    BY <2>1 DEF TickOccurrence
  <2>2. CASE At(r, pivot) = {} /\ done
    BY <2>2 DEF TickOccurrence, WithOverride
  <2>3. CASE At(r, pivot) = {} /\ ~done
    <3>1. NotAt(r, pivot) \cup there = r.overrides
      BY <1>2, <2>3
    <3> HIDE DEF there
    <3>2. TickOccurrence(r, pivot, done) = r
      BY <2>3 DEF TickOccurrence
    <3> QED BY <1>5, <3>1, <3>2
  <2> QED BY <2>1, <2>2, <2>3
<1> HIDE DEF toggled, new
<1>7. \A o \in there : o.rid = pivot
  BY <1>3, <1>4
<1> HIDE DEF there
<1>8. s.overrides = NotAt(r, pivot) \cup there
      /\ s.start = r.start /\ s.due = r.due /\ s.rule = r.rule
      /\ s.exdates = r.exdates /\ s.title = r.title /\ s.done = r.done
  BY <1>1 DEF Task
<1> HIDE DEF s
<1>9. At(s, pivot) = there
  BY <1>2, <1>7, <1>8 DEF At
<1>10. NotAt(s, pivot) = NotAt(r, pivot)
  BY <1>2, <1>7, <1>8, <1>9 DEF NotAt
<1> QED BY <1>6, <1>8, <1>9, <1>10 DEF there, new, toggled

(* The items at other slots are the same before and after.                 *)
LEMMA OthersStay ==
  ASSUME NEW r, NEW s, NEW pivot, Anchor(r) # Absent,
         s.start = r.start, s.due = r.due, s.rule = r.rule, s.exdates = r.exdates,
         s.title = r.title, s.done = r.done, NotAt(s, pivot) = NotAt(r, pivot),
         NEW i \in Items(r, Window), i.slot # pivot
  PROVE  i \in Items(s, Window)
<1>1. Anchor(s) = Anchor(r) /\ \A t : OccurrenceSpan(s, t) = OccurrenceSpan(r, t)
  BY DEF Anchor, OccurrenceSpan
<1>2. CASE i \in PlainItems(r, Window)
  <2>1. PICK t \in Window : /\ i = Item(t, OccurrenceSpan(r, t), r.title, r.done)
                            /\ IsSlot(Anchor(r), r.rule, t) /\ t \notin r.exdates
                            /\ At(r, t) = {}
    BY <1>2 DEF PlainItems
  <2>2. t # pivot
    BY <2>1 DEF Item
  <2>3. At(s, t) = {}
    BY <2>1, <2>2 DEF At, NotAt
  <2>4. i \in PlainItems(s, Window)
    BY <1>1, <2>1, <2>3 DEF PlainItems
  <2> QED BY <1>1, <2>4 DEF Items
<1>3. CASE i \in CustomItems(r)
  <2>1. PICK o \in r.overrides :
          /\ o.rid \notin r.exdates /\ Anchor(o) # Absent
          /\ i = Item(o.rid, [start |-> o.start, due |-> o.due], o.title, o.done)
    BY <1>3 DEF CustomItems
  <2>2. o.rid # pivot
    BY <2>1 DEF Item
  <2>3. o \in s.overrides
    BY <2>1, <2>2 DEF At, NotAt
  <2>4. i \in CustomItems(s)
    BY <2>1, <2>3 DEF CustomItems
  <2> QED BY <1>1, <2>4 DEF Items
<1> QED BY <1>2, <1>3 DEF Items

(* The item a tick is for keeps its dates: an override has them, and what  *)
(* is shown when it is dropped is the plain occurrence whose dates it had, *)
(* with the text of the series.                                            *)
LEMMA TickKeepsDates ==
  ASSUME NEW r \in DatedSeries, NEW pivot \in Int, NEW done \in BOOLEAN,
         pivot \in Window, IsSlot(Anchor(r), r.rule, pivot),
         NEW i \in Items(r, Window), i.slot = pivot
  PROVE  \E k \in Items(TickOccurrence(r, pivot, done), Window) :
           SameDates(k, i) /\ (k.title = i.title \/ (~done /\ k.title = r.title))
<1> DEFINE s == TickOccurrence(r, pivot, done)
           span == OccurrenceSpan(r, pivot)
<1>1. /\ s.start = r.start /\ s.due = r.due /\ s.rule = r.rule
      /\ s.exdates = r.exdates /\ s.title = r.title /\ s.done = r.done
      /\ At(r, pivot) = {} =>
           At(s, pivot) = IF done THEN {[rid |-> pivot, start |-> span.start, due |-> span.due,
                                         title |-> r.title, done |-> TRUE]}
                          ELSE {}
      /\ At(r, pivot) # {} =>
           At(s, pivot) = {[o EXCEPT !.done = done] :
                             o \in {p \in At(r, pivot) : done \/ Moved(r, p)}}
  BY TickTouches
<1>2. /\ Anchor(r) # Absent /\ r \in SoundTask /\ Anchor(r) \in Int
      /\ r.overrides \in SUBSET TaskOverride /\ OnePerSlot(r.overrides)
  BY TaskTyped DEF DatedSeries
<1>3. Anchor(s) = Anchor(r) /\ OccurrenceSpan(s, pivot) = span
  BY <1>1 DEF Anchor, OccurrenceSpan
<1>4. Anchor(span) # Absent
  <2>1. pivot - Anchor(r) \in Int
    BY <1>2
  <2> DEFINE delta == pivot - Anchor(r)
  <2>2. /\ Plus(r.start, delta) = Absent <=> r.start = Absent
        /\ Plus(r.due, delta) = Absent <=> r.due = Absent
    BY <1>2, <2>1, TaskTyped, PlusTyped
  <2>3. span.start = Plus(r.start, delta) /\ span.due = Plus(r.due, delta)
    BY DEF OccurrenceSpan
  <2> HIDE DEF delta, span
  <2> QED BY <1>2, <2>2, <2>3 DEF Anchor
<1>5. span = [start |-> span.start, due |-> span.due]
  BY DEF OccurrenceSpan
<1>6. \A x : x \in At(s, pivot) => x \in s.overrides /\ x.rid = pivot
  BY DEF At
<1> HIDE DEF s, span
<1>7. ASSUME At(s, pivot) = {}, pivot \notin r.exdates
      PROVE  \E k \in Items(s, Window) : /\ k.slot = pivot /\ k.start = span.start
                                       /\ k.due = span.due /\ k.title = r.title
  <2> DEFINE k == Item(pivot, span, s.title, s.done)
  <2>1. k \in PlainItems(s, Window)
    BY <1>1, <1>3, <1>7 DEF PlainItems
  <2>2. k.slot = pivot /\ k.start = span.start /\ k.due = span.due /\ k.title = r.title
    BY <1>1 DEF Item
  <2> HIDE DEF k
  <2> QED BY <1>2, <1>3, <2>1, <2>2 DEF Items
<1>8. ASSUME NEW o \in At(s, pivot), pivot \notin r.exdates, Anchor(o) # Absent
      PROVE  \E k \in Items(s, Window) : /\ k.slot = pivot /\ k.start = o.start
                                       /\ k.due = o.due /\ k.title = o.title
  <2> DEFINE k == Item(o.rid, [start |-> o.start, due |-> o.due], o.title, o.done)
  <2>1. k \in CustomItems(s)
    BY <1>1, <1>6, <1>8 DEF CustomItems
  <2>2. k.slot = pivot /\ k.start = o.start /\ k.due = o.due /\ k.title = o.title
    BY <1>6 DEF Item
  <2> HIDE DEF k
  <2> QED BY <1>2, <1>3, <2>1, <2>2 DEF Items
<1>9. CASE i \in PlainItems(r, Window)
  <2>1. PICK t \in Window : /\ i = Item(t, OccurrenceSpan(r, t), r.title, r.done)
                            /\ t \notin r.exdates /\ At(r, t) = {}
    BY <1>9 DEF PlainItems
  <2>2. t = pivot /\ i.start = span.start /\ i.due = span.due /\ i.title = r.title
    BY <2>1 DEF Item, span
  <2>3. CASE ~done
    BY <1>1, <1>7, <2>1, <2>2, <2>3 DEF s, SameDates
  <2>4. CASE done
    <3> DEFINE new == [rid |-> pivot, start |-> span.start, due |-> span.due,
                       title |-> r.title, done |-> TRUE]
    <3>1. new \in At(s, pivot)
      BY <1>1, <2>1, <2>2, <2>4
    <3>2. new.start = span.start /\ new.due = span.due /\ new.title = r.title
      OBVIOUS
    <3> HIDE DEF new
    <3>3. Anchor(new) # Absent
      BY <1>4, <3>2 DEF Anchor
    <3> QED BY <1>8, <2>1, <2>2, <3>1, <3>2, <3>3 DEF s, SameDates
  <2> QED BY <2>3, <2>4
<1>10. CASE i \in CustomItems(r)
  <2>1. PICK o \in r.overrides :
          /\ o.rid \notin r.exdates /\ Anchor(o) # Absent
          /\ i = Item(o.rid, [start |-> o.start, due |-> o.due], o.title, o.done)
    BY <1>10 DEF CustomItems
  <2>2. /\ o.rid = pivot /\ i.start = o.start /\ i.due = o.due /\ i.title = o.title
        /\ o \in At(r, pivot)
    BY <2>1 DEF Item, At
  <2>3. o \in TaskOverride
    BY <1>2
  <2>4. CASE done \/ Moved(r, o)
    <3> DEFINE new == [o EXCEPT !.done = done]
    <3>1. new \in At(s, pivot)
      BY <1>1, <2>2, <2>4
    <3>2. new.start = o.start /\ new.due = o.due /\ new.title = o.title
      BY <2>3 DEF TaskOverride
    <3> HIDE DEF new
    <3>3. Anchor(new) # Absent
      BY <2>1, <3>2 DEF Anchor
    <3> QED BY <1>8, <2>1, <2>2, <3>1, <3>2, <3>3 DEF s, SameDates
  <2>5. CASE ~done /\ ~Moved(r, o)
    <3>1. o.start = span.start /\ o.due = span.due
      BY <2>2, <2>5, <1>5 DEF Moved, span
    <3>2. \A p \in At(r, pivot) : p = o
      BY <1>2, <2>2 DEF At, OnePerSlot
    <3>3. At(s, pivot) = {}
      BY <1>1, <2>2, <2>5, <3>2
    <3> QED BY <1>7, <2>1, <2>2, <2>5, <3>1, <3>3 DEF s, SameDates
  <2> QED BY <2>4, <2>5
<1> QED BY <1>2, <1>9, <1>10 DEF Items, s

(* What the page shows of it then is the status that was asked for.        *)
LEMMA TickTells ==
  ASSUME NEW r \in DatedSeries, NEW pivot \in Int, NEW done \in BOOLEAN,
         NEW i \in Items(TickOccurrence(r, pivot, done), Window), i.slot = pivot
  PROVE  IF done THEN i.done ELSE i.done => r.done
<1> DEFINE s == TickOccurrence(r, pivot, done)
<1>1. /\ s.start = r.start /\ s.due = r.due /\ s.done = r.done
      /\ At(r, pivot) = {} =>
           At(s, pivot) = IF done THEN {[rid |-> pivot, start |-> OccurrenceSpan(r, pivot).start,
                                         due |-> OccurrenceSpan(r, pivot).due,
                                         title |-> r.title, done |-> TRUE]}
                          ELSE {}
      /\ At(r, pivot) # {} =>
           At(s, pivot) = {[o EXCEPT !.done = done] :
                             o \in {p \in At(r, pivot) : done \/ Moved(r, p)}}
  BY TickTouches
<1>2. /\ Anchor(r) # Absent /\ r.overrides \in SUBSET TaskOverride
  BY TaskTyped DEF DatedSeries
<1>3. Anchor(s) # Absent
  BY <1>1, <1>2 DEF Anchor
<1>4. \A x \in At(s, pivot) : x.done = done
  <2>1. \A o \in At(r, pivot) : [o EXCEPT !.done = done].done = done
    BY <1>2 DEF At, TaskOverride
  <2> HIDE DEF s
  <2>2. CASE At(r, pivot) = {}
    <3> DEFINE new == [rid |-> pivot, start |-> OccurrenceSpan(r, pivot).start,
                       due |-> OccurrenceSpan(r, pivot).due, title |-> r.title, done |-> TRUE]
    <3>1. new.done = TRUE
      OBVIOUS
    <3>2. At(s, pivot) = IF done THEN {new} ELSE {}
      BY <1>1, <2>2
    <3> HIDE DEF new
    <3> QED BY <3>1, <3>2
  <2>3. CASE At(r, pivot) # {}
    BY <1>1, <2>1, <2>3
  <2> QED BY <2>2, <2>3
<1>5. done => At(s, pivot) # {}
  <2> HIDE DEF s
  <2> QED BY <1>1
<1>6. i \in Items(s, Window)
  OBVIOUS
<1> HIDE DEF s
<1>7. CASE i \in PlainItems(s, Window)
  <2>1. PICK t \in Window : /\ i = Item(t, OccurrenceSpan(s, t), s.title, s.done)
                            /\ At(s, t) = {}
    BY <1>7 DEF PlainItems
  <2>2. t = pivot /\ i.done = r.done
    BY <1>1, <2>1 DEF Item
  <2> QED BY <1>5, <2>1, <2>2
<1>8. CASE i \in CustomItems(s)
  <2>1. PICK o \in s.overrides :
          i = Item(o.rid, [start |-> o.start, due |-> o.due], o.title, o.done)
    BY <1>8 DEF CustomItems
  <2>2. o \in At(s, pivot) /\ i.done = o.done
    BY <2>1 DEF Item, At
  <2> QED BY <1>4, <2>2
<1> QED BY <1>3, <1>6, <1>7, <1>8 DEF Items

-----------------------------------------------------------------------------
(* The theorems.                                                           *)

(* What is stored, asked for and on its way to the server is always a task *)
(* (or the removal of one), whatever mixture of dates, rules and overrides *)
(* the requests produce; and a status request waits only behind a save     *)
(* that has not failed.                                                    *)
THEOREM TaskTypes == Spec => []TypeOK
<1>1. IInv => TypeOK
  <2> SUFFICES ASSUME IInv PROVE TypeOK
    OBVIOUS
  <2>1. SoundTask \subseteq Task
    BY DEF SoundTask
  <2>2. store \in [Uids -> Task \cup {NoTask}]
    BY <2>1 DEF IInv
  <2>3. SoundWrite \subseteq Write
    BY <2>1 DEF SoundWrite, Write
  <2>4. writes \in [Clients -> Seq(Write)]
    BY <2>3 DEF IInv
  <2> QED BY <2>2, <2>4 DEF IInv, TypeOK
<1> QED BY <1>1, AlwaysIInv, PTL

(* No task, stored or being sent, ever has two overrides of one slot:      *)
(* rebinding moves all overrides alike, and whoever adds an override       *)
(* (_sync_update_task with scope `this', _sync_set_task_status) takes   *)
(* the earlier one out.                                                    *)
THEOREM OneStatus == Spec => []OneStatusPerSlot
<1>1. IInv => OneStatusPerSlot
  <2> SUFFICES ASSUME IInv,
                      NEW r \in ({store[u] : u \in Uids} \cup Pending) \ {NoTask}
               PROVE  OnePerSlot(r.overrides)
    BY DEF OneStatusPerSlot
  <2>1. CASE r \in {store[u] : u \in Uids}
    <3>1. r \in SoundTask
      BY <2>1 DEF IInv
    <3> QED BY <3>1 DEF SoundTask
  <2>2. CASE r \in Pending
    <3>1. PICK c \in Clients : r \in {writes[c][k].res : k \in DOMAIN writes[c]}
      BY <2>2 DEF Pending
    <3>2. PICK k \in DOMAIN writes[c] : r = writes[c][k].res
      BY <3>1
    <3>3. writes[c] \in Seq(SoundWrite)
      BY DEF IInv
    <3>4. writes[c][k] \in SoundWrite
      BY <3>2, <3>3
    <3>5. r \in SoundTask
      BY <3>2, <3>4 DEF SoundWrite
    <3> QED BY <3>5 DEF SoundTask
  <2> QED BY <2>1, <2>2
<1> QED BY <1>1, AlwaysIInv, PTL

(* Edits carry the ticks: an edit of one occurrence leaves every tick      *)
(* where it is, one of the series takes each with its occurrence to the    *)
(* new grid, and one of this and future occurrences takes those after the  *)
(* pivot and leaves those before it, by a split as well as in place.       *)
(* Nothing is said of the tick at the pivot itself, which the handler      *)
(* drops, nor of edits that give a task a start or a due date it did not   *)
(* have or take one away.                                                  *)
THEOREM TicksCarried == Spec => TicksFollow
<1> DEFINE StepCarries ==
      \A c \in Clients :
        LET r == Target(c)
            e == request[c].edit
            s(k) == writes'[c][k].res
        IN  /\ UpdateTaskThis(c) => Ticked(s(1)) = Ticked(r)
            /\ UpdateTaskAll(c) =>
                 /\ Ticked(s(1)) = Shift(Ticked(r), Anchor(s(1)) - Anchor(r))
                 /\ s(1).done = r.done
            /\ (UpdateTaskFirst(c) /\ KeepsDates(r, e)) =>
                 \E pivot \in Pivots(c) :
                   TakesAlong(s(1), Ticked(r) \ {pivot}, Ticked(r), Anchor(s(1)) - Anchor(r))
            /\ (UpdateTaskSplit(c) /\ KeepsDates(r, e)) =>
                 \E pivot \in Pivots(c) :
                   /\ Ticked(s(1)) = {t \in Ticked(r) : t < pivot}
                   /\ TakesAlong(s(2), {t \in Ticked(r) : t > pivot}, {t \in Ticked(r) : t >= pivot},
                              Anchor(s(2)) - pivot)
<1>1. IInv => StepCarries
  <2> SUFFICES ASSUME IInv, NEW c \in Clients
               PROVE
                 LET r == Target(c)
                     e == request[c].edit
                     s(k) == writes'[c][k].res
                 IN  /\ UpdateTaskThis(c) => Ticked(s(1)) = Ticked(r)
                     /\ UpdateTaskAll(c) =>
                          /\ Ticked(s(1)) = Shift(Ticked(r), Anchor(s(1)) - Anchor(r))
                          /\ s(1).done = r.done
                     /\ (UpdateTaskFirst(c) /\ KeepsDates(r, e)) =>
                          \E pivot \in Pivots(c) :
                            TakesAlong(s(1), Ticked(r) \ {pivot}, Ticked(r), Anchor(s(1)) - Anchor(r))
                     /\ (UpdateTaskSplit(c) /\ KeepsDates(r, e)) =>
                          \E pivot \in Pivots(c) :
                            /\ Ticked(s(1)) = {t \in Ticked(r) : t < pivot}
                            /\ TakesAlong(s(2), {t \in Ticked(r) : t > pivot}, {t \in Ticked(r) : t >= pivot},
                                       Anchor(s(2)) - pivot)
    OBVIOUS
  <2>1. UpdateTaskThis(c) => Ticked(writes'[c][1].res) = Ticked(Target(c))
    BY ThisKeeps
  <2>2. UpdateTaskAll(c) =>
          /\ Ticked(writes'[c][1].res) =
               Shift(Ticked(Target(c)), Anchor(writes'[c][1].res) - Anchor(Target(c)))
          /\ writes'[c][1].res.done = Target(c).done
    BY AllKeeps
  <2>3. (UpdateTaskFirst(c) /\ KeepsDates(Target(c), request[c].edit)) =>
          \E pivot \in Pivots(c) :
            TakesAlong(writes'[c][1].res, Ticked(Target(c)) \ {pivot}, Ticked(Target(c)),
                    Anchor(writes'[c][1].res) - Anchor(Target(c)))
    BY FirstKeeps
  <2>4. (UpdateTaskSplit(c) /\ KeepsDates(Target(c), request[c].edit)) =>
          \E pivot \in Pivots(c) :
            /\ Ticked(writes'[c][1].res) = {t \in Ticked(Target(c)) : t < pivot}
            /\ TakesAlong(writes'[c][2].res, {t \in Ticked(Target(c)) : t > pivot},
                       {t \in Ticked(Target(c)) : t >= pivot},
                       Anchor(writes'[c][2].res) - pivot)
    BY SplitKeeps
  <2> QED BY <2>1, <2>2, <2>3, <2>4
<1>2. IInv => [StepCarries]_vars
  BY <1>1
<1> QED BY <1>2, AlwaysIInv, PTL DEF TicksFollow

(* Whatever the page knew, a tick or untick leaves every other occurrence  *)
(* as it is; the one it is resolved to, if it is of the series' dates,     *)
(* keeps its dates, and its text when ticked (unticked it may show the     *)
(* text of the series instead), and has the status asked for, but that an  *)
(* occurrence of a task done before it recurred stays done                 *)
(* (_sync_set_task_status ticks an override in place and drops it only     *)
(* where the plain occurrence has the same dates).                         *)
THEOREM TickedInPlace == Spec => TicksInPlace
<1> DEFINE InPlace ==
      \A c \in Clients : SetOccurrenceStatus(c) =>
        LET r == Target(c)
            s == writes'[c][1].res
            done == request[c].done
        IN  \E pivot \in Pivots(c) :
              /\ \A i \in Items(r, Window) : i.slot # pivot => i \in Items(s, Window)
              /\ \A i \in Items(s, Window) : i.slot # pivot => i \in Items(r, Window)
              /\ \A i \in Items(r, Window) :
                   (i.slot = pivot /\ pivot \in Window /\ IsSlot(Anchor(r), r.rule, pivot)) =>
                      \E k \in Items(s, Window) :
                        SameDates(k, i) /\ (k.title = i.title \/ (~done /\ k.title = r.title))
              /\ \A i \in Items(s, Window) : i.slot = pivot =>
                   IF done THEN i.done ELSE i.done => r.done
<1>1. IInv => InPlace
  <2> SUFFICES ASSUME IInv, NEW c \in Clients, SetOccurrenceStatus(c)
               PROVE
               LET r == Target(c)
                   s == writes'[c][1].res
                   done == request[c].done
               IN  \E pivot \in Pivots(c) :
                     /\ \A i \in Items(r, Window) : i.slot # pivot => i \in Items(s, Window)
                     /\ \A i \in Items(s, Window) : i.slot # pivot => i \in Items(r, Window)
                     /\ \A i \in Items(r, Window) :
                          (i.slot = pivot /\ pivot \in Window /\ IsSlot(Anchor(r), r.rule, pivot)) =>
                             \E k \in Items(s, Window) :
                               SameDates(k, i) /\ (k.title = i.title \/ (~done /\ k.title = r.title))
                     /\ \A i \in Items(s, Window) : i.slot = pivot =>
                          IF done THEN i.done ELSE i.done => r.done
    OBVIOUS
  <2>1. FindsOccurrence(c, "status")
    BY DEF SetOccurrenceStatus
  <2>2. PICK pivot \in Pivots(c) :
          Replace(c, TickOccurrence(Target(c), pivot, request[c].done))
    BY DEF SetOccurrenceStatus
  <2> DEFINE r == Target(c)
             done == request[c].done
             s == TickOccurrence(r, pivot, done)
  <2>3. r \in DatedSeries /\ pivot \in Int /\ done \in BOOLEAN /\ request[c].uid \in Uids
    BY <2>1, FoundOccurrence
  <2>4. writes'[c][1].res = s
    BY <2>2, <2>3, TickStaysSound, ReplaceKeeps
  <2> HIDE DEF r, done
  <2>5. /\ s.start = r.start /\ s.due = r.due /\ s.rule = r.rule
        /\ s.exdates = r.exdates /\ s.title = r.title /\ s.done = r.done
        /\ NotAt(s, pivot) = NotAt(r, pivot)
    BY <2>3, TickTouches
  <2>6. Anchor(r) # Absent
    BY <2>3 DEF DatedSeries
  <2>7. \A i \in Items(s, Window) : i.slot = pivot => IF done THEN i.done ELSE i.done => r.done
    BY <2>3, TickTells
  <2>8. \A i \in Items(r, Window) :
          (i.slot = pivot /\ pivot \in Window /\ IsSlot(Anchor(r), r.rule, pivot)) =>
             \E k \in Items(s, Window) :
               SameDates(k, i) /\ (k.title = i.title \/ (~done /\ k.title = r.title))
    BY <2>3, TickKeepsDates
  <2> HIDE DEF s
  <2>9. Anchor(s) # Absent
    BY <2>5, <2>6 DEF Anchor
  <2>10. \A i \in Items(r, Window) : i.slot # pivot => i \in Items(s, Window)
    BY <2>5, <2>6, OthersStay
  <2>11. \A i \in Items(s, Window) : i.slot # pivot => i \in Items(r, Window)
    BY <2>5, <2>9, OthersStay
  <2> QED BY <2>4, <2>7, <2>8, <2>10, <2>11 DEF r, done
<1>2. IInv => [InPlace]_vars
  BY <1>1
<1> QED BY <1>2, AlwaysIInv, PTL DEF TicksInPlace
=============================================================================
