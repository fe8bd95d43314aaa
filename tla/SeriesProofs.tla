---------------------------- MODULE SeriesProofs ----------------------------
(***************************************************************************)
(* Lemmas on the rewritings of module Series, for any resource and edit:   *)
(* what they return is a resource again, and no two overrides of a         *)
(* resource come to stand for the same slot; and, for series whose rule    *)
(* follows their DTSTART, which slots each rewriting leaves, what is shown *)
(* at each of them.                                                        *)
(***************************************************************************)
EXTENDS Series, FiniteSetTheorems, WellFoundedInduction, TLAPS

(* An edit, as far as the rewritings look at it.                           *)
SeriesEdit == [start : Int, title : Titles, rule : Rule \cup {NoRule},
               reset : SUBSET Fields, changed : SUBSET Fields]

(* A resource none of whose slots has two overrides.                       *)
Sound == {r \in Resource : OnePerSlot(r.overrides)}

-----------------------------------------------------------------------------
(* Greatest elements.                                                      *)

(* A set of naturals that is not empty has a least element.                *)
LEMMA LeastNat ==
  ASSUME NEW T, T \subseteq Nat, T # {}
  PROVE  \E x \in T : \A y \in T : x <= y
<1> DEFINE less == OpToRel(<, Nat)
<1>1. IsWellFoundedOn(less, Nat)
  BY NatLessThanWellFounded
<1>2. \A x, y \in Nat : <<y, x>> \in less <=> y < x
  BY DEF OpToRel
<1> HIDE DEF less
<1>3. PICK x \in T : \A y \in T : ~ (<<y, x>> \in less)
  BY <1>1, WFMin
<1>4. ASSUME NEW y \in T PROVE x <= y
  <2>1. x \in Nat /\ y \in Nat
    OBVIOUS
  <2>2. ~ (y < x)
    BY <2>1, <1>2, <1>3
  <2> QED BY <2>1, <2>2
<1> QED BY <1>4

(* A set of integers bounded above that is not empty has a greatest one.   *)
LEMMA GreatestInt ==
  ASSUME NEW S, S \subseteq Int, S # {}, NEW b \in Int, \A s \in S : s <= b
  PROVE  \E x \in S : \A y \in S : y <= x
<1> DEFINE T == {b - s : s \in S}
<1>0. T \subseteq Nat
  OBVIOUS
<1>1. T # {}
  OBVIOUS
<1>2. \A y \in S : b - y \in T
  OBVIOUS
<1>3. \A x \in T : \E s \in S : x = b - s
  OBVIOUS
<1> HIDE DEF T
<1>4. PICK x \in T : \A y \in T : x <= y
  BY <1>0, <1>1, LeastNat
<1>5. PICK s \in S : x = b - s
  BY <1>3
<1>6. \A y \in S : x <= b - y
  BY <1>2, <1>4
<1> QED BY <1>5, <1>6

-----------------------------------------------------------------------------
(* Rules.                                                                  *)

(* LastBefore is the greatest slot before the pivot, or pivot - 1.         *)
LEMMA LastBeforeSpec ==
  ASSUME NEW start \in Int, NEW rule, NEW pivot \in Int
  PROVE  /\ LastBefore(start, rule, pivot) \in Int
         /\ LastBefore(start, rule, pivot) < pivot
         /\ SlotsBefore(start, rule, pivot) # {} =>
              /\ LastBefore(start, rule, pivot) \in SlotsBefore(start, rule, pivot)
              /\ \A u \in SlotsBefore(start, rule, pivot) :
                   u <= LastBefore(start, rule, pivot)
<1> DEFINE B == SlotsBefore(start, rule, pivot)
<1>1. B \subseteq Int /\ \A t \in B : t <= pivot - 1
  BY DEF SlotsBefore
<1>2. LastBefore(start, rule, pivot) =
        IF B = {} THEN pivot - 1 ELSE CHOOSE t \in B : \A u \in B : u <= t
  BY DEF LastBefore
<1> HIDE DEF B
<1>3. CASE B = {}
  BY <1>2, <1>3 DEF B
<1>4. CASE B # {}
  <2>0. B \subseteq Int /\ pivot - 1 \in Int /\ \A t \in B : t <= pivot - 1
    BY <1>1
  <2>1. \E t \in B : \A u \in B : u <= t
    BY <2>0, <1>4, GreatestInt
  <2>2. LET l == LastBefore(start, rule, pivot) IN l \in B /\ \A u \in B : u <= l
    BY <1>2, <1>4, <2>1
  <2> QED BY <1>1, <2>2 DEF B
<1> QED BY <1>3, <1>4

LEMMA CountThroughType ==
  ASSUME NEW start \in Int, NEW rule, NEW pivot \in Int
  PROVE  CountThrough(start, rule, pivot) \in Nat
<1> DEFINE K == {k \in 0 .. (pivot - start) :
                   /\ SlotAt(start, rule, k) <= pivot
                   /\ Admitted(rule, k, SlotAt(start, rule, k))}
<1>1. IsFiniteSet(0 .. (pivot - start))
  BY FS_Interval
<1>2. K \subseteq 0 .. (pivot - start)
  OBVIOUS
<1>3. IsFiniteSet(K)
  BY <1>1, <1>2, FS_Subset
<1>4. CountThrough(start, rule, pivot) = Cardinality(K)
  BY DEF CountThrough
<1> HIDE DEF K
<1> QED BY <1>3, <1>4, FS_CardinalityType

LEMMA RuleTypes ==
  ASSUME NEW rule \in Rule, NEW start \in Int, NEW pivot \in Int, NEW delta \in Int
  PROVE  /\ ShiftUntil(rule, delta) \in Rule
         /\ BuildRule(rule, start) \in Rule
         /\ TruncateUntil(start, rule, pivot) \in Rule
         /\ RemainingRule(start, rule, pivot) \in Rule
<1>1. ShiftUntil(rule, delta) \in Rule
  BY DEF ShiftUntil, Rule
<1>2. BuildRule(rule, start) \in Rule
  <2>1. rule.phase # Floating => start % rule.interval \in Int
    BY DEF Rule
  <2> QED BY <2>1 DEF BuildRule, Rule
<1>3. TruncateUntil(start, rule, pivot) \in Rule
  <2>1. LastBefore(start, rule, pivot) \in Int
    BY LastBeforeSpec
  <2> QED BY <2>1 DEF TruncateUntil, Rule
<1>4. RemainingRule(start, rule, pivot) \in Rule
  <2> DEFINE left == rule.n - (CountThrough(start, rule, pivot) - 1)
  <2>1. left \in Int
    BY CountThroughType DEF Rule
  <2>2. RemainingRule(start, rule, pivot) =
          IF rule.bound # "count" THEN rule
          ELSE [rule EXCEPT !.n = IF left < 1 THEN 1 ELSE left]
    BY DEF RemainingRule
  <2> HIDE DEF left
  <2> QED BY <2>1, <2>2 DEF Rule
<1> QED BY <1>1, <1>2, <1>3, <1>4

-----------------------------------------------------------------------------
(* Overrides.                                                              *)

LEMMA OverrideTypes ==
  ASSUME NEW ovs \in SUBSET Override, NEW delta \in Int, NEW fields, NEW title \in Titles,
         NEW pivot \in Int, NEW time \in Int
  PROVE  /\ ShiftOverrides(ovs, delta) \in SUBSET Override
         /\ ResetOverrides(ovs, fields, title) \in SUBSET Override
         /\ UpsertOverride(ovs, pivot, time, title) \in SUBSET Override
         /\ OverridesBefore(ovs, pivot) \in SUBSET Override
<1>1. \A o \in ovs : o.rid \in Int /\ o.time \in Int /\ o.title \in Titles
  BY DEF Override
<1>2. \A o \in ovs : [o EXCEPT !.rid = @ + delta] \in Override
  BY DEF Override
<1>3. \A o \in ovs : [o EXCEPT !.time  = IF "time" \in fields THEN o.rid ELSE @,
                             !.title = IF "title" \in fields THEN title ELSE @] \in Override
  BY <1>1 DEF Override
<1>4. ShiftOverrides(ovs, delta) \in SUBSET Override
  BY <1>2 DEF ShiftOverrides
<1>5. ResetOverrides(ovs, fields, title) \in SUBSET Override
  BY <1>3 DEF ResetOverrides
<1>6. UpsertOverride(ovs, pivot, time, title) \in SUBSET Override
  BY DEF UpsertOverride, Override
<1>7. OverridesBefore(ovs, pivot) \in SUBSET Override
  BY DEF OverridesBefore
<1> QED BY <1>4, <1>5, <1>6, <1>7

(* Rebinding, resetting, replacing and dropping overrides never leaves two *)
(* for one slot.                                                           *)
LEMMA OverridesStayUnique ==
  ASSUME NEW ovs \in SUBSET Override, OnePerSlot(ovs),
         NEW delta \in Int, NEW fields, NEW title \in Titles,
         NEW pivot \in Int, NEW time \in Int
  PROVE  /\ OnePerSlot(ShiftOverrides(ovs, delta))
         /\ OnePerSlot(ResetOverrides(ovs, fields, title))
         /\ OnePerSlot(UpsertOverride(ovs, pivot, time, title))
         /\ \A kept \in SUBSET ovs : OnePerSlot(kept)
<1>1. OnePerSlot(ShiftOverrides(ovs, delta))
  <2> SUFFICES ASSUME NEW o \in ovs, NEW p \in ovs, o.rid + delta = p.rid + delta
               PROVE  o = p
    BY DEF OnePerSlot, ShiftOverrides, Override
  <2>1. o.rid \in Int /\ p.rid \in Int
    BY DEF Override
  <2> QED BY <2>1 DEF OnePerSlot
<1>2. OnePerSlot(ResetOverrides(ovs, fields, title))
  <2> DEFINE reset(o) == [o EXCEPT !.time  = IF "time" \in fields THEN o.rid ELSE @,
                                   !.title = IF "title" \in fields THEN title ELSE @]
  <2>1. \A o \in ovs : reset(o).rid = o.rid
    BY DEF Override
  <2>2. ResetOverrides(ovs, fields, title) = {reset(o) : o \in ovs}
    BY DEF ResetOverrides
  <2> HIDE DEF reset
  <2> SUFFICES ASSUME NEW o \in ovs, NEW p \in ovs, reset(o).rid = reset(p).rid
               PROVE  reset(o) = reset(p)
    BY <2>2 DEF OnePerSlot
  <2>3. o = p
    BY <2>1 DEF OnePerSlot
  <2> QED BY <2>3
<1>3. OnePerSlot(UpsertOverride(ovs, pivot, time, title))
  BY DEF OnePerSlot, UpsertOverride
<1>4. \A kept \in SUBSET ovs : OnePerSlot(kept)
  BY DEF OnePerSlot
<1> QED BY <1>1, <1>2, <1>3, <1>4

-----------------------------------------------------------------------------
(* Resources.                                                              *)

LEMMA NewSeriesRule ==
  ASSUME NEW r \in Resource, r.rule # NoRule, NEW e \in SeriesEdit,
         NEW pivot \in Int, NEW delta \in Int
  PROVE  FutureRule(r, e, pivot, delta) \in Rule
<1>1. r.rule \in Rule /\ r.start \in Int /\ e.start \in Int /\ e.rule \in Rule \cup {NoRule}
  BY DEF Resource, SeriesEdit
<1>2. RemainingRule(r.start, r.rule, pivot) \in Rule
  BY <1>1, RuleTypes
<1>3. e.rule # NoRule => BuildRule(e.rule, e.start) \in Rule
  BY <1>1, RuleTypes
<1>4. ShiftUntil(RemainingRule(r.start, r.rule, pivot), delta) \in Rule
  BY <1>2, RuleTypes
<1> QED BY <1>3, <1>4 DEF FutureRule

(* Every scoped edit and delete turns a sound resource into sound ones of  *)
(* the same value type.                                                    *)
LEMMA EditsStaySound ==
  ASSUME NEW r \in Sound, NEW e \in SeriesEdit, NEW pivot \in Int
  PROVE  /\ EditPlain(r, e) \in Sound /\ EditPlain(r, e).allDay = r.allDay
         /\ EditThis(r, e, pivot) \in Sound /\ EditThis(r, e, pivot).allDay = r.allDay
         /\ DeleteThis(r, pivot) \in Sound /\ DeleteThis(r, pivot).allDay = r.allDay
<1>1. /\ r \in Resource /\ OnePerSlot(r.overrides) /\ r.overrides \in SUBSET Override
      /\ e.start \in Int /\ e.title \in Titles /\ e.rule \in Rule \cup {NoRule}
  BY DEF Sound, Resource, SeriesEdit
<1>2. EditPlain(r, e) \in Sound /\ EditPlain(r, e).allDay = r.allDay
  <2> DEFINE ovs == ResetOverrides(r.overrides, e.reset, e.title)
             rule == IF e.rule # NoRule THEN BuildRule(e.rule, e.start) ELSE r.rule
  <2>1. ovs \in SUBSET Override /\ OnePerSlot(ovs)
    BY <1>1, OverrideTypes, OverridesStayUnique
  <2>2. rule \in Rule \cup {NoRule}
    BY <1>1, RuleTypes DEF Resource
  <2>3. EditPlain(r, e) = [r EXCEPT !.start = e.start, !.title = e.title,
                                    !.rule = rule, !.overrides = ovs]
    BY DEF EditPlain
  <2> HIDE DEF ovs, rule
  <2> QED BY <1>1, <2>1, <2>2, <2>3 DEF Sound, Resource
<1>3. EditThis(r, e, pivot) \in Sound /\ EditThis(r, e, pivot).allDay = r.allDay
  <2> DEFINE ovs == UpsertOverride(r.overrides, pivot, e.start, e.title)
  <2>1. ovs \in SUBSET Override /\ OnePerSlot(ovs)
    BY <1>1, OverrideTypes, OverridesStayUnique
  <2>2. EditThis(r, e, pivot) = [r EXCEPT !.overrides = ovs]
    BY DEF EditThis
  <2> HIDE DEF ovs
  <2> QED BY <1>1, <2>1, <2>2 DEF Sound, Resource
<1>4. DeleteThis(r, pivot) \in Sound /\ DeleteThis(r, pivot).allDay = r.allDay
  BY <1>1 DEF DeleteThis, Sound, Resource
<1> QED BY <1>2, <1>3, <1>4

LEMMA ShiftTypes ==
  ASSUME NEW S \in SUBSET Int, NEW delta \in Int
  PROVE  Shift(S, delta) \in SUBSET Int
BY DEF Shift

(* The overrides of an edited series, rebound to the new grid and reset.   *)
LEMMA CarriedOverrides ==
  ASSUME NEW ovs \in SUBSET Override, OnePerSlot(ovs), NEW delta \in Int,
         NEW fields, NEW title \in Titles
  PROVE  /\ ResetOverrides(ShiftOverrides(ovs, delta), fields, title) \in SUBSET Override
         /\ OnePerSlot(ResetOverrides(ShiftOverrides(ovs, delta), fields, title))
<1> DEFINE shifted == ShiftOverrides(ovs, delta)
<1>1. shifted \in SUBSET Override
  BY OverrideTypes, 0 \in Int
<1>2. OnePerSlot(shifted)
  BY OverridesStayUnique, 0 \in Int
<1> HIDE DEF shifted
<1>3. ResetOverrides(shifted, fields, title) \in SUBSET Override
  BY <1>1, OverrideTypes, 0 \in Int
<1>4. OnePerSlot(ResetOverrides(shifted, fields, title))
  BY <1>1, <1>2, OverridesStayUnique, 0 \in Int
<1> QED BY <1>3, <1>4 DEF shifted

(* The same for what rewrites a whole series or a part of it.              *)
LEMMA DeletesStaySound ==
  ASSUME NEW r \in Sound, r.rule # NoRule, NEW pivot \in Int
  PROVE  DeleteFuture(r, pivot) \in Sound /\ DeleteFuture(r, pivot).allDay = r.allDay
<1>1. /\ r \in Resource /\ OnePerSlot(r.overrides) /\ r.overrides \in SUBSET Override
      /\ r.start \in Int /\ r.rule \in Rule
  BY DEF Sound, Resource
<1>2. OverridesBefore(r.overrides, pivot) \in SUBSET r.overrides
  BY DEF OverridesBefore
<1>3. TruncateUntil(r.start, r.rule, pivot) \in Rule
  BY <1>1, RuleTypes, 0 \in Int
<1> QED BY <1>1, <1>2, <1>3 DEF DeleteFuture, Sound, Resource, OnePerSlot

LEMMA SeriesEditsStaySound ==
  ASSUME NEW r \in Sound, r.rule # NoRule, NEW e \in SeriesEdit, NEW pivot \in Int
  PROVE  /\ EditAll(r, e, pivot) \in Sound /\ EditAll(r, e, pivot).allDay = r.allDay
         /\ RewriteFirst(r, e, pivot) \in Sound /\ RewriteFirst(r, e, pivot).allDay = r.allDay
         /\ SplitOld(r, pivot) \in Sound /\ SplitOld(r, pivot).allDay = r.allDay
         /\ SplitNew(r, e, pivot) \in Sound /\ SplitNew(r, e, pivot).allDay = r.allDay
<1>1. /\ r \in Resource /\ OnePerSlot(r.overrides) /\ r.overrides \in SUBSET Override
      /\ r.start \in Int /\ r.rule \in Rule /\ r.exdates \in SUBSET Int
      /\ e.start \in Int /\ e.title \in Titles /\ e.rule \in Rule \cup {NoRule}
  BY DEF Sound, Resource, SeriesEdit
<1>2. EditAll(r, e, pivot) \in Sound /\ EditAll(r, e, pivot).allDay = r.allDay
  <2> DEFINE delta == e.start - pivot
             start == r.start + delta
             exdates == Shift(r.exdates, delta)
             rule == IF e.rule # NoRule THEN BuildRule(e.rule, start)
                     ELSE ShiftUntil(r.rule, delta)
             ovs == ResetOverrides(ShiftOverrides(r.overrides, delta), e.reset, e.title)
  <2>1. delta \in Int /\ start \in Int
    BY <1>1
  <2> HIDE DEF delta, start
  <2>2. exdates \in SUBSET Int
    BY <1>1, <2>1, ShiftTypes
  <2>3. rule \in Rule
    BY <1>1, <2>1, RuleTypes
  <2>4. ovs \in SUBSET Override /\ OnePerSlot(ovs)
    BY <1>1, <2>1, CarriedOverrides
  <2>5. EditAll(r, e, pivot) = [r EXCEPT !.start = start, !.title = e.title,
                                         !.exdates = exdates, !.rule = rule,
                                         !.overrides = ovs]
    BY DEF EditAll, delta, start
  <2> HIDE DEF exdates, rule, ovs
  <2> QED BY <1>1, <2>1, <2>2, <2>3, <2>4, <2>5 DEF Sound, Resource
<1>3. RewriteFirst(r, e, pivot) \in Sound /\ RewriteFirst(r, e, pivot).allDay = r.allDay
  <2> DEFINE delta == e.start - r.start
             kept == {o \in r.overrides : o.rid # pivot}
             exdates == Shift(r.exdates, delta)
             rule == FutureRule(r, e, pivot, delta)
             ovs == ResetOverrides(ShiftOverrides(kept, delta), e.reset, e.title)
  <2>1. delta \in Int
    BY <1>1
  <2> HIDE DEF delta
  <2>2. exdates \in SUBSET Int
    BY <1>1, <2>1, ShiftTypes
  <2>3. rule \in Rule
    BY <1>1, <2>1, NewSeriesRule
  <2>4. kept \in SUBSET Override /\ OnePerSlot(kept)
    BY <1>1 DEF OnePerSlot
  <2> HIDE DEF kept
  <2>5. ovs \in SUBSET Override /\ OnePerSlot(ovs)
    BY <1>1, <2>1, <2>4, CarriedOverrides
  <2>6. RewriteFirst(r, e, pivot) = [r EXCEPT !.start = e.start, !.title = e.title,
                                              !.exdates = exdates, !.rule = rule,
                                              !.overrides = ovs]
    BY DEF RewriteFirst, delta, kept
  <2> HIDE DEF exdates, rule, ovs
  <2> QED BY <1>1, <2>1, <2>2, <2>3, <2>5, <2>6 DEF Sound, Resource
<1>4. SplitOld(r, pivot) \in Sound /\ SplitOld(r, pivot).allDay = r.allDay
  <2>1. OverridesBefore(r.overrides, pivot) \in SUBSET r.overrides
    BY DEF OverridesBefore
  <2>2. TruncateUntil(r.start, r.rule, pivot) \in Rule
    BY <1>1, RuleTypes, 0 \in Int
  <2> QED BY <1>1, <2>1, <2>2 DEF SplitOld, Sound, Resource, OnePerSlot
<1>5. SplitNew(r, e, pivot) \in Sound /\ SplitNew(r, e, pivot).allDay = r.allDay
  <2> DEFINE delta == e.start - pivot
             migrated == {o \in r.overrides : o.rid > pivot}
             future == {t \in r.exdates : t >= pivot}
             rule == FutureRule(r, e, pivot, delta)
             ovs == ResetOverrides(ShiftOverrides(migrated, delta), e.reset, e.title)
  <2>1. delta \in Int /\ future \in SUBSET Int
    BY <1>1
  <2>2. migrated \in SUBSET Override /\ OnePerSlot(migrated)
    BY <1>1 DEF OnePerSlot
  <2> HIDE DEF delta, migrated, future
  <2>3. Shift(future, delta) \in SUBSET Int
    BY <2>1, ShiftTypes
  <2>4. rule \in Rule
    BY <1>1, <2>1, NewSeriesRule
  <2>5. ovs \in SUBSET Override /\ OnePerSlot(ovs)
    BY <1>1, <2>1, <2>2, CarriedOverrides
  <2>6. SplitNew(r, e, pivot) =
          [start |-> e.start, title |-> e.title, allDay |-> r.allDay, rule |-> rule,
           exdates |-> Shift(future, delta), overrides |-> ovs]
    BY DEF SplitNew, delta, migrated, future
  <2> HIDE DEF rule, ovs
  <2> QED BY <1>1, <2>3, <2>4, <2>5, <2>6 DEF Sound, Resource
<1> QED BY <1>2, <1>3, <1>4, <1>5

-----------------------------------------------------------------------------
(* The grid of a rule that follows its DTSTART.                            *)

LEMMA Multiples ==
  ASSUME NEW i \in Nat \ {0}, NEW k \in Nat, NEW m \in Nat
  PROVE  /\ k * i \in Nat /\ k <= k * i
         /\ k * i <= m * i <=> k <= m
         /\ k <= m => (m - k) * i = m * i - k * i
<1>1. \A a, b \in Nat : a <= b => a * i <= b * i
  <2> SUFFICES ASSUME NEW a \in Nat, NEW b \in Nat, a <= b PROVE a * i <= b * i
    OBVIOUS
  <2>1. (b - a) * i = b * i - a * i
    OBVIOUS
  <2>2. b - a \in Nat /\ (b - a) * i >= 0
    OBVIOUS
  <2> QED BY <2>1, <2>2
<1>2. \A a \in Nat : a * i \in Nat /\ a <= a * i
  <2> SUFFICES ASSUME NEW a \in Nat PROVE a * i \in Nat /\ a <= a * i
    OBVIOUS
  <2>1. i - 1 \in Nat /\ a * i = a * (i - 1) + a /\ a * (i - 1) >= 0
    OBVIOUS
  <2> QED BY <2>1
<1>3. ASSUME ~ (k <= m) PROVE ~ (k * i <= m * i)
  <2>1. (m + 1) * i <= k * i
    BY <1>1, <1>3
  <2>2. (m + 1) * i = m * i + i
    OBVIOUS
  <2>3. m * i \in Int /\ k * i \in Int
    OBVIOUS
  <2> QED BY <2>1, <2>2, <2>3
<1>4. k <= m => (m - k) * i = m * i - k * i
  OBVIOUS
<1> QED BY <1>1, <1>2, <1>3, <1>4

(* A rule whose slots follow its DTSTART.                                  *)
Following == {rule \in Rule : rule.phase = Floating}

(* Its slots are DTSTART and its multiples of the interval, as far as its  *)
(* bound admits them.                                                      *)
LEMMA FollowingSlots ==
  ASSUME NEW rule \in Following, NEW start \in Int, NEW t \in Int
  PROVE  /\ rule # NoRule
         /\ IsSlot(start, rule, t) <=>
              \E k \in Nat : t = start + k * rule.interval /\ Admitted(rule, k, t)
<1>1. rule # NoRule /\ rule.interval \in Nat \ {0} /\ rule.phase = Floating
  BY SeriesAssumption DEF Following, Rule
<1>2. \A k : SlotAt(start, rule, k) = start + k * rule.interval
  BY <1>1 DEF SlotAt, First
<1>3. \A k \in Nat : t = start + k * rule.interval => k \in 0 .. (t - start)
  <2> SUFFICES ASSUME NEW k \in Nat, t = start + k * rule.interval
               PROVE  k \in 0 .. (t - start)
    OBVIOUS
  <2>1. k * rule.interval \in Nat /\ k <= k * rule.interval
    BY <1>1, Multiples
  <2> QED BY <2>1
<1>4. 0 .. (t - start) \subseteq Nat
  OBVIOUS
<1> QED BY <1>1, <1>2, <1>3, <1>4 DEF IsSlot

(* DTSTART is the first slot, if there is any.                             *)
LEMMA FirstSlot ==
  ASSUME NEW rule \in Following, NEW start \in Int, NEW t \in Int, IsSlot(start, rule, t)
  PROVE  t >= start /\ IsSlot(start, rule, start)
<1>1. PICK k \in Nat : t = start + k * rule.interval /\ Admitted(rule, k, t)
  BY FollowingSlots
<1>2. rule.interval \in Nat \ {0} /\ rule.n \in Int /\ (rule.bound = "count" => rule.n >= 1)
  BY DEF Following, Rule
<1>3. k * rule.interval \in Nat
  BY <1>2, Multiples
<1>4. t >= start
  BY <1>1, <1>3
<1>5. start = start + 0 * rule.interval
  BY <1>2
<1>6. Admitted(rule, 0, start)
  BY <1>1, <1>2, <1>4 DEF Admitted
<1> QED BY <1>4, <1>5, <1>6, FollowingSlots

(* A whole series moves with its slots (ShiftUntil).                       *)
LEMMA ShiftedSlots ==
  ASSUME NEW rule \in Following, NEW start \in Int, NEW delta \in Int, NEW t \in Int
  PROVE  /\ ShiftUntil(rule, delta) \in Following
         /\ IsSlot(start + delta, ShiftUntil(rule, delta), t + delta) <=> IsSlot(start, rule, t)
<1> DEFINE moved == ShiftUntil(rule, delta)
<1>1. /\ rule.interval \in Nat \ {0} /\ rule.n \in Int
      /\ moved \in Rule /\ moved.phase = Floating /\ moved.interval = rule.interval
      /\ moved.bound = rule.bound
      /\ moved.n = IF rule.bound = "until" THEN rule.n + delta ELSE rule.n
  BY DEF ShiftUntil, Following, Rule
<1> HIDE DEF moved
<1>2. moved \in Following
  BY <1>1 DEF Following
<1>3. \A k \in Nat : Admitted(moved, k, t + delta) <=> Admitted(rule, k, t)
  BY <1>1 DEF Admitted
<1>4. \A k \in Nat : t + delta = (start + delta) + k * rule.interval <=> t = start + k * rule.interval
  <2> SUFFICES ASSUME NEW k \in Nat
               PROVE  t + delta = (start + delta) + k * rule.interval <=> t = start + k * rule.interval
    OBVIOUS
  <2>1. k * rule.interval \in Int
    BY <1>1
  <2> HIDE DEF moved
  <2> QED BY <2>1
<1>5. start + delta \in Int /\ t + delta \in Int
  OBVIOUS
<1>6. IsSlot(start + delta, moved, t + delta) <=>
        \E k \in Nat : t + delta = (start + delta) + k * rule.interval /\ Admitted(moved, k, t + delta)
  BY <1>1, <1>2, <1>5, FollowingSlots
<1>7. IsSlot(start, rule, t) <=>
        \E k \in Nat : t = start + k * rule.interval /\ Admitted(rule, k, t)
  BY FollowingSlots
<1> QED BY <1>2, <1>3, <1>4, <1>6, <1>7 DEF moved

(* Cutting a series before one of its later slots leaves exactly the slots *)
(* before it.                                                              *)
LEMMA TruncatedSlots ==
  ASSUME NEW rule \in Following, NEW start \in Int, NEW pivot \in Int, NEW t \in Int,
         IsSlot(start, rule, pivot), pivot > start
  PROVE  /\ TruncateUntil(start, rule, pivot) \in Following
         /\ IsSlot(start, TruncateUntil(start, rule, pivot), t) <=>
              IsSlot(start, rule, t) /\ t < pivot
<1> DEFINE cut == TruncateUntil(start, rule, pivot)
           last == LastBefore(start, rule, pivot)
           before == SlotsBefore(start, rule, pivot)
<1>1. rule.interval \in Nat \ {0} /\ rule.n \in Int /\ rule \in Rule
  BY DEF Following, Rule
<1>2. /\ last \in Int /\ last < pivot
      /\ before # {} => last \in before /\ \A u \in before : u <= last
  BY LastBeforeSpec
<1>3. cut \in Rule /\ cut.phase = Floating /\ cut.interval = rule.interval
      /\ cut.bound = "until" /\ cut.n = last
  <2>1. cut = [rule EXCEPT !.bound = "until", !.n = last]
    BY DEF TruncateUntil
  <2> HIDE DEF cut, last
  <2> QED BY <1>2, <2>1 DEF Following, Rule
<1>4. \A u \in Int : u \in before <=> u >= start /\ u < pivot /\ IsSlot(start, rule, u)
  BY DEF SlotsBefore
<1>5. start \in before
  BY <1>4, FirstSlot
<1> HIDE DEF cut, last, before
<1>6. last \in before /\ \A u \in before : u <= last
  BY <1>2, <1>5
<1>7. PICK m \in Nat : last = start + m * rule.interval /\ Admitted(rule, m, last)
  BY <1>2, <1>4, <1>6, FollowingSlots
<1>8. cut \in Following
  BY <1>3 DEF Following
<1>9. IsSlot(start, cut, t) <=> \E k \in Nat : t = start + k * rule.interval /\ t <= last
  BY <1>3, <1>8, FollowingSlots DEF Admitted
<1>10. ASSUME IsSlot(start, cut, t) PROVE IsSlot(start, rule, t) /\ t < pivot
  <2>1. PICK k \in Nat : t = start + k * rule.interval /\ t <= last
    BY <1>9, <1>10
  <2>2. k * rule.interval \in Nat /\ m * rule.interval \in Nat
    BY <1>1, Multiples
  <2>3. k * rule.interval <= m * rule.interval
    BY <1>7, <2>1, <2>2
  <2>4. k <= m
    BY <1>1, <2>3, Multiples
  <2>5. Admitted(rule, k, t)
    BY <1>1, <1>2, <1>7, <2>1, <2>4 DEF Admitted
  <2> QED BY <1>2, <2>1, <2>5, FollowingSlots
<1>11. ASSUME IsSlot(start, rule, t), t < pivot PROVE IsSlot(start, cut, t)
  <2>1. t <= last
    BY <1>4, <1>6, <1>11, FirstSlot
  <2>2. \E k \in Nat : t = start + k * rule.interval
    BY <1>11, FollowingSlots
  <2> QED BY <1>9, <2>1, <2>2
<1> QED BY <1>8, <1>10, <1>11 DEF cut

(* As many slots as the rule counts up to one of its slots.                *)
LEMMA CountedThrough ==
  ASSUME NEW rule \in Following, NEW start \in Int, NEW m \in Nat,
         Admitted(rule, m, start + m * rule.interval)
  PROVE  CountThrough(start, rule, start + m * rule.interval) = m + 1
<1> DEFINE pivot == start + m * rule.interval
<1>1. /\ rule.interval \in Nat \ {0} /\ rule.phase = Floating /\ rule.n \in Int
      /\ m * rule.interval \in Nat /\ m <= m * rule.interval
  <2>1. rule.interval \in Nat \ {0} /\ rule.phase = Floating /\ rule.n \in Int
    BY DEF Following, Rule
  <2> QED BY <2>1, Multiples
<1>2. pivot \in Int /\ pivot - start = m * rule.interval
  BY <1>1
<1>3. \A k : SlotAt(start, rule, k) = start + k * rule.interval
  BY <1>1 DEF SlotAt, First
<1> DEFINE counted == {k \in 0 .. (pivot - start) :
                         /\ SlotAt(start, rule, k) <= pivot
                         /\ Admitted(rule, k, SlotAt(start, rule, k))}
<1>4. \A k \in Nat : start + k * rule.interval <= pivot <=> k <= m
  <2> SUFFICES ASSUME NEW k \in Nat PROVE start + k * rule.interval <= pivot <=> k <= m
    OBVIOUS
  <2>1. k * rule.interval \in Nat /\ (k * rule.interval <= m * rule.interval <=> k <= m)
    BY <1>1, Multiples
  <2> QED BY <1>1, <2>1
<1>5. \A k \in Nat : k <= m =>
        k <= pivot - start /\ Admitted(rule, k, start + k * rule.interval)
  <2> SUFFICES ASSUME NEW k \in Nat, k <= m
               PROVE  k <= pivot - start /\ Admitted(rule, k, start + k * rule.interval)
    OBVIOUS
  <2>1. k * rule.interval \in Nat /\ start + k * rule.interval <= pivot
    BY <1>1, <1>4, Multiples
  <2>2. k <= pivot - start
    BY <1>1, <1>2
  <2> HIDE DEF pivot
  <2>3. Admitted(rule, m, pivot)
    BY DEF pivot
  <2> QED BY <1>1, <1>2, <2>1, <2>2, <2>3 DEF Admitted
<1>6. CountThrough(start, rule, pivot) = Cardinality(counted)
  BY DEF CountThrough
<1>7. counted = 0 .. m
  <2>1. counted \subseteq Nat /\ \A k \in Nat : k \in counted <=>
          /\ k <= pivot - start /\ start + k * rule.interval <= pivot
          /\ Admitted(rule, k, start + k * rule.interval)
    BY <1>2, <1>3
  <2> HIDE DEF counted, pivot
  <2>2. \A k \in Nat : k \in counted <=> k <= m
    BY <1>4, <1>5, <2>1
  <2>3. 0 .. m \subseteq Nat /\ \A k \in Nat : k \in 0 .. m <=> k <= m
    OBVIOUS
  <2>4. counted \subseteq Nat
    BY <2>1
  <2> QED BY <2>2, <2>3, <2>4
<1> HIDE DEF counted, pivot
<1>8. Cardinality(0 .. m) = m + 1
  BY FS_Interval
<1> QED BY <1>6, <1>7, <1>8 DEF pivot

(* The future part of a series split or rewritten at one of its slots has  *)
(* exactly the slots from there on, moved to where it starts.              *)
LEMMA RemainingSlots ==
  ASSUME NEW rule \in Following, NEW start \in Int, NEW pivot \in Int, NEW delta \in Int,
         NEW t \in Int, IsSlot(start, rule, pivot)
  PROVE  LET rest == ShiftUntil(RemainingRule(start, rule, pivot), delta)
         IN  /\ rest \in Following
             /\ IsSlot(pivot + delta, rest, t + delta) <=> IsSlot(start, rule, t) /\ t >= pivot
<1> DEFINE left == RemainingRule(start, rule, pivot)
<1>1. rule.interval \in Nat \ {0} /\ rule.n \in Int /\ rule \in Rule
  BY DEF Following, Rule
<1>2. PICK m \in Nat : pivot = start + m * rule.interval /\ Admitted(rule, m, pivot)
  BY FollowingSlots
<1>3. CountThrough(start, rule, pivot) = m + 1
  BY <1>2, CountedThrough
<1>4. /\ left \in Rule /\ left.phase = Floating /\ left.interval = rule.interval
      /\ left.bound = rule.bound
      /\ left.n = IF rule.bound = "count" THEN rule.n - m ELSE rule.n
  <2>1. CASE rule.bound # "count"
    BY <1>1, <2>1 DEF RemainingRule, Following
  <2>2. CASE rule.bound = "count"
    <3>1. m < rule.n
      BY <1>2, <2>2 DEF Admitted
    <3>2. left = [rule EXCEPT !.n = rule.n - m]
      BY <1>1, <1>3, <2>2, <3>1 DEF RemainingRule
    <3>3. rule.n - m \in Int /\ rule.n - m >= 1
      BY <1>1, <3>1
    <3> HIDE DEF left
    <3> QED BY <1>1, <2>2, <3>2, <3>3 DEF Following, Rule
  <2> QED BY <2>1, <2>2
<1> HIDE DEF left
<1>5. left \in Following
  BY <1>4 DEF Following
<1>6. /\ ShiftUntil(left, delta) \in Following
      /\ IsSlot(pivot + delta, ShiftUntil(left, delta), t + delta) <=> IsSlot(pivot, left, t)
  BY <1>5, ShiftedSlots
<1>7. IsSlot(pivot, left, t) <=>
        \E j \in Nat : t = pivot + j * rule.interval /\ Admitted(left, j, t)
  BY <1>4, <1>5, FollowingSlots
<1>8. IsSlot(start, rule, t) <=>
        \E k \in Nat : t = start + k * rule.interval /\ Admitted(rule, k, t)
  BY FollowingSlots
<1>9. ASSUME NEW j \in Nat, t = pivot + j * rule.interval, Admitted(left, j, t)
      PROVE  IsSlot(start, rule, t) /\ t >= pivot
  <2>1. /\ m * rule.interval \in Nat /\ j * rule.interval \in Nat
        /\ (m + j) * rule.interval = m * rule.interval + j * rule.interval
    BY <1>1, Multiples
  <2>2. t = start + (m + j) * rule.interval /\ t >= pivot
    BY <1>2, <1>9, <2>1
  <2>3. Admitted(rule, m + j, t)
    BY <1>1, <1>4, <1>9 DEF Admitted
  <2> QED BY <1>8, <2>2, <2>3
<1>10. ASSUME NEW k \in Nat, t = start + k * rule.interval, Admitted(rule, k, t), t >= pivot
       PROVE  IsSlot(pivot, left, t)
  <2>1. m * rule.interval \in Nat /\ k * rule.interval \in Nat
    BY <1>1, Multiples
  <2>2. m * rule.interval <= k * rule.interval
    BY <1>2, <1>10, <2>1
  <2>3. m <= k /\ (k - m) * rule.interval = k * rule.interval - m * rule.interval
    BY <1>1, <2>2, Multiples
  <2>4. k - m \in Nat /\ t = pivot + (k - m) * rule.interval
    BY <1>2, <1>10, <2>1, <2>3
  <2>5. Admitted(left, k - m, t)
    BY <1>1, <1>4, <1>10, <2>3 DEF Admitted
  <2> QED BY <1>7, <2>4, <2>5
<1>11. IsSlot(pivot, left, t) <=> IsSlot(start, rule, t) /\ t >= pivot
  BY <1>7, <1>8, <1>9, <1>10
<1> QED BY <1>6, <1>11 DEF left

-----------------------------------------------------------------------------
(* Series on a grid.                                                       *)

SlotsOf(r) == {t \in Int : IsSlot(r.start, r.rule, t)}

(* A resource that is one event, or a series whose rule follows its        *)
(* DTSTART and whose overrides stand for slots of it.                      *)
Tidy == {r \in Sound : /\ r.rule # NoRule => r.rule \in Following
                       /\ r.rule = NoRule => r.exdates = {} /\ r.overrides = {}
                       /\ \A o \in r.overrides : o.rid \in SlotsOf(r)}

(* The edits of a drag: no rule is sent.                                   *)
Gesture == {e \in SeriesEdit : e.rule = NoRule}

(* An override taken along by an edit of its series.                       *)
Carried(o, delta, fields, title) ==
  [rid   |-> o.rid + delta,
   time  |-> IF "time" \in fields THEN o.rid + delta ELSE o.time,
   title |-> IF "title" \in fields THEN title ELSE o.title]

CarryAll(ovs, delta, fields, title) == {Carried(o, delta, fields, title) : o \in ovs}

LEMMA CarriedForm ==
  ASSUME NEW ovs \in SUBSET Override, NEW delta \in Int, NEW fields, NEW title \in Titles
  PROVE  ResetOverrides(ShiftOverrides(ovs, delta), fields, title)
           = CarryAll(ovs, delta, fields, title)
<1> DEFINE reset(o) == [o EXCEPT !.time  = IF "time" \in fields THEN o.rid ELSE @,
                                 !.title = IF "title" \in fields THEN title ELSE @]
           moved(o) == [o EXCEPT !.rid = @ + delta]
<1>1. \A o \in ovs : reset(moved(o)) = Carried(o, delta, fields, title)
  <2> SUFFICES ASSUME NEW o \in ovs PROVE reset(moved(o)) = Carried(o, delta, fields, title)
    OBVIOUS
  <2> DEFINE p == [rid |-> o.rid + delta, time |-> o.time, title |-> o.title]
  <2>1. moved(o) = p
    BY DEF Override
  <2>2. p \in Override
    BY DEF Override
  <2> HIDE DEF p
  <2> DEFINE time2 == IF "time" \in fields THEN p.rid ELSE p.time
             title2 == IF "title" \in fields THEN title ELSE p.title
  <2>3. reset(p) = [p EXCEPT !.time = time2, !.title = title2]
    OBVIOUS
  <2> HIDE DEF time2, title2, reset, moved
  <2>4. reset(p) = [rid |-> p.rid, time |-> time2, title |-> title2]
    BY <2>2, <2>3 DEF Override
  <2> QED BY <2>1, <2>4 DEF Carried, p, time2, title2
<1>2. /\ ShiftOverrides(ovs, delta) = {moved(o) : o \in ovs}
      /\ ResetOverrides({moved(o) : o \in ovs}, fields, title)
           = {reset(p) : p \in {moved(o) : o \in ovs}}
  BY DEF ShiftOverrides, ResetOverrides
<1> HIDE DEF reset, moved
<1> QED BY <1>1, <1>2 DEF CarryAll

LEMMA TidyParts ==
  ASSUME NEW r \in Tidy
  PROVE  /\ r \in Sound /\ r \in Resource /\ OnePerSlot(r.overrides)
         /\ r.start \in Int /\ r.title \in Titles /\ r.exdates \in SUBSET Int
         /\ r.overrides \in SUBSET Override /\ r.rule \in Rule \cup {NoRule}
         /\ r.rule # NoRule => r.rule \in Following /\ r.rule \in Rule
         /\ SlotsOf(r) \subseteq Int
BY DEF Tidy, Sound, Resource, SlotsOf, Following

(* A single event has the one slot; a series has its start if it has any.  *)
LEMMA TidyStart ==
  ASSUME NEW r \in Tidy, NEW t \in SlotsOf(r)
  PROVE  t >= r.start /\ r.start \in SlotsOf(r) /\ (r.rule = NoRule => t = r.start)
<1>1. CASE r.rule = NoRule
  BY <1>1, TidyParts DEF SlotsOf, IsSlot
<1>2. CASE r.rule # NoRule
  <2>1. r.start \in Int /\ t \in Int /\ IsSlot(r.start, r.rule, t) /\ r.rule \in Following
    BY <1>2, TidyParts DEF SlotsOf
  <2> QED BY <1>2, <2>1, FirstSlot DEF SlotsOf
<1> QED BY <1>1, <1>2

(* The series r2 has the slots `slots' of r, moved by delta, with what is  *)
(* excluded of them and with the overrides `ovs', as the edit e asks.      *)
Carries(r, r2, slots, ovs, delta, e) ==
  /\ r2.title = e.title
  /\ SlotsOf(r2) = Shift(slots, delta)
  /\ \A t \in slots : t + delta \in r2.exdates <=> t \in r.exdates
  /\ r2.overrides = CarryAll(ovs, delta, e.reset, e.title)

LEMMA CarriesTidy ==
  ASSUME NEW r \in Tidy, NEW r2 \in Sound, r2.rule \in Following, NEW delta \in Int, NEW e,
         NEW slots, NEW ovs \in SUBSET r.overrides, Carries(r, r2, slots, ovs, delta, e),
         \A o \in ovs : o.rid \in slots
  PROVE  r2 \in Tidy
<1>1. r2.rule # NoRule
  BY SeriesAssumption DEF Following
<1>2. ASSUME NEW o2 \in r2.overrides PROVE o2.rid \in SlotsOf(r2)
  <2>1. PICK o \in ovs : o2 = Carried(o, delta, e.reset, e.title)
    BY DEF Carries, CarryAll
  <2>2. o2.rid = o.rid + delta
    BY <2>1 DEF Carried
  <2> QED BY <2>2 DEF Carries, Shift
<1> QED BY <1>1, <1>2 DEF Tidy

(* Moving a set of slots moves each of them.                               *)
LEMMA ShiftedSet ==
  ASSUME NEW S \in SUBSET Int, NEW T \in SUBSET Int, NEW delta \in Int,
         \A t \in Int : t + delta \in T <=> t \in S
  PROVE  T = Shift(S, delta)
<1>1. \A t \in T : t - delta \in Int /\ t = (t - delta) + delta /\ t - delta \in S
  OBVIOUS
<1>2. \A t \in S : t + delta \in T
  OBVIOUS
<1> QED BY <1>1, <1>2 DEF Shift

LEMMA ShiftedMember ==
  ASSUME NEW S \in SUBSET Int, NEW delta \in Int, NEW t \in Int
  PROVE  t + delta \in Shift(S, delta) <=> t \in S
<1>1. \A u \in S : t + delta = u + delta => t = u
  OBVIOUS
<1> QED BY <1>1 DEF Shift

(* A save of the whole series moves all of it (EditAll).                   *)
LEMMA EditAllSlots ==
  ASSUME NEW r \in Tidy, r.rule # NoRule, NEW e \in Gesture, NEW pivot \in SlotsOf(r)
  PROVE  /\ EditAll(r, e, pivot) \in Tidy
         /\ EditAll(r, e, pivot).rule # NoRule
         /\ Carries(r, EditAll(r, e, pivot), SlotsOf(r), r.overrides, e.start - pivot, e)
<1> DEFINE delta == e.start - pivot
           r2 == EditAll(r, e, pivot)
<1>1. e \in SeriesEdit /\ e.rule = NoRule /\ e.start \in Int /\ e.title \in Titles /\ pivot \in Int
  BY DEF Gesture, SeriesEdit, SlotsOf
<1>2. delta \in Int
  BY <1>1
<1>3. r2 \in Sound
  BY <1>1, TidyParts, SeriesEditsStaySound
<1>4. /\ r2.start = r.start + delta /\ r2.rule = ShiftUntil(r.rule, delta)
      /\ r2.title = e.title /\ r2.exdates = Shift(r.exdates, delta)
      /\ r2.overrides = ResetOverrides(ShiftOverrides(r.overrides, delta), e.reset, e.title)
  BY <1>1, TidyParts DEF EditAll, Resource
<1> HIDE DEF r2, delta
<1>5. \A t \in Int : t + delta \in SlotsOf(r2) <=> t \in SlotsOf(r)
  BY <1>2, <1>4, TidyParts, ShiftedSlots DEF SlotsOf
<1>6. SlotsOf(r2) = Shift(SlotsOf(r), delta)
  BY <1>2, <1>5, ShiftedSet DEF SlotsOf
<1>7. \A t \in SlotsOf(r) : t + delta \in r2.exdates <=> t \in r.exdates
  BY <1>2, <1>4, TidyParts, ShiftedMember
<1>8. r2.overrides = CarryAll(r.overrides, delta, e.reset, e.title)
  BY <1>1, <1>2, <1>4, TidyParts, CarriedForm
<1>9. Carries(r, r2, SlotsOf(r), r.overrides, delta, e)
  BY <1>4, <1>6, <1>7, <1>8 DEF Carries
<1>10. r2.rule \in Following /\ r2.rule # NoRule
  <2>1. r.rule \in Following
    BY TidyParts
  <2>2. r2.rule \in Following
    BY <1>2, <1>4, <2>1, ShiftedSlots, 0 \in Int
  <2> QED BY <2>2, SeriesAssumption DEF Following
<1>11. r2 \in Tidy
  BY <1>2, <1>3, <1>9, <1>10, CarriesTidy DEF Tidy
<1> QED BY <1>9, <1>10, <1>11 DEF r2, delta

(* An edit of one occurrence, a deletion of one: the slots stay.           *)
LEMMA EditThisSlots ==
  ASSUME NEW r \in Tidy, r.rule # NoRule, NEW e \in SeriesEdit, NEW pivot \in SlotsOf(r)
  PROVE  LET r2 == EditThis(r, e, pivot)
         IN  /\ r2 \in Tidy /\ r2.rule # NoRule /\ SlotsOf(r2) = SlotsOf(r)
             /\ r2.title = r.title /\ r2.exdates = r.exdates
             /\ r2.overrides = UpsertOverride(r.overrides, pivot, e.start, e.title)
<1> DEFINE r2 == EditThis(r, e, pivot)
<1>1. e.start \in Int /\ e.title \in Titles /\ pivot \in Int
  BY DEF SeriesEdit, SlotsOf
<1>2. r2 \in Sound
  BY <1>1, TidyParts, EditsStaySound
<1>3. /\ r2.start = r.start /\ r2.rule = r.rule /\ r2.title = r.title /\ r2.exdates = r.exdates
      /\ r2.overrides = UpsertOverride(r.overrides, pivot, e.start, e.title)
  BY TidyParts DEF EditThis, Resource
<1> HIDE DEF r2
<1>4. SlotsOf(r2) = SlotsOf(r)
  BY <1>3 DEF SlotsOf
<1>5. \A o \in r2.overrides : o.rid = pivot \/ o \in r.overrides
  BY <1>3 DEF UpsertOverride
<1>6. r2 \in Tidy
  BY <1>2, <1>3, <1>4, <1>5, TidyParts DEF Tidy
<1> QED BY <1>3, <1>4, <1>6 DEF r2

LEMMA DeleteThisSlots ==
  ASSUME NEW r \in Tidy, r.rule # NoRule, NEW pivot \in SlotsOf(r)
  PROVE  LET r2 == DeleteThis(r, pivot)
         IN  /\ r2 \in Tidy /\ r2.rule # NoRule /\ SlotsOf(r2) = SlotsOf(r)
             /\ r2.title = r.title /\ r2.exdates = r.exdates \cup {pivot}
             /\ r2.overrides = r.overrides
<1> DEFINE r2 == DeleteThis(r, pivot)
<1>1. pivot \in Int
  BY DEF SlotsOf
<1>2. /\ r2.start = r.start /\ r2.rule = r.rule /\ r2.title = r.title
      /\ r2.exdates = r.exdates \cup {pivot} /\ r2.overrides = r.overrides
  BY TidyParts DEF DeleteThis, Resource
<1>3. r2 \in Sound
  BY <1>1, TidyParts DEF DeleteThis, Sound, Resource
<1> HIDE DEF r2
<1>4. SlotsOf(r2) = SlotsOf(r)
  BY <1>2 DEF SlotsOf
<1>5. r2 \in Tidy
  BY <1>2, <1>3, <1>4, TidyParts DEF Tidy
<1> QED BY <1>2, <1>4, <1>5 DEF r2

(* What is left of a series cut before a later slot.                       *)
CutAt(r, r2, pivot) ==
  /\ r2.title = r.title /\ r2.rule # NoRule
  /\ SlotsOf(r2) = {t \in SlotsOf(r) : t < pivot}
  /\ \A t \in SlotsOf(r2) : t \in r2.exdates <=> t \in r.exdates
  /\ r2.overrides = {o \in r.overrides : o.rid < pivot}

LEMMA CutSlots ==
  ASSUME NEW r \in Tidy, r.rule # NoRule, NEW pivot \in SlotsOf(r), pivot > r.start
  PROVE  /\ SplitOld(r, pivot) \in Tidy /\ CutAt(r, SplitOld(r, pivot), pivot)
         /\ DeleteFuture(r, pivot) \in Tidy /\ CutAt(r, DeleteFuture(r, pivot), pivot)
<1>1. pivot \in Int /\ IsSlot(r.start, r.rule, pivot)
  BY DEF SlotsOf
<1>2. ASSUME NEW r2 \in Sound,
             r2.start = r.start, r2.rule = TruncateUntil(r.start, r.rule, pivot),
             r2.title = r.title, \A t \in Int : t < pivot => (t \in r2.exdates <=> t \in r.exdates),
             r2.overrides = OverridesBefore(r.overrides, pivot)
      PROVE  r2 \in Tidy /\ CutAt(r, r2, pivot)
  <2>1. \A t \in Int : t \in SlotsOf(r2) <=> t \in SlotsOf(r) /\ t < pivot
    BY <1>1, <1>2, TidyParts, TruncatedSlots DEF SlotsOf
  <2>2. r2.rule \in Following /\ r2.rule # NoRule
    BY <1>1, <1>2, TidyParts, TruncatedSlots, 0 \in Int, SeriesAssumption DEF Following
  <2>3. SlotsOf(r2) = {t \in SlotsOf(r) : t < pivot}
    BY <2>1 DEF SlotsOf
  <2>4. r2.overrides = {o \in r.overrides : o.rid < pivot}
    BY <1>2 DEF OverridesBefore
  <2>5. r2 \in Tidy
    BY <2>2, <2>3, <2>4 DEF Tidy
  <2>6. \A t \in SlotsOf(r2) : t \in Int /\ t < pivot
    BY <2>3 DEF SlotsOf
  <2> QED BY <1>2, <2>2, <2>3, <2>4, <2>5, <2>6 DEF CutAt
<1>3. /\ SplitOld(r, pivot).start = r.start
      /\ SplitOld(r, pivot).rule = TruncateUntil(r.start, r.rule, pivot)
      /\ SplitOld(r, pivot).title = r.title
      /\ SplitOld(r, pivot).exdates = {t \in r.exdates : t < pivot}
      /\ SplitOld(r, pivot).overrides = OverridesBefore(r.overrides, pivot)
  BY TidyParts DEF SplitOld, Resource
<1>4. /\ DeleteFuture(r, pivot).start = r.start
      /\ DeleteFuture(r, pivot).rule = TruncateUntil(r.start, r.rule, pivot)
      /\ DeleteFuture(r, pivot).title = r.title
      /\ DeleteFuture(r, pivot).exdates = r.exdates
      /\ DeleteFuture(r, pivot).overrides = OverridesBefore(r.overrides, pivot)
  BY TidyParts DEF DeleteFuture, Resource
<1>5. DeleteFuture(r, pivot) \in Sound
  BY <1>1, TidyParts, DeletesStaySound
<1>6. SplitOld(r, pivot) \in Sound
  <2>1. OverridesBefore(r.overrides, pivot) \in SUBSET r.overrides
    BY DEF OverridesBefore
  <2>2. TruncateUntil(r.start, r.rule, pivot) \in Rule
    BY <1>1, TidyParts, RuleTypes, 0 \in Int
  <2> QED BY TidyParts, <2>1, <2>2 DEF SplitOld, Sound, Resource, OnePerSlot
<1>7. SplitOld(r, pivot) \in Tidy /\ CutAt(r, SplitOld(r, pivot), pivot)
  BY <1>2, <1>3, <1>6
<1>8. DeleteFuture(r, pivot) \in Tidy /\ CutAt(r, DeleteFuture(r, pivot), pivot)
  BY <1>2, <1>4, <1>5
<1> QED BY <1>7, <1>8

(* The new part of a split has the slots from the pivot on, the edited     *)
(* occurrence first (SplitNew, RemainingRule).                             *)
LEMMA SplitNewSlots ==
  ASSUME NEW r \in Tidy, r.rule # NoRule, NEW e \in Gesture, NEW pivot \in SlotsOf(r)
  PROVE  /\ SplitNew(r, e, pivot) \in Tidy
         /\ SplitNew(r, e, pivot).rule # NoRule
         /\ Carries(r, SplitNew(r, e, pivot), {t \in SlotsOf(r) : t >= pivot},
                    {o \in r.overrides : o.rid > pivot}, e.start - pivot, e)
<1> DEFINE delta == e.start - pivot
           r2 == SplitNew(r, e, pivot)
           slots == {t \in SlotsOf(r) : t >= pivot}
           migrated == {o \in r.overrides : o.rid > pivot}
           future == {t \in r.exdates : t >= pivot}
<1>1. /\ e \in SeriesEdit /\ e.rule = NoRule /\ e.start \in Int /\ e.title \in Titles
      /\ pivot \in Int /\ IsSlot(r.start, r.rule, pivot)
  BY DEF Gesture, SeriesEdit, SlotsOf
<1>2. delta \in Int /\ pivot + delta = e.start
  BY <1>1
<1>3. r2 \in Sound
  BY <1>1, TidyParts, SeriesEditsStaySound
<1>4. /\ r2.start = e.start
      /\ r2.rule = ShiftUntil(RemainingRule(r.start, r.rule, pivot), delta)
      /\ r2.title = e.title /\ r2.exdates = Shift(future, delta)
      /\ r2.overrides = ResetOverrides(ShiftOverrides(migrated, delta), e.reset, e.title)
  BY <1>1 DEF SplitNew, FutureRule
<1>5. slots \in SUBSET Int /\ future \in SUBSET Int /\ migrated \in SUBSET r.overrides
  BY TidyParts
<1>6. \A t \in slots : t \in Int /\ t \in SlotsOf(r) /\ (t \in future <=> t \in r.exdates)
  BY TidyParts
<1>7. \A t \in Int : t \in slots <=> IsSlot(r.start, r.rule, t) /\ t >= pivot
  BY DEF SlotsOf
<1>8. \A o \in migrated : o.rid \in slots
  <2>1. \A o \in r.overrides : o.rid \in Int /\ o.rid \in SlotsOf(r)
    BY TidyParts DEF Tidy
  <2> QED BY <1>1, <2>1
<1> HIDE DEF r2, delta, slots, migrated, future
<1>9. \A t \in Int : t + delta \in SlotsOf(r2) <=> t \in slots
  <2> SUFFICES ASSUME NEW t \in Int PROVE t + delta \in SlotsOf(r2) <=> t \in slots
    OBVIOUS
  <2>1. r.rule \in Following /\ r.start \in Int
    BY TidyParts
  <2>2. IsSlot(pivot + delta, ShiftUntil(RemainingRule(r.start, r.rule, pivot), delta), t + delta)
          <=> IsSlot(r.start, r.rule, t) /\ t >= pivot
    BY <1>1, <1>2, <2>1, RemainingSlots
  <2>3. t + delta \in Int
    BY <1>2
  <2> QED BY <1>2, <1>4, <1>7, <2>2, <2>3 DEF SlotsOf
<1>10. SlotsOf(r2) = Shift(slots, delta)
  BY <1>2, <1>5, <1>9, ShiftedSet DEF SlotsOf
<1>11. \A t \in slots : t + delta \in r2.exdates <=> t \in r.exdates
  BY <1>2, <1>4, <1>5, <1>6, ShiftedMember
<1>12. r2.overrides = CarryAll(migrated, delta, e.reset, e.title)
  BY <1>1, <1>2, <1>4, <1>5, TidyParts, CarriedForm
<1>13. Carries(r, r2, slots, migrated, delta, e)
  BY <1>4, <1>10, <1>11, <1>12 DEF Carries
<1>14. r2.rule \in Following /\ r2.rule # NoRule
  BY <1>1, <1>2, <1>4, TidyParts, RemainingSlots, 0 \in Int, SeriesAssumption DEF Following
<1>15. r2 \in Tidy
  BY <1>2, <1>3, <1>5, <1>8, <1>13, <1>14, CarriesTidy
<1> QED BY <1>13, <1>14, <1>15 DEF r2, delta, slots, migrated

(* Rewriting `this and future' of the first occurrence moves all of it and *)
(* drops the customisation of that occurrence (RewriteFirst).              *)
LEMMA RewriteFirstSlots ==
  ASSUME NEW r \in Tidy, r.rule # NoRule, NEW e \in Gesture, r.start \in SlotsOf(r)
  PROVE  /\ RewriteFirst(r, e, r.start) \in Tidy
         /\ RewriteFirst(r, e, r.start).rule # NoRule
         /\ Carries(r, RewriteFirst(r, e, r.start), SlotsOf(r),
                    {o \in r.overrides : o.rid # r.start}, e.start - r.start, e)
<1> DEFINE delta == e.start - r.start
           r2 == RewriteFirst(r, e, r.start)
           kept == {o \in r.overrides : o.rid # r.start}
<1>1. /\ e \in SeriesEdit /\ e.rule = NoRule /\ e.start \in Int /\ e.title \in Titles
      /\ r.start \in Int /\ IsSlot(r.start, r.rule, r.start)
  BY DEF Gesture, SeriesEdit, SlotsOf
<1>2. delta \in Int /\ r.start + delta = e.start
  BY <1>1
<1>3. r2 \in Sound
  BY <1>1, TidyParts, SeriesEditsStaySound
<1>4. /\ r2.start = e.start
      /\ r2.rule = ShiftUntil(RemainingRule(r.start, r.rule, r.start), delta)
      /\ r2.title = e.title /\ r2.exdates = Shift(r.exdates, delta)
      /\ r2.overrides = ResetOverrides(ShiftOverrides(kept, delta), e.reset, e.title)
  BY <1>1, TidyParts DEF RewriteFirst, FutureRule, Resource
<1>5. kept \in SUBSET r.overrides /\ \A o \in kept : o.rid \in SlotsOf(r)
  BY DEF Tidy
<1> HIDE DEF r2, delta, kept
<1>6. \A t \in Int : t + delta \in SlotsOf(r2) <=> t \in SlotsOf(r)
  <2> SUFFICES ASSUME NEW t \in Int
               PROVE  t + delta \in SlotsOf(r2) <=> t \in SlotsOf(r)
    OBVIOUS
  <2>1. IsSlot(r.start + delta, r2.rule, t + delta) <=> IsSlot(r.start, r.rule, t) /\ t >= r.start
    BY <1>1, <1>2, <1>4, TidyParts, RemainingSlots
  <2>2. IsSlot(r.start, r.rule, t) => t >= r.start
    BY <1>1, TidyParts, FirstSlot
  <2>3. t + delta \in Int
    BY <1>2
  <2> QED BY <1>2, <1>4, <2>1, <2>2, <2>3 DEF SlotsOf
<1>7. SlotsOf(r2) = Shift(SlotsOf(r), delta)
  BY <1>2, <1>6, ShiftedSet DEF SlotsOf
<1>8. \A t \in SlotsOf(r) : t + delta \in r2.exdates <=> t \in r.exdates
  BY <1>2, <1>4, TidyParts, ShiftedMember
<1>9. r2.overrides = CarryAll(kept, delta, e.reset, e.title)
  BY <1>1, <1>2, <1>4, <1>5, TidyParts, CarriedForm
<1>10. Carries(r, r2, SlotsOf(r), kept, delta, e)
  BY <1>4, <1>7, <1>8, <1>9 DEF Carries
<1>11. r2.rule \in Following /\ r2.rule # NoRule
  BY <1>1, <1>2, <1>4, TidyParts, RemainingSlots, 0 \in Int, SeriesAssumption DEF Following
<1>12. r2 \in Tidy
  BY <1>2, <1>3, <1>5, <1>10, <1>11, CarriesTidy
<1> QED BY <1>10, <1>11, <1>12 DEF r2, delta, kept

(* A single event is put where the edit says.                              *)
LEMMA EditPlainSlots ==
  ASSUME NEW r \in Tidy, r.rule = NoRule, NEW e \in Gesture
  PROVE  LET r2 == EditPlain(r, e)
         IN  /\ r2 \in Tidy /\ SlotsOf(r2) = {e.start} /\ SlotsOf(r) = {r.start}
             /\ r2.rule = NoRule /\ r2.title = e.title /\ r2.exdates = {} /\ r2.overrides = {}
<1> DEFINE r2 == EditPlain(r, e)
<1>1. e \in SeriesEdit /\ e.rule = NoRule /\ e.start \in Int /\ e.title \in Titles
  BY DEF Gesture, SeriesEdit
<1>2. r.exdates = {} /\ r.overrides = {}
  BY DEF Tidy
<1>3. r2 \in Sound
  BY <1>1, TidyParts, EditsStaySound, 0 \in Int
<1>4. /\ r2.start = e.start /\ r2.rule = NoRule /\ r2.title = e.title
      /\ r2.exdates = {} /\ r2.overrides = ResetOverrides({}, e.reset, e.title)
  BY <1>1, <1>2, TidyParts DEF EditPlain, Resource
<1>5. r2.overrides = {}
  BY <1>4 DEF ResetOverrides
<1> HIDE DEF r2
<1>6. SlotsOf(r2) = {e.start} /\ SlotsOf(r) = {r.start}
  BY <1>1, <1>4, TidyParts DEF SlotsOf, IsSlot
<1>7. r2 \in Tidy
  BY <1>3, <1>4, <1>5 DEF Tidy
<1> QED BY <1>4, <1>5, <1>6, <1>7 DEF r2

-----------------------------------------------------------------------------
(* What a tidy resource shows: one occurrence for every slot it keeps.     *)

Kept(r) == SlotsOf(r) \ r.exdates

OccurrenceAt(r, t) ==
  IF \E o \in r.overrides : o.rid = t
  THEN LET o == CHOOSE p \in r.overrides : p.rid = t
       IN  [slot |-> t, time |-> o.time, title |-> o.title, custom |-> TRUE]
  ELSE [slot |-> t, time |-> t, title |-> r.title, custom |-> FALSE]

LEMMA OccurrenceForm ==
  ASSUME NEW r, OnePerSlot(r.overrides)
  PROVE  /\ \A o \in r.overrides : OccurrenceAt(r, o.rid) =
              [slot |-> o.rid, time |-> o.time, title |-> o.title, custom |-> TRUE]
         /\ \A t : (\A o \in r.overrides : o.rid # t) => OccurrenceAt(r, t) =
              [slot |-> t, time |-> t, title |-> r.title, custom |-> FALSE]
<1>1. ASSUME NEW o \in r.overrides
      PROVE  OccurrenceAt(r, o.rid) =
               [slot |-> o.rid, time |-> o.time, title |-> o.title, custom |-> TRUE]
  <2> DEFINE p == CHOOSE q \in r.overrides : q.rid = o.rid
  <2>1. p \in r.overrides /\ p.rid = o.rid
    OBVIOUS
  <2>2. p = o
    BY <2>1 DEF OnePerSlot
  <2>3. OccurrenceAt(r, o.rid) =
          [slot |-> o.rid, time |-> p.time, title |-> p.title, custom |-> TRUE]
    BY DEF OccurrenceAt
  <2> HIDE DEF p
  <2> QED BY <2>2, <2>3
<1>2. \A t : (\A o \in r.overrides : o.rid # t) => OccurrenceAt(r, t) =
        [slot |-> t, time |-> t, title |-> r.title, custom |-> FALSE]
  BY DEF OccurrenceAt
<1> QED BY <1>1, <1>2

LEMMA OccurrencesKept ==
  ASSUME NEW r \in Tidy, NEW window \in SUBSET Int, SlotsOf(r) \subseteq window
  PROVE  Occurrences(r, window) = {OccurrenceAt(r, t) : t \in Kept(r)}
<1>1. /\ OnePerSlot(r.overrides)
      /\ \A o \in r.overrides : o.rid \in SlotsOf(r)
  BY DEF Tidy, Sound
<1>2. \A t \in window : IsSlot(r.start, r.rule, t) <=> t \in SlotsOf(r)
  BY DEF SlotsOf
<1>3. PlainOccurrences(r, window) =
        {OccurrenceAt(r, t) : t \in {u \in Kept(r) : \A o \in r.overrides : o.rid # u}}
  <2>1. {u \in window : /\ IsSlot(r.start, r.rule, u)
                        /\ u \notin r.exdates
                        /\ \A o \in r.overrides : o.rid # u}
          = {u \in Kept(r) : \A o \in r.overrides : o.rid # u}
    BY <1>2 DEF Kept
  <2> DEFINE S == {u \in Kept(r) : \A o \in r.overrides : o.rid # u}
  <2>2. \A t \in S : OccurrenceAt(r, t) =
          [slot |-> t, time |-> t, title |-> r.title, custom |-> FALSE]
    BY <1>1, OccurrenceForm
  <2>3. PlainOccurrences(r, window) =
          {[slot |-> t, time |-> t, title |-> r.title, custom |-> FALSE] : t \in S}
    BY <2>1 DEF PlainOccurrences
  <2> HIDE DEF S
  <2>4. PlainOccurrences(r, window) = {OccurrenceAt(r, t) : t \in S}
    BY <2>2, <2>3
  <2> QED BY <2>4 DEF S
<1>4. CustomOccurrences(r) =
        {OccurrenceAt(r, t) : t \in {u \in Kept(r) : \E o \in r.overrides : o.rid = u}}
  <2>1. \A o \in r.overrides : OccurrenceAt(r, o.rid) =
          [slot |-> o.rid, time |-> o.time, title |-> o.title, custom |-> TRUE]
    BY <1>1, OccurrenceForm
  <2>2. \A o \in r.overrides : o.rid \in Kept(r) <=> o.rid \notin r.exdates
    BY <1>1 DEF Kept
  <2> QED BY <2>1, <2>2 DEF CustomOccurrences
<1> QED BY <1>3, <1>4 DEF Occurrences

LEMMA OccurrenceFields ==
  ASSUME NEW r \in Tidy, NEW t \in Int
  PROVE  /\ OccurrenceAt(r, t).slot = t
         /\ OccurrenceAt(r, t).time \in Int /\ OccurrenceAt(r, t).title \in Titles
         /\ OccurrenceAt(r, t).custom \in BOOLEAN
         /\ OccurrenceAt(r, t) = [slot |-> t, time |-> OccurrenceAt(r, t).time,
                                  title |-> OccurrenceAt(r, t).title,
                                  custom |-> OccurrenceAt(r, t).custom]
<1>1. OnePerSlot(r.overrides) /\ r.overrides \in SUBSET Override /\ r.title \in Titles
  BY TidyParts
<1>2. CASE \E o \in r.overrides : o.rid = t
  <2>1. PICK o \in r.overrides : o.rid = t
    BY <1>2
  <2>2. OccurrenceAt(r, t) = [slot |-> t, time |-> o.time, title |-> o.title, custom |-> TRUE]
    BY <1>1, <2>1, OccurrenceForm
  <2>3. o.time \in Int /\ o.title \in Titles
    BY <1>1 DEF Override
  <2> QED BY <2>2, <2>3
<1>3. CASE \A o \in r.overrides : o.rid # t
  <2>1. OccurrenceAt(r, t) = [slot |-> t, time |-> t, title |-> r.title, custom |-> FALSE]
    BY <1>1, <1>3, OccurrenceForm
  <2> QED BY <1>1, <2>1
<1> QED BY <1>2, <1>3

(* What a series shows of the slots it took from another.                  *)
LEMMA CarriedOccurrences ==
  ASSUME NEW r \in Tidy, NEW r2 \in Tidy, NEW delta \in Int, NEW e,
         NEW slots \in SUBSET SlotsOf(r), NEW ovs \in SUBSET r.overrides,
         Carries(r, r2, slots, ovs, delta, e)
  PROVE  /\ Kept(r2) = {t + delta : t \in slots \ r.exdates}
         /\ \A o \in ovs : OccurrenceAt(r2, o.rid + delta) =
              [slot  |-> o.rid + delta,
               time  |-> IF "time" \in e.reset THEN o.rid + delta ELSE o.time,
               title |-> IF "title" \in e.reset THEN e.title ELSE o.title,
               custom |-> TRUE]
         /\ \A t \in slots : (\A o \in ovs : o.rid # t) => OccurrenceAt(r2, t + delta) =
              [slot |-> t + delta, time |-> t + delta, title |-> e.title, custom |-> FALSE]
<1>1. /\ OnePerSlot(r2.overrides) /\ r2.title = e.title
      /\ SlotsOf(r2) = Shift(slots, delta)
      /\ \A t \in slots : t + delta \in r2.exdates <=> t \in r.exdates
      /\ r2.overrides = CarryAll(ovs, delta, e.reset, e.title)
  BY TidyParts DEF Carries
<1>2. slots \subseteq Int /\ \A o \in ovs : o.rid \in Int
  BY TidyParts DEF Override
<1>3. Kept(r2) = {t + delta : t \in slots \ r.exdates}
  BY <1>1 DEF Kept, Shift
<1>4. ASSUME NEW o \in ovs
      PROVE  OccurrenceAt(r2, o.rid + delta) =
               [slot  |-> o.rid + delta,
                time  |-> IF "time" \in e.reset THEN o.rid + delta ELSE o.time,
                title |-> IF "title" \in e.reset THEN e.title ELSE o.title,
                custom |-> TRUE]
  <2> DEFINE p == Carried(o, delta, e.reset, e.title)
  <2>1. p \in r2.overrides
    BY <1>1 DEF CarryAll
  <2>2. /\ p.rid = o.rid + delta
        /\ p.time = IF "time" \in e.reset THEN o.rid + delta ELSE o.time
        /\ p.title = IF "title" \in e.reset THEN e.title ELSE o.title
    BY DEF Carried
  <2> HIDE DEF p
  <2>3. OccurrenceAt(r2, p.rid) =
          [slot |-> p.rid, time |-> p.time, title |-> p.title, custom |-> TRUE]
    BY <1>1, <2>1, OccurrenceForm
  <2> QED BY <2>2, <2>3
<1>5. ASSUME NEW t \in slots, \A o \in ovs : o.rid # t
      PROVE  OccurrenceAt(r2, t + delta) =
               [slot |-> t + delta, time |-> t + delta, title |-> e.title, custom |-> FALSE]
  <2>1. ASSUME NEW p \in r2.overrides PROVE p.rid # t + delta
    <3>1. PICK o \in ovs : p = Carried(o, delta, e.reset, e.title)
      BY <1>1 DEF CarryAll
    <3>2. p.rid = o.rid + delta /\ o.rid \in Int /\ t \in Int /\ o.rid # t
      BY <1>2, <1>5, <3>1 DEF Carried
    <3> QED BY <3>2
  <2> QED BY <1>1, <2>1, OccurrenceForm
<1> QED BY <1>3, <1>4, <1>5
=============================================================================
