--------------------------- MODULE DelegationProofs ---------------------------
(***************************************************************************)
(* Proofs about Delegation, for any users, accounts, calendars, grants,    *)
(* requests and items: what a token, a share or a session can reach; and   *)
(* about the part of it that keeps the calendar rows, Calendars: when a    *)
(* user has one default calendar.                                          *)
(***************************************************************************)
EXTENDS Delegation, FiniteSetTheorems, WellFoundedInduction, TLAPS

-----------------------------------------------------------------------------
(* The id of a new row.                                                    *)

LEMMA LeastNat ==
  ASSUME NEW T, T \subseteq Nat, T # {}
  PROVE  \E x \in T : \A y \in T : x <= y
<1> DEFINE less == OpToRel(<, Nat)
<1>1. IsWellFoundedOn(less, Nat)
  BY NatLessThanWellFounded
<1>2. \A x, y \in Nat : <<y, x>> \in less <=> y < x
  BY DEF OpToRel
<1> HIDE DEF less
<1>3. PICK x \in T : \A y \in T : ~ (<<y, x>> \in less)
  BY <1>1, WFMin
<1>4. ASSUME NEW y \in T PROVE x <= y
  <2>1. x \in Nat /\ y \in Nat
    OBVIOUS
  <2>2. ~ (y < x)
    BY <2>1, <1>2, <1>3
  <2> QED
    BY <2>1, <2>2
<1> QED
  BY <1>4

LEMMA NextIdTyped == NextId \in Nat
<1> DEFINE B == {n \in 0..MaxId : \A id \in Ids : calendar[id] # None => id <= n}
<1>1. MaxId \in Nat
  BY CalendarsAssumption
<1>2. MaxId \in B /\ B \subseteq Nat
  BY <1>1 DEF Ids
<1>3. PICK n \in B : \A m \in B : n <= m
  BY <1>2, LeastNat
<1>4. n \in 0..MaxId /\ \A id \in Ids : calendar[id] # None => id <= n
  OBVIOUS
<1>5. n = 0 \/ calendar[n] # None
  <2> SUFFICES ASSUME n # 0, calendar[n] = None PROVE FALSE
    OBVIOUS
  <2>1. n - 1 \in 0..MaxId /\ \A id \in Ids : calendar[id] # None => id <= n - 1
    BY <1>1, <1>4 DEF Ids
  <2> QED
    BY <1>1, <1>3, <1>4, <2>1
<1>6. \E m \in 0..MaxId : /\ m = 0 \/ calendar[m] # None
                          /\ \A id \in Ids : calendar[id] # None => id <= m
  BY <1>4, <1>5
<1>7. (CHOOSE m \in 0..MaxId : /\ m = 0 \/ calendar[m] # None
                               /\ \A id \in Ids : calendar[id] # None => id <= m) \in 0..MaxId
  BY <1>6
<1> QED
  BY <1>1, <1>7 DEF NextId

-----------------------------------------------------------------------------
(* Types.                                                                  *)

(* The rows `ids' are now those of what was found for the account a.        *)
Listed(a, ids, found) ==
  calendar' = [id \in Ids |->
    IF id \in ids
    THEN [account |-> a, coll |-> found[id], enabled |-> TRUE, default |-> FALSE]
    ELSE calendar[id]]

(* What connecting an account does to the rows.                            *)
LEMMA ConnectEffect ==
  ASSUME CalendarsTypeOK, NEW a \in Accounts, NEW k \in SessionKeys(Owner[a]), Connect(a, k)
  PROVE  /\ account' = [account EXCEPT ![a] = k]
         /\ late' = IF k = key[Owner[a]] THEN late ELSE late \cup {a}
         /\ UNCHANGED <<key, patch, raced>>
         /\ high' \in 0..MaxId /\ high <= high'
         /\ \E ids \in SUBSET Ids : \E found \in [ids -> Holds[a]] :
              /\ Listed(a, ids, found)
              /\ reused' = reused \cup {id \in ids : id <= high}
              /\ \A id \in ids : id <= high'
<1> DEFINE n == Cardinality(Holds[a])
<1> DEFINE new == NextId..(NextId + n - 1)
<1>1. NextId \in Nat /\ n \in Nat /\ MaxId \in Nat
  BY NextIdTyped, CalendarsAssumption, FS_CardinalityType
<1>2. new \subseteq Ids
  BY DEF Connect
<1>3. PICK found \in Bijection(new, Holds[a]) :
        calendar' = [id \in Ids |->
          IF id \in new
          THEN [account |-> a, coll |-> found[id], enabled |-> TRUE, default |-> FALSE]
          ELSE calendar[id]]
  BY DEF Connect
<1>4. found \in [new -> Holds[a]]
  BY DEF Bijection, Injection
<1>5. /\ high' = IF \E id \in new : id > high THEN NextId + n - 1 ELSE high
      /\ reused' = reused \cup {id \in new : id <= high}
  BY DEF Connect
<1>6. high \in 0..MaxId
  BY DEF CalendarsTypeOK
<1>7. \A id \in new : id \in Nat /\ id <= NextId + n - 1 /\ 1 <= id /\ id <= MaxId
  BY <1>1, <1>2 DEF Ids
<1>8. high' \in 0..MaxId /\ high <= high' /\ \A id \in new : id <= high'
  <2>1. CASE \E id \in new : id > high
    <3>1. PICK id \in new : id > high
      BY <2>1
    <3>2. NextId + n - 1 \in new
      BY <1>1, <1>7
    <3>3. high' = NextId + n - 1
      BY <1>5, <2>1
    <3> QED
      BY <1>1, <1>6, <1>7, <3>1, <3>2, <3>3
  <2>2. CASE ~ \E id \in new : id > high
    BY <1>5, <1>6, <1>7, <2>2
  <2> QED
    BY <2>1, <2>2
<1>9. /\ account' = [account EXCEPT ![a] = k] /\ UNCHANGED <<key, patch, raced>>
      /\ late' = IF k = key[Owner[a]] THEN late ELSE late \cup {a}
  BY DEF Connect
<1> HIDE DEF new
<1>10. \E f \in [new -> Holds[a]] :
         /\ Listed(a, new, f)
         /\ reused' = reused \cup {id \in new : id <= high}
         /\ \A id \in new : id <= high'
  BY <1>3, <1>4, <1>5, <1>8 DEF Listed
<1> QED
  BY <1>2, <1>8, <1>9, <1>10

LEMMA ConnectTyped ==
  ASSUME CalendarsTypeOK, NEW a \in Accounts, NEW k \in SessionKeys(Owner[a]), Connect(a, k)
  PROVE  CalendarsTypeOK'
<1>0. PICK ids \in SUBSET Ids : \E found \in [ids -> Holds[a]] :
        /\ Listed(a, ids, found)
        /\ reused' = reused \cup {id \in ids : id <= high}
  BY ConnectEffect
<1>1. PICK found \in [ids -> Holds[a]] :
        /\ Listed(a, ids, found)
        /\ reused' = reused \cup {id \in ids : id <= high}
  BY <1>0
<1>2. /\ account' = [account EXCEPT ![a] = k] /\ late' \subseteq Accounts
      /\ UNCHANGED <<key, patch, raced>> /\ high' \in 0..MaxId
  BY ConnectEffect DEF CalendarsTypeOK
<1>3. k \in Nat /\ None \notin Nat
  BY CalendarsAssumption DEF CalendarsTypeOK, SessionKeys
<1>4. account' \in [Accounts -> Nat \cup {None}]
  BY <1>2, <1>3 DEF CalendarsTypeOK
<1>5. \A id \in ids : found[id] \in Collections
  BY CalendarsAssumption
<1>6. calendar' \in [Ids -> CalendarRow \cup {None}]
  <2> SUFFICES ASSUME NEW id \in Ids PROVE calendar'[id] \in CalendarRow \cup {None}
    BY <1>1 DEF Listed
  <2>1. CASE id \in ids
    BY <2>1, <1>1, <1>5 DEF CalendarRow, Listed
  <2>2. CASE id \notin ids
    BY <2>2, <1>1 DEF CalendarsTypeOK, Listed
  <2> QED
    BY <2>1, <2>2
<1>7. \A id \in Ids : calendar'[id] # None => account'[calendar'[id].account] # None
  <2> SUFFICES ASSUME NEW id \in Ids, calendar'[id] # None
               PROVE  account'[calendar'[id].account] # None
    OBVIOUS
  <2>1. account'[a] # None /\ \A b \in Accounts : account[b] # None => account'[b] # None
    BY <1>2, <1>3 DEF CalendarsTypeOK
  <2>2. CASE id \in ids
    BY <2>1, <2>2, <1>1 DEF Listed
  <2>3. CASE id \notin ids
    <3>1. calendar'[id] = calendar[id] /\ calendar[id] \in CalendarRow
      BY <2>3, <1>1 DEF CalendarsTypeOK, Listed
    <3>2. account[calendar[id].account] # None /\ calendar[id].account \in Accounts
      BY <3>1 DEF CalendarsTypeOK, CalendarRow
    <3> QED
      BY <2>1, <3>1, <3>2
  <2> QED
    BY <2>2, <2>3
<1>8. reused' \subseteq Ids
  BY <1>1 DEF CalendarsTypeOK
<1> QED
  BY <1>2, <1>4, <1>6, <1>7, <1>8 DEF CalendarsTypeOK

LEMMA WithoutTyped ==
  ASSUME CalendarsTypeOK, NEW S, WithoutAccounts(S)
  PROVE  /\ account' \in [Accounts -> Nat \cup {None}]
         /\ calendar' \in [Ids -> CalendarRow \cup {None}]
         /\ \A id \in Ids : calendar'[id] # None =>
              /\ calendar'[id] = calendar[id]
              /\ account'[calendar'[id].account] # None
         /\ \A a \in Accounts : account'[a] # None => a \notin S /\ account'[a] = account[a]
<1>1. /\ account' = [a \in Accounts |-> IF a \in S THEN None ELSE account[a]]
      /\ calendar' = [id \in Ids |->
           IF calendar[id] # None /\ calendar[id].account \in S THEN None ELSE calendar[id]]
  BY DEF WithoutAccounts
<1>2. /\ account' \in [Accounts -> Nat \cup {None}]
      /\ calendar' \in [Ids -> CalendarRow \cup {None}]
  BY <1>1 DEF CalendarsTypeOK
<1>3. \A id \in Ids : calendar'[id] # None =>
              /\ calendar'[id] = calendar[id]
              /\ account'[calendar'[id].account] # None
  <2> TAKE id \in Ids
  <2> HAVE calendar'[id] # None
  <2>1. calendar'[id] = calendar[id] /\ calendar[id].account \notin S /\ calendar[id] \in CalendarRow
    BY <1>1 DEF CalendarsTypeOK
  <2>2. account[calendar[id].account] # None /\ calendar[id].account \in Accounts
    BY <2>1 DEF CalendarsTypeOK, CalendarRow
  <2> QED
    BY <1>1, <2>1, <2>2
<1> QED
  BY <1>1, <1>2, <1>3

(* Connecting, disconnecting, enabling and a new key.                      *)
LEMMA OwningTyped ==
  ASSUME CalendarsTypeOK, Owning \/ \E u \in Users : NewKey(u)
  PROVE  CalendarsTypeOK'
<1>1. ASSUME NEW a \in Accounts, Disconnect(a) PROVE CalendarsTypeOK'
  BY <1>1, WithoutTyped DEF Disconnect, CalendarsTypeOK
<1>2. ASSUME NEW u \in Users, NewKey(u) PROVE CalendarsTypeOK'
  <2>1. WithoutAccounts({a \in Accounts : Owner[a] = u})
    BY <1>2 DEF NewKey
  <2>2. key' \in [Users -> Nat] /\ UNCHANGED <<patch, late, high, reused, raced>>
    BY <1>2 DEF NewKey, CalendarsTypeOK
  <2> QED
    BY <2>1, <2>2, WithoutTyped DEF CalendarsTypeOK
<1>3. ASSUME NEW id \in Ids, Toggle(id) PROVE CalendarsTypeOK'
  <2>1. /\ calendar' = [calendar EXCEPT ![id] = [calendar[id] EXCEPT !.enabled = ~calendar[id].enabled]]
        /\ calendar[id] \in CalendarRow
        /\ UNCHANGED <<key, account, patch, late, high, reused, raced>>
    BY <1>3 DEF Toggle, CalendarsTypeOK
  <2>2. [calendar[id] EXCEPT !.enabled = ~calendar[id].enabled] \in CalendarRow
    BY <2>1 DEF CalendarRow
  <2>3. [calendar[id] EXCEPT !.enabled = ~calendar[id].enabled].account = calendar[id].account
    BY <2>1 DEF CalendarRow
  <2>4. calendar' \in [Ids -> CalendarRow \cup {None}]
    BY <2>1, <2>2 DEF CalendarsTypeOK
  <2>5. \A i \in Ids : calendar'[i] # None =>
          calendar[i] # None /\ calendar'[i].account = calendar[i].account
    <3>1. None \notin CalendarRow
      BY CalendarsAssumption
    <3> QED
      BY <2>1, <2>3, <3>1 DEF CalendarsTypeOK
  <2> QED
    BY <2>1, <2>4, <2>5 DEF CalendarsTypeOK
<1> QED
  BY <1>1, <1>2, <1>3, ConnectTyped DEF Owning

(* Patches of the default mark.                                            *)
LEMMA ReadTyped ==
  ASSUME CalendarsTypeOK, NEW p \in Patches, NEW u \in Users, NEW id \in Ids,
         NEW value \in BOOLEAN, DefaultRead(p, u, id, value)
  PROVE  CalendarsTypeOK'
<1>1. calendar[id] \in CalendarRow
  BY DEF DefaultRead, Owns, CalendarsTypeOK
<1>2. calendar[id].default \in BOOLEAN
  BY <1>1 DEF CalendarRow
<1>3. Defaults(u) \in SUBSET Ids
  BY DEF Defaults, OwnedIds
<1> DEFINE row == [user |-> u, id |-> id, value |-> value, was |-> calendar[id].default,
                   others |-> IF value THEN Defaults(u) \ {id} ELSE {}]
<1>4. row \in Patch
  BY <1>2, <1>3 DEF Patch
<1>5. patch' = [patch EXCEPT ![p] = row]
  BY DEF DefaultRead
<1> HIDE DEF row
<1>6. patch' \in [Patches -> Patch \cup {None}]
  BY <1>4, <1>5 DEF CalendarsTypeOK
<1>7. raced' \subseteq Users
  BY DEF DefaultRead, CalendarsTypeOK
<1> QED
  BY <1>6, <1>7 DEF DefaultRead, CalendarsTypeOK

(* What a pending patch is about, and what its commit writes.              *)
Own(p) == IF patch[p].value # patch[p].was THEN {patch[p].id} ELSE {}

LEMMA CommitEffect ==
  ASSUME CalendarsTypeOK, NEW p \in Patches, DefaultCommit(p)
  PROVE  /\ patch[p] \in Patch /\ patch' = [patch EXCEPT ![p] = None]
         /\ \/ calendar' = calendar
            \/ /\ \A id \in patch[p].others \cup Own(p) : calendar[id] # None
               /\ calendar' = [id \in Ids |->
                    IF id \in patch[p].others \cup Own(p)
                    THEN [calendar[id] EXCEPT !.default = id \in Own(p) /\ patch[p].value]
                    ELSE calendar[id]]
         /\ raced' = raced \cup {Owner[calendar[id].account] :
                       id \in {i \in patch[p].others \cup Own(p) : Strays(p, i)}}
         /\ UNCHANGED <<key, account, late, high, reused>>
<1>1. patch[p] \in Patch
  BY DEF DefaultCommit, CalendarsTypeOK
<1> QED
  BY <1>1 DEF DefaultCommit, Own

LEMMA CommitTyped ==
  ASSUME CalendarsTypeOK, NEW p \in Patches, DefaultCommit(p)
  PROVE  CalendarsTypeOK'
<1> DEFINE W == patch[p].others \cup Own(p)
<1>1. patch[p] \in Patch /\ W \subseteq Ids
  BY CommitEffect DEF Own, Patch
<1>2. patch' \in [Patches -> Patch \cup {None}]
  BY CommitEffect DEF CalendarsTypeOK
<1>3. raced' \subseteq Users
  <2>1. \A id \in W : Strays(p, id) => Owner[calendar[id].account] \in Users
    BY <1>1, CalendarsAssumption DEF Strays, CalendarsTypeOK, CalendarRow
  <2> QED
    BY <2>1, CommitEffect DEF CalendarsTypeOK
<1>4. ASSUME NEW id \in Ids
      PROVE  /\ calendar'[id] \in CalendarRow \cup {None}
             /\ calendar'[id] # None =>
                  calendar[id] # None /\ calendar'[id].account = calendar[id].account
  <2>1. CASE calendar' = calendar
    BY <2>1 DEF CalendarsTypeOK
  <2>2. CASE id \in W /\ calendar' # calendar
    <3>1. /\ calendar[id] # None
          /\ calendar'[id] = [calendar[id] EXCEPT !.default = id \in Own(p) /\ patch[p].value]
      BY <2>2, CommitEffect
    <3>2. calendar[id] \in CalendarRow
      BY <3>1 DEF CalendarsTypeOK
    <3> QED
      BY <3>1, <3>2 DEF CalendarRow
  <2>3. CASE id \notin W /\ calendar' # calendar
    <3>1. calendar'[id] = calendar[id]
      BY <2>3, CommitEffect
    <3> QED
      BY <3>1 DEF CalendarsTypeOK
  <2> QED
    BY <2>1, <2>2, <2>3
<1>5. calendar' \in [Ids -> CalendarRow \cup {None}]
  <2>1. CASE calendar' = calendar
    BY <2>1 DEF CalendarsTypeOK
  <2>2. CASE calendar' # calendar
    <3>1. calendar' = [id \in Ids |->
            IF id \in W THEN [calendar[id] EXCEPT !.default = id \in Own(p) /\ patch[p].value]
            ELSE calendar[id]]
      BY <2>2, CommitEffect
    <3>2. DOMAIN calendar' = Ids /\ calendar' = [id \in Ids |-> calendar'[id]]
      BY <3>1
    <3> QED
      BY <1>4, <3>2
  <2> QED
    BY <2>1, <2>2
<1>6. UNCHANGED <<key, account, late, high, reused>>
  BY CommitEffect
<1> QED
  BY <1>2, <1>3, <1>4, <1>5, <1>6 DEF CalendarsTypeOK

-----------------------------------------------------------------------------
(* The inductive invariant.                                                *)

(* Every row is a calendar of its account, and its id was given out.       *)
Rows ==
  \A id \in Ids : calendar[id] # None =>
    calendar[id].coll \in Holds[calendar[id].account] /\ id <= high

(* Accounts are sealed with their user's current key, or were connected    *)
(* late.                                                                   *)
Sealed ==
  \A a \in Accounts : account[a] # None => account[a] = key[Owner[a]] \/ a \in late

(* What an id names in a context: a calendar of the user's, one that was   *)
(* ticked or that came back, and with a replaced key one of a late account.*)
Names(stale, ctx, id, coll) ==
  /\ coll \in CollsOf(ctx.user)
  /\ coll \in ctx.ticked \/ id \in reused
  /\ stale => coll \in LateColls(ctx.user)

(* Each id that a scoped context lists has been given out, and still       *)
(* stands for what was ticked unless it came back.                         *)
Scoped(ctx) ==
  \/ ctx.ticked = CollsOf(ctx.user)
  \/ \A id \in ctx.reads :
       id <= high /\ (id \in reused \/ calendar[id] = None \/ calendar[id].coll \in ctx.ticked)

(* A context has a key its user has or had.                                *)
SoundContext(ctx) ==
  ctx \in Context /\ ctx.writes \subseteq ctx.reads /\ ctx.key <= key[ctx.user] /\ Scoped(ctx)

SoundGrants ==
  \A g \in Grants : \A row \in GrantRow : grant[g] = row => SoundContext(row.ctx)

(* What a request of a context has done is within its scope.               *)
SoundDone(q, ctx) ==
  \A t \in q.done :
    /\ Names(q.stale, ctx, t.id, t.coll)
    /\ t.what = "read" => t.id \in ctx.reads
    /\ t.what # "read" => t.id \in ctx.writes
    /\ ctx.kind = "item" /\ t.what \in {"change", "delete"} => t.uid = ctx.uid

(* What a write is about to do is within its scope.                        *)
SoundWrite(q, ctx) ==
  /\ q.id \in ctx.writes
  /\ q.op = "move" => q.from \in ctx.writes
  /\ ctx.kind = "item" /\ q.op # "create" => q.uid = ctx.uid
  /\ q.step # "target" => Names(q.stale, ctx, q.id, q.target)
  /\ q.step \in {"origin", "drop"} => q.op = "move"
  /\ q.op = "move" /\ q.step \in {"call", "drop"} => Names(q.stale, ctx, q.from, q.origin)
  /\ q.stale => ctx.key < key[ctx.user]

(* What a listing has still to fetch is within its scope; an export has    *)
(* fetched the rest of what it was asked for.                              *)
SoundListing(q, ctx) ==
  /\ \A id \in Ids : q.rows[id] # None =>
       id \in ctx.reads /\ Names(q.stale, ctx, id, q.rows[id])
  /\ q.op = "export" =>
       {t.id : t \in q.done} \cup {id \in Ids : q.rows[id] # None} = q.asked
  /\ q.step = "answered" => \A id \in Ids : q.rows[id] = None

Sound(q) ==
  /\ q.by \in Grants => grant[q.by] # None
  /\ SoundDone(q, Ctx(q.by))
  /\ q.op \notin {"list", "export"} => SoundWrite(q, Ctx(q.by))
  /\ q.op \in {"list", "export"} => SoundListing(q, Ctx(q.by))

SoundRequests ==
  \A r \in Requests : \A q \in Write \cup Listing : req[r] = q => Sound(q)

IInv == TypeOK /\ Rows /\ Sealed /\ SoundGrants /\ SoundRequests

LEMMA NoneIsNothing ==
  /\ None \notin Nat /\ None \notin CalendarRow /\ None \notin GrantRow
  /\ None \notin Write /\ None \notin Listing /\ None \notin Collections
  /\ None \notin Uids /\ None # New /\ New \notin Uids /\ None \notin Ids
  /\ Owner \in [Accounts -> Users] /\ Holds \in [Accounts -> SUBSET Collections]
BY CalendarsAssumption, DelegationAssumption DEF Ids

LEMMA InitIInv == Init => IInv
<1> SUFFICES ASSUME Init PROVE IInv
  OBVIOUS
<1>1. TypeOK
  BY CalendarsAssumption DEF Init, CalendarsInit, TypeOK, CalendarsTypeOK
<1>2. Rows /\ Sealed
  BY DEF Init, CalendarsInit, Rows, Sealed
<1>3. SoundGrants /\ SoundRequests
  BY NoneIsNothing DEF Init, SoundGrants, SoundRequests
<1> QED
  BY <1>1, <1>2, <1>3 DEF IInv

(* An owned row's calendar is one of the user's.                           *)
LEMMA OwnedColl ==
  ASSUME CalendarsTypeOK, Rows, NEW u \in Users, NEW id \in Ids, Owns(u, id)
  PROVE  calendar[id].coll \in CollsOf(u) /\ calendar[id].account \in Accounts
<1>1. calendar[id] \in CalendarRow
  BY DEF CalendarsTypeOK, Owns
<1>2. calendar[id].account \in Accounts /\ Owner[calendar[id].account] = u
  BY <1>1 DEF CalendarRow, Owns
<1>3. calendar[id].coll \in Holds[calendar[id].account]
  BY DEF Rows, Owns
<1> QED
  BY <1>2, <1>3 DEF CollsOf

(* The owner in a session is a context like another.                       *)
LEMMA OwnerSound ==
  ASSUME CalendarsTypeOK, NEW u \in Users, NEW k \in SessionKeys(u)
  PROVE  SoundContext(OwnerContext(u, k))
<1>1. CollsOf(u) \in SUBSET Collections
  BY NoneIsNothing DEF CollsOf
<1>2. key[u] \in Nat /\ k \in Nat /\ k <= key[u]
  BY DEF CalendarsTypeOK, SessionKeys
<1>3. OwnerContext(u, k) \in Context
  BY <1>1, <1>2 DEF OwnerContext, Context
<1> QED
  BY <1>2, <1>3 DEF OwnerContext, SoundContext, Scoped

LEMMA RequestTyped ==
  ASSUME TypeOK, NEW r \in Requests, req[r] # None
  PROVE  /\ req[r] \in Write \cup Listing
         /\ req[r].by \in Grants \cup Users
         /\ req[r].op \notin {"list", "export"} => req[r] \in Write
         /\ req[r].op \in {"list", "export"} => req[r] \in Listing
<1>1. req[r] \in Write \cup Listing
  BY DEF TypeOK
<1> QED
  BY <1>1 DEF Write, Listing

LEMMA ContextSound ==
  ASSUME IInv, NEW by \in Grants \cup Users, by \in Grants => grant[by] # None
  PROVE  SoundContext(Ctx(by))
<1>1. CASE by \in Users
  <2>1. CalendarsTypeOK /\ key[by] \in SessionKeys(by)
    BY <1>1 DEF IInv, TypeOK, CalendarsTypeOK, SessionKeys
  <2> QED
    BY <1>1, <2>1, OwnerSound DEF Ctx
<1>2. CASE by \notin Users
  BY <1>2 DEF Ctx, IInv, SoundGrants, TypeOK
<1> QED
  BY <1>1, <1>2

(* A row found with a context's key that is not the user's newest: its     *)
(* account was connected late.                                             *)
LEMMA FoundLate ==
  ASSUME CalendarsTypeOK, Rows, Sealed, NEW ctx, SoundContext(ctx), NEW id \in Ids,
         Owns(ctx.user, id), account[calendar[id].account] = ctx.key, ctx.key # key[ctx.user]
  PROVE  calendar[id].coll \in LateColls(ctx.user)
<1>1. ctx.user \in Users /\ ctx.key \in Nat
  BY DEF SoundContext, Context
<1>2. calendar[id].account \in Accounts /\ Owner[calendar[id].account] = ctx.user
  BY <1>1, OwnedColl DEF Owns
<1>3. calendar[id].account \in late
  BY <1>1, <1>2, NoneIsNothing DEF Sealed
<1>4. calendar[id].coll \in Holds[calendar[id].account]
  BY DEF Rows, Owns
<1> QED
  BY <1>2, <1>3, <1>4 DEF LateColls

(* A row the context may read and opens names what the context may read.   *)
LEMMA OwnedNamed ==
  ASSUME CalendarsTypeOK, Rows, Sealed, NEW ctx, SoundContext(ctx), NEW id \in ctx.reads,
         Owns(ctx.user, id), account[calendar[id].account] = ctx.key,
         NEW stale, stale => ctx.key # key[ctx.user]
  PROVE  Names(stale, ctx, id, calendar[id].coll)
<1>1. ctx.user \in Users /\ id \in Ids
  BY DEF SoundContext, Context
<1>2. calendar[id].coll \in CollsOf(ctx.user)
  BY <1>1, OwnedColl
<1>3. stale => calendar[id].coll \in LateColls(ctx.user)
  BY <1>1, FoundLate
<1> QED
  BY <1>2, <1>3 DEF SoundContext, Scoped, Names, Owns

-----------------------------------------------------------------------------
(* What goes on around a request does not take it out of its scope.        *)

(* Keys are only replaced by later ones, ids once reused and accounts once *)
(* late stay so, and the context of a grant never changes.                 *)
Onward ==
  /\ \A u \in Users : key[u] <= key'[u]
  /\ reused \subseteq reused' /\ late \subseteq late'
  /\ \A g \in Grants : grant[g] # None => grant'[g] # None /\ grant'[g].ctx = grant[g].ctx

LEMMA SoundKept ==
  ASSUME IInv, TypeOK', Onward, NEW q \in Write \cup Listing, Sound(q)
  PROVE  Sound(q)'
<1>1. q.by \in Grants \cup Users
  BY DEF Write, Listing
<1>2. q.by \in Grants => grant[q.by] # None /\ grant'[q.by] # None
  BY DEF Onward, Sound
<1>3. /\ Ctx(q.by)'.user = Ctx(q.by).user /\ Ctx(q.by)'.kind = Ctx(q.by).kind
      /\ Ctx(q.by)'.reads = Ctx(q.by).reads /\ Ctx(q.by)'.writes = Ctx(q.by).writes
      /\ Ctx(q.by)'.uid = Ctx(q.by).uid /\ Ctx(q.by)'.ticked = Ctx(q.by).ticked
  <2>1. CASE q.by \in Users
    BY <2>1 DEF Ctx, OwnerContext, CollsOf
  <2>2. CASE q.by \notin Users
    BY <1>1, <2>2 DEF Ctx, Onward, Sound
  <2> QED
    BY <2>1, <2>2
<1>4. \A id, coll : Names(q.stale, Ctx(q.by), id, coll) => Names(q.stale, Ctx(q.by), id, coll)'
  BY <1>3 DEF Names, CollsOf, LateColls, Onward
<1>5. SoundDone(q, Ctx(q.by))'
  BY <1>3, <1>4 DEF Sound, SoundDone
<1>6. ASSUME q.op \notin {"list", "export"} PROVE SoundWrite(q, Ctx(q.by))'
  <2>1. q \in Write /\ q.by \in Grants /\ SoundWrite(q, Ctx(q.by))
    BY <1>6 DEF Write, Listing, Sound
  <2>2. q.by \notin Users /\ grant[q.by] # None
    BY <2>1, <1>2, DelegationAssumption
  <2>3. Ctx(q.by)'.key = Ctx(q.by).key
    BY <2>1, <2>2, <1>2 DEF Ctx, Onward
  <2>4. SoundContext(Ctx(q.by))
    BY <1>1, <1>2, ContextSound
  <2>5. Ctx(q.by).user \in Users /\ Ctx(q.by).key \in Nat
    BY <2>4 DEF SoundContext, Context
  <2>6. Ctx(q.by).key < key[Ctx(q.by).user] => Ctx(q.by).key < key'[Ctx(q.by).user]
    BY <2>5 DEF Onward, IInv, TypeOK, CalendarsTypeOK
  <2> QED
    BY <1>3, <1>4, <2>1, <2>3, <2>6 DEF SoundWrite
<1>7. ASSUME q.op \in {"list", "export"} PROVE SoundListing(q, Ctx(q.by))'
  BY <1>3, <1>4, <1>7 DEF Sound, SoundListing
<1> QED
  BY <1>2, <1>5, <1>6, <1>7 DEF Sound

LEMMA RequestsKept ==
  ASSUME IInv, TypeOK', Onward, UNCHANGED req
  PROVE  SoundRequests'
<1> SUFFICES ASSUME NEW r \in Requests, NEW q \in Write \cup Listing, req'[r] = q
             PROVE  Sound(q)'
  BY DEF SoundRequests
<1>1. Sound(q)
  BY DEF IInv, SoundRequests
<1> QED
  BY <1>1, SoundKept

(* The context of a grant, through a change of the rows.                   *)
LEMMA ContextKept ==
  ASSUME high \in Nat, high' \in Nat, high <= high', key' \in [Users -> Nat], Onward,
         key \in [Users -> Nat], Ids \subseteq Nat,
         \A id \in Ids : \/ calendar'[id] = None
                         \/ calendar[id] # None /\ calendar'[id].coll = calendar[id].coll
                         \/ id \in reused' \/ ~ id <= high,
         NEW ctx, SoundContext(ctx)
  PROVE  SoundContext(ctx)'
<1>1. ctx \in Context /\ ctx.writes \subseteq ctx.reads /\ ctx.key <= key[ctx.user] /\ Scoped(ctx)
  BY DEF SoundContext
<1>2. ctx.user \in Users /\ ctx.key \in Nat /\ ctx.reads \subseteq Ids
  BY <1>1 DEF Context
<1>3. ctx.key <= key'[ctx.user]
  BY <1>1, <1>2 DEF Onward
<1>4. Scoped(ctx)'
  <2>1. CASE ctx.ticked = CollsOf(ctx.user)
    BY <2>1 DEF Scoped, CollsOf
  <2>2. CASE \A id \in ctx.reads :
               id <= high /\ (id \in reused \/ calendar[id] = None \/ calendar[id].coll \in ctx.ticked)
    <3> SUFFICES ASSUME NEW id \in ctx.reads
                 PROVE  id <= high' /\ (id \in reused' \/ calendar'[id] = None
                                          \/ calendar'[id].coll \in ctx.ticked)
      BY DEF Scoped
    <3>1. id \in Nat /\ id \in Ids
      BY <1>2
    <3> QED
      BY <2>2, <3>1 DEF Onward
  <2> QED
    BY <1>1, <2>1, <2>2 DEF Scoped
<1> QED
  BY <1>1, <1>3, <1>4 DEF SoundContext

LEMMA HighTyped ==
  ASSUME CalendarsTypeOK
  PROVE  high \in Nat /\ Ids \subseteq Nat /\ key \in [Users -> Nat]
BY CalendarsAssumption DEF CalendarsTypeOK, Ids

(* Connecting, disconnecting, enabling: the rows.                          *)
LEMMA OwningRows ==
  ASSUME CalendarsTypeOK, Rows, Sealed, Owning
  PROVE  /\ Rows' /\ Sealed' /\ UNCHANGED key
         /\ high <= high' /\ reused \subseteq reused' /\ late \subseteq late'
         /\ \A id \in Ids : \/ calendar'[id] = None
                            \/ calendar[id] # None /\ calendar'[id].coll = calendar[id].coll
                            \/ id \in reused' \/ ~ id <= high
<1> DEFINE Goal ==
      /\ Rows' /\ Sealed' /\ UNCHANGED key
      /\ high <= high' /\ reused \subseteq reused' /\ late \subseteq late'
      /\ \A id \in Ids : \/ calendar'[id] = None
                         \/ calendar[id] # None /\ calendar'[id].coll = calendar[id].coll
                         \/ id \in reused' \/ ~ id <= high
<1>0. high \in Nat /\ Ids \subseteq Nat
  BY HighTyped
<1>1. ASSUME NEW a \in Accounts, NEW k \in SessionKeys(Owner[a]), Connect(a, k) PROVE Goal
  <2>1. PICK ids \in SUBSET Ids : \E found \in [ids -> Holds[a]] :
          /\ Listed(a, ids, found)
          /\ reused' = reused \cup {id \in ids : id <= high}
          /\ \A id \in ids : id <= high'
    BY <1>1, ConnectEffect
  <2>2. PICK found \in [ids -> Holds[a]] :
          /\ Listed(a, ids, found)
          /\ reused' = reused \cup {id \in ids : id <= high}
          /\ \A id \in ids : id <= high'
    BY <2>1
  <2>3. /\ account' = [account EXCEPT ![a] = k]
        /\ late' = IF k = key[Owner[a]] THEN late ELSE late \cup {a}
        /\ UNCHANGED key /\ high <= high' /\ high' \in 0..MaxId
    BY <1>1, ConnectEffect
  <2>4. high' \in Nat
    BY <2>3, CalendarsAssumption
  <2>5. Rows'
    <3> SUFFICES ASSUME NEW id \in Ids, calendar'[id] # None
                 PROVE  calendar'[id].coll \in Holds[calendar'[id].account] /\ id <= high'
      BY DEF Rows
    <3>1. CASE id \in ids
      BY <3>1, <2>2 DEF Listed
    <3>2. CASE id \notin ids
      <4>1. calendar'[id] = calendar[id]
        BY <3>2, <2>2 DEF Listed
      <4>2. id <= high /\ id \in Nat
        BY <4>1, <1>0 DEF Rows
      <4> QED
        BY <4>1, <4>2, <1>0, <2>3, <2>4 DEF Rows
    <3> QED
      BY <3>1, <3>2
  <2>6. Sealed'
    BY <2>3 DEF Sealed, CalendarsTypeOK
  <2>7. \A id \in Ids : \/ calendar'[id] = None
                        \/ calendar[id] # None /\ calendar'[id].coll = calendar[id].coll
                        \/ id \in reused' \/ ~ id <= high
    BY <2>2 DEF Listed
  <2> QED
    BY <2>2, <2>3, <2>5, <2>6, <2>7
<1>2. ASSUME NEW a \in Accounts, Disconnect(a) PROVE Goal
  <2>1. WithoutAccounts({a}) /\ UNCHANGED <<key, late, high, reused>>
    BY <1>2 DEF Disconnect
  <2>2. /\ \A id \in Ids : calendar'[id] # None => calendar'[id] = calendar[id]
        /\ \A b \in Accounts : account'[b] # None => account'[b] = account[b]
    BY <2>1, WithoutTyped
  <2>3. Rows'
    BY <2>1, <2>2 DEF Rows
  <2>4. Sealed'
    BY <2>1, <2>2 DEF Sealed
  <2>5. \A id \in Ids : \/ calendar'[id] = None
                        \/ calendar[id] # None /\ calendar'[id].coll = calendar[id].coll
                        \/ id \in reused' \/ ~ id <= high
    BY <2>2
  <2>6. UNCHANGED key /\ high <= high' /\ reused \subseteq reused' /\ late \subseteq late'
    BY <1>0, <2>1
  <2> QED
    BY <2>3, <2>4, <2>5, <2>6
<1>3. ASSUME NEW id \in Ids, Toggle(id) PROVE Goal
  <2>1. /\ calendar' = [calendar EXCEPT ![id] = [calendar[id] EXCEPT !.enabled = ~calendar[id].enabled]]
        /\ calendar[id] \in CalendarRow
        /\ UNCHANGED <<key, account, late, high, reused>>
    BY <1>3 DEF Toggle, CalendarsTypeOK
  <2>2. /\ [calendar[id] EXCEPT !.enabled = ~calendar[id].enabled].coll = calendar[id].coll
        /\ [calendar[id] EXCEPT !.enabled = ~calendar[id].enabled].account = calendar[id].account
    BY <2>1 DEF CalendarRow
  <2>3. \A i \in Ids : calendar'[i] # None =>
          /\ calendar[i] # None /\ calendar'[i].coll = calendar[i].coll
          /\ calendar'[i].account = calendar[i].account
    BY <2>1, <2>2, NoneIsNothing DEF CalendarsTypeOK
  <2>4. UNCHANGED key /\ high <= high' /\ reused \subseteq reused' /\ late \subseteq late'
    BY <1>0, <2>1
  <2>5. Rows'
    BY <2>1, <2>3 DEF Rows
  <2>6. Sealed'
    BY <2>1 DEF Sealed
  <2>7. \A i \in Ids : \/ calendar'[i] = None
                       \/ calendar[i] # None /\ calendar'[i].coll = calendar[i].coll
                       \/ i \in reused' \/ ~ i <= high
    BY <2>3
  <2> QED
    BY <2>4, <2>5, <2>6, <2>7
<1> QED
  BY <1>1, <1>2, <1>3 DEF Owning

LEMMA OwningKeeps ==
  ASSUME IInv, Owning, UNCHANGED <<grant, req>>
  PROVE  IInv'
<1>1. CalendarsTypeOK /\ CalendarsTypeOK'
  BY OwningTyped DEF IInv, TypeOK
<1>2. TypeOK'
  BY <1>1 DEF IInv, TypeOK
<1>3. /\ Rows' /\ Sealed' /\ UNCHANGED key
      /\ high <= high' /\ reused \subseteq reused' /\ late \subseteq late'
      /\ \A id \in Ids : \/ calendar'[id] = None
                         \/ calendar[id] # None /\ calendar'[id].coll = calendar[id].coll
                         \/ id \in reused' \/ ~ id <= high
  BY <1>1, OwningRows DEF IInv
<1>4. high \in Nat /\ Ids \subseteq Nat /\ key \in [Users -> Nat] /\ high' \in Nat
  BY <1>1, HighTyped, CalendarsAssumption DEF CalendarsTypeOK
<1>5. Onward
  BY <1>3, <1>4 DEF Onward
<1>6. SoundGrants'
  <2> SUFFICES ASSUME NEW g \in Grants, NEW row \in GrantRow, grant'[g] = row
               PROVE  SoundContext(row.ctx)'
    BY DEF SoundGrants
  <2>1. SoundContext(row.ctx)
    BY DEF IInv, SoundGrants
  <2> QED
    BY <1>3, <1>4, <1>5, <2>1, ContextKept
<1>7. SoundRequests'
  BY <1>2, <1>5, RequestsKept
<1> QED
  BY <1>2, <1>3, <1>6, <1>7 DEF IInv

(* Patches of the default mark leave the rows where they are.              *)
LEMMA PatchingRows ==
  ASSUME CalendarsTypeOK, Patching
  PROVE  /\ CalendarsTypeOK' /\ UNCHANGED <<key, account, late, high, reused>>
         /\ \A id \in Ids : calendar'[id] # None =>
              /\ calendar[id] # None /\ calendar'[id].coll = calendar[id].coll
              /\ calendar'[id].account = calendar[id].account
<1> DEFINE Goal ==
      /\ CalendarsTypeOK' /\ UNCHANGED <<key, account, late, high, reused>>
      /\ \A id \in Ids : calendar'[id] # None =>
              /\ calendar[id] # None /\ calendar'[id].coll = calendar[id].coll
              /\ calendar'[id].account = calendar[id].account
<1>1. ASSUME NEW p \in Patches, DefaultCommit(p) PROVE Goal
  <2>1. CalendarsTypeOK' /\ UNCHANGED <<key, account, late, high, reused>>
    BY <1>1, CommitEffect, CommitTyped
  <2>2. ASSUME NEW id \in Ids, calendar'[id] # None
        PROVE  /\ calendar[id] # None /\ calendar'[id].coll = calendar[id].coll
               /\ calendar'[id].account = calendar[id].account
    <3>1. CASE calendar' = calendar
      BY <2>2, <3>1
    <3>2. CASE id \in patch[p].others \cup Own(p) /\ calendar' # calendar
      <4>1. /\ calendar[id] # None
            /\ calendar'[id] = [calendar[id] EXCEPT !.default = id \in Own(p) /\ patch[p].value]
        BY <1>1, <3>2, CommitEffect
      <4>2. calendar[id] \in CalendarRow
        BY <4>1 DEF CalendarsTypeOK
      <4> QED
        BY <4>1, <4>2 DEF CalendarRow
    <3>3. CASE id \notin patch[p].others \cup Own(p) /\ calendar' # calendar
      <4>1. calendar'[id] = calendar[id]
        BY <1>1, <3>3, CommitEffect
      <4> QED
        BY <2>2, <4>1
    <3> QED
      BY <3>1, <3>2, <3>3
  <2> QED
    BY <2>1, <2>2
<1>2. ASSUME NEW p \in Patches, NEW u \in Users, NEW id \in Ids, NEW value \in BOOLEAN,
             DefaultRead(p, u, id, value)
      PROVE  Goal
  <2>1. CalendarsTypeOK'
    BY <1>2, ReadTyped
  <2>2. UNCHANGED <<key, account, calendar, late, high, reused>>
    BY <1>2 DEF DefaultRead
  <2> QED
    BY <2>1, <2>2
<1> QED
  BY <1>1, <1>2 DEF Patching

LEMMA PatchingKeeps ==
  ASSUME IInv, Patching, UNCHANGED <<grant, req>>
  PROVE  IInv'
<1>1. /\ CalendarsTypeOK /\ CalendarsTypeOK' /\ UNCHANGED <<key, account, late, high, reused>>
      /\ \A id \in Ids : calendar'[id] # None =>
           /\ calendar[id] # None /\ calendar'[id].coll = calendar[id].coll
           /\ calendar'[id].account = calendar[id].account
  BY PatchingRows DEF IInv, TypeOK
<1>2. TypeOK'
  BY <1>1 DEF IInv, TypeOK
<1>3. Rows' /\ Sealed'
  BY <1>1 DEF IInv, Rows, Sealed
<1>4. high \in Nat /\ Ids \subseteq Nat /\ key \in [Users -> Nat]
  BY <1>1, HighTyped
<1>5. Onward
  BY <1>1, <1>4 DEF Onward
<1>6. SoundGrants'
  <2> SUFFICES ASSUME NEW g \in Grants, NEW row \in GrantRow, grant'[g] = row
               PROVE  SoundContext(row.ctx)'
    BY DEF SoundGrants
  <2>1. SoundContext(row.ctx)
    BY DEF IInv, SoundGrants
  <2> QED
    BY <1>1, <1>4, <1>5, <2>1, ContextKept
<1>7. SoundRequests'
  BY <1>2, <1>5, RequestsKept
<1> QED
  BY <1>2, <1>3, <1>6, <1>7 DEF IInv

-----------------------------------------------------------------------------
(* Grants.                                                                 *)

LEMMA GrantStep ==
  ASSUME IInv, UNCHANGED <<calendarVars, req>>,
         grant' \in [Grants -> GrantRow \cup {None}],
         \A g \in Grants : grant[g] # None => grant'[g] # None /\ grant'[g].ctx = grant[g].ctx,
         \A g \in Grants : grant[g] = None /\ grant'[g] # None => SoundContext(grant'[g].ctx)
  PROVE  IInv'
<1>1. TypeOK' /\ CalendarsTypeOK /\ Rows' /\ Sealed'
  BY DEF IInv, TypeOK, CalendarsTypeOK, calendarVars, Rows, Sealed
<1>2. high \in Nat /\ Ids \subseteq Nat /\ key \in [Users -> Nat]
  BY <1>1, HighTyped
<1>3. Onward /\ UNCHANGED <<calendar, high, key, reused>>
  BY <1>2 DEF Onward, calendarVars
<1>4. SoundGrants'
  <2> SUFFICES ASSUME NEW g \in Grants, NEW row \in GrantRow, grant'[g] = row
               PROVE  SoundContext(row.ctx)'
    BY DEF SoundGrants
  <2>1. SoundContext(row.ctx)
    <3>1. CASE grant[g] = None
      BY <3>1, NoneIsNothing
    <3>2. CASE grant[g] # None
      <4>1. grant[g] \in GrantRow /\ grant[g].ctx = row.ctx
        BY <3>2 DEF IInv, TypeOK
      <4> QED
        BY <4>1 DEF IInv, SoundGrants
    <3> QED
      BY <3>1, <3>2
  <2> QED
    BY <1>2, <1>3, <2>1, ContextKept
<1>5. SoundRequests'
  BY <1>1, <1>3, RequestsKept
<1> QED
  BY <1>1, <1>4, <1>5 DEF IInv

LEMMA IssueKeeps ==
  ASSUME IInv, NEW g \in Grants, NEW ctx, SoundContext(ctx), Issue(g, ctx)
  PROVE  IInv'
<1>1. /\ grant[g] = None /\ grant' = [grant EXCEPT ![g] = [ctx |-> ctx, live |-> TRUE]]
      /\ UNCHANGED <<calendarVars, req>>
  BY DEF Issue
<1>2. [ctx |-> ctx, live |-> TRUE] \in GrantRow
  BY DEF GrantRow, SoundContext
<1>3. grant \in [Grants -> GrantRow \cup {None}]
  BY DEF IInv, TypeOK
<1>4. grant' \in [Grants -> GrantRow \cup {None}]
  BY <1>1, <1>2, <1>3
<1>5. \A h \in Grants : grant[h] # None => grant'[h] # None /\ grant'[h].ctx = grant[h].ctx
  BY <1>1, <1>3
<1>6. \A h \in Grants : grant[h] = None /\ grant'[h] # None => SoundContext(grant'[h].ctx)
  <2> SUFFICES ASSUME NEW h \in Grants, grant[h] = None, grant'[h] # None
               PROVE  grant'[h] = [ctx |-> ctx, live |-> TRUE]
    OBVIOUS
  <2> QED
    BY <1>1, <1>3
<1> QED
  BY <1>1, <1>4, <1>5, <1>6, GrantStep

(* The calendars an owner ticks.                                           *)
LEMMA TickedScope ==
  ASSUME CalendarsTypeOK, Rows, NEW u \in Users, NEW ids \in SUBSET OwnedIds(u)
  PROVE  /\ ids \in SUBSET Ids /\ TickedIn(ids) \in SUBSET Collections
         /\ \A id \in ids : id <= high /\ calendar[id].coll \in TickedIn(ids)
<1>1. \A id \in ids : id \in Ids /\ calendar[id] # None
  BY DEF OwnedIds, Owns
<1>2. \A id \in ids : calendar[id] \in CalendarRow
  BY <1>1 DEF CalendarsTypeOK
<1>3. \A id \in ids : calendar[id].coll \in Collections
  BY <1>2 DEF CalendarRow
<1> QED
  BY <1>1, <1>3 DEF TickedIn, Rows

LEMMA MintKeeps ==
  ASSUME IInv, NEW g \in Grants, NEW u \in Users,
         MintToken(g, u) \/ MintShare(g, u) \/ MintItemShare(g, u)
  PROVE  IInv'
<1>0. /\ CalendarsTypeOK /\ Rows /\ CollsOf(u) \in SUBSET Collections
      /\ \A k \in SessionKeys(u) : k \in Nat /\ k <= key[u]
  BY NoneIsNothing DEF IInv, TypeOK, CalendarsTypeOK, CollsOf, SessionKeys
<1>1. CASE MintToken(g, u)
  <2>1. PICK rw \in BOOLEAN, ids \in ((SUBSET OwnedIds(u)) \ {{}}) \cup {Ids}, k \in SessionKeys(u) :
          Issue(g, [user |-> u, key |-> k, kind |-> "token", reads |-> ids,
                    writes |-> IF rw THEN ids ELSE {}, uid |-> None,
                    ticked |-> IF ids = Ids THEN CollsOf(u) ELSE TickedIn(ids)])
    BY <1>1 DEF MintToken
  <2> DEFINE ctx == [user |-> u, key |-> k, kind |-> "token", reads |-> ids,
                     writes |-> IF rw THEN ids ELSE {}, uid |-> None,
                     ticked |-> IF ids = Ids THEN CollsOf(u) ELSE TickedIn(ids)]
  <2>2. CASE ids = Ids
    <3>1. ctx \in Context
      BY <1>0, <2>2 DEF Context
    <3>2. Scoped(ctx)
      BY <2>2 DEF Scoped
    <3>3. SoundContext(ctx)
      BY <1>0, <2>2, <3>1, <3>2 DEF SoundContext
    <3> QED
      BY <2>1, <3>3, IssueKeeps
  <2>3. CASE ids # Ids
    <3>1. /\ ids \in SUBSET Ids /\ TickedIn(ids) \in SUBSET Collections
          /\ \A id \in ids : id <= high /\ calendar[id].coll \in TickedIn(ids)
      BY <1>0, <2>3, TickedScope
    <3>2. ctx \in Context
      BY <1>0, <2>3, <3>1 DEF Context
    <3>3. Scoped(ctx)
      BY <2>3, <3>1 DEF Scoped
    <3>4. SoundContext(ctx)
      BY <1>0, <3>2, <3>3 DEF SoundContext
    <3> QED
      BY <2>1, <3>4, IssueKeeps
  <2> QED
    BY <2>2, <2>3
<1>2. CASE MintShare(g, u)
  <2>1. PICK ids \in (SUBSET OwnedIds(u)) \ {{}}, k \in SessionKeys(u) : \E writable \in SUBSET ids :
          Issue(g, [user |-> u, key |-> k, kind |-> "range", reads |-> ids,
                    writes |-> writable, uid |-> None, ticked |-> TickedIn(ids)])
    BY <1>2 DEF MintShare
  <2>2. PICK writable \in SUBSET ids :
          Issue(g, [user |-> u, key |-> k, kind |-> "range", reads |-> ids,
                    writes |-> writable, uid |-> None, ticked |-> TickedIn(ids)])
    BY <2>1
  <2> DEFINE ctx == [user |-> u, key |-> k, kind |-> "range", reads |-> ids,
                     writes |-> writable, uid |-> None, ticked |-> TickedIn(ids)]
  <2>3. /\ ids \in SUBSET Ids /\ TickedIn(ids) \in SUBSET Collections
        /\ \A id \in ids : id <= high /\ calendar[id].coll \in TickedIn(ids)
    BY <1>0, TickedScope
  <2>4. ctx \in Context
    BY <1>0, <2>3 DEF Context
  <2>5. Scoped(ctx)
    BY <2>3 DEF Scoped
  <2>6. SoundContext(ctx)
    BY <1>0, <2>4, <2>5 DEF SoundContext
  <2> QED
    BY <2>2, <2>6, IssueKeeps
<1>3. CASE MintItemShare(g, u)
  <2>1. PICK rw \in BOOLEAN, id \in OwnedIds(u), uid \in Uids, k \in SessionKeys(u) :
          Issue(g, [user |-> u, key |-> k, kind |-> "item", reads |-> {id},
                    writes |-> IF rw THEN {id} ELSE {}, uid |-> uid, ticked |-> TickedIn({id})])
    BY <1>3 DEF MintItemShare
  <2> DEFINE ctx == [user |-> u, key |-> k, kind |-> "item", reads |-> {id},
                     writes |-> IF rw THEN {id} ELSE {}, uid |-> uid, ticked |-> TickedIn({id})]
  <2>2. {id} \in SUBSET OwnedIds(u)
    OBVIOUS
  <2>3. /\ {id} \in SUBSET Ids /\ TickedIn({id}) \in SUBSET Collections
        /\ \A i \in {id} : i <= high /\ calendar[i].coll \in TickedIn({id})
    BY <1>0, <2>2, TickedScope
  <2>4. ctx \in Context
    BY <1>0, <2>3 DEF Context
  <2>5. Scoped(ctx)
    BY <2>3 DEF Scoped
  <2>6. SoundContext(ctx)
    BY <1>0, <2>4, <2>5 DEF SoundContext
  <2> QED
    BY <2>1, <2>6, IssueKeeps
<1> QED
  BY <1>1, <1>2, <1>3

(* Expiry and revocation.                                                  *)
LEMMA LapseKeeps ==
  ASSUME IInv, NEW g \in Grants, Expire(g) \/ Revoke(g)
  PROVE  IInv'
<1>1. /\ grant[g] \in GrantRow /\ grant' = [grant EXCEPT ![g] = [grant[g] EXCEPT !.live = FALSE]]
      /\ UNCHANGED <<calendarVars, req>>
  BY DEF Expire, Revoke, Live, Lapses, IInv, TypeOK
<1>2. [grant[g] EXCEPT !.live = FALSE] \in GrantRow /\ [grant[g] EXCEPT !.live = FALSE].ctx = grant[g].ctx
  BY <1>1 DEF GrantRow
<1>3. grant \in [Grants -> GrantRow \cup {None}]
  BY DEF IInv, TypeOK
<1> DEFINE lapsed == [grant[g] EXCEPT !.live = FALSE]
<1>4. lapsed \in GrantRow /\ lapsed.ctx = grant[g].ctx /\ grant' = [grant EXCEPT ![g] = lapsed]
  BY <1>1, <1>2
<1> HIDE DEF lapsed
<1>5. grant' \in [Grants -> GrantRow \cup {None}]
  BY <1>3, <1>4
<1>6. \A h \in Grants : grant[h] # None => grant'[h] # None /\ grant'[h].ctx = grant[h].ctx
  BY <1>3, <1>4, NoneIsNothing
<1>7. \A h \in Grants : grant[h] = None => grant'[h] = None
  BY <1>1, <1>3, <1>4, NoneIsNothing
<1> QED
  BY <1>1, <1>5, <1>6, <1>7, GrantStep

(* A reset.                                                                *)
LEMMA ResetKeeps ==
  ASSUME IInv, NEW u \in Users, ResetPassword(u)
  PROVE  IInv'
<1> DEFINE ends(g) == Live(g) /\ grant[g].ctx.user = u /\ grant[g].ctx.kind = "token"
<1>0. /\ CalendarsTypeOK /\ grant \in [Grants -> GrantRow \cup {None}] /\ UNCHANGED req
      /\ grant' = [g \in Grants |-> IF ends(g) THEN [grant[g] EXCEPT !.live = FALSE] ELSE grant[g]]
      /\ NewKey(u)
  BY DEF IInv, TypeOK, ResetPassword
<1>1. CalendarsTypeOK'
  BY <1>0, OwningTyped
<1>2. /\ WithoutAccounts({a \in Accounts : Owner[a] = u})
      /\ key' = [key EXCEPT ![u] = key[u] + 1] /\ UNCHANGED <<late, high, reused>>
  BY <1>0 DEF NewKey
<1>3. high \in Nat /\ Ids \subseteq Nat /\ key \in [Users -> Nat] /\ key' \in [Users -> Nat]
  BY <1>0, <1>1, HighTyped DEF CalendarsTypeOK
<1>4. /\ \A id \in Ids : calendar'[id] # None => calendar'[id] = calendar[id]
      /\ \A a \in Accounts : account'[a] # None => Owner[a] # u /\ account'[a] = account[a]
  BY <1>0, <1>2, WithoutTyped
<1>5. \A g \in Grants : ends(g) =>
        [grant[g] EXCEPT !.live = FALSE] \in GrantRow
          /\ [grant[g] EXCEPT !.live = FALSE].ctx = grant[g].ctx /\ grant[g] # None
  <2> SUFFICES ASSUME NEW g \in Grants, ends(g)
               PROVE  /\ [grant[g] EXCEPT !.live = FALSE] \in GrantRow
                      /\ [grant[g] EXCEPT !.live = FALSE].ctx = grant[g].ctx /\ grant[g] # None
    OBVIOUS
  <2>1. grant[g] \in GrantRow /\ grant[g] # None
    BY <1>0 DEF Live
  <2> QED
    BY <2>1 DEF GrantRow
<1>6. /\ grant' \in [Grants -> GrantRow \cup {None}]
      /\ \A g \in Grants : grant[g] # None => grant'[g] # None /\ grant'[g].ctx = grant[g].ctx
      /\ \A g \in Grants : grant'[g] # None => grant[g] # None
  <2> HIDE DEF ends
  <2> QED
    BY <1>0, <1>5, NoneIsNothing
<1>7. TypeOK'
  BY <1>0, <1>1, <1>6 DEF IInv, TypeOK
<1>8. Onward
  BY <1>2, <1>3, <1>6 DEF Onward
<1>9. Rows'
  BY <1>2, <1>4 DEF IInv, Rows
<1>10. Sealed'
  <2> SUFFICES ASSUME NEW a \in Accounts, account'[a] # None 
               PROVE  account'[a] = key'[Owner[a]] \/ a \in late'
    BY DEF Sealed
  <2>1. Owner[a] # u /\ Owner[a] \in Users /\ account'[a] = account[a]
    BY <1>4, NoneIsNothing
  <2> QED
    BY <1>2, <1>3, <2>1 DEF IInv, Sealed
<1>11. SoundGrants'
  <2> SUFFICES ASSUME NEW g \in Grants, NEW row \in GrantRow, grant'[g] = row
               PROVE  SoundContext(row.ctx)'
    BY DEF SoundGrants
  <2>1. grant[g] \in GrantRow /\ grant[g].ctx = row.ctx
    BY <1>0, <1>6, NoneIsNothing
  <2>2. SoundContext(row.ctx)
    BY <2>1 DEF IInv, SoundGrants
  <2>3. \A id \in Ids : \/ calendar'[id] = None
                        \/ calendar[id] # None /\ calendar'[id].coll = calendar[id].coll
                        \/ id \in reused' \/ ~ id <= high
    BY <1>4
  <2> QED
    BY <1>2, <1>3, <1>8, <2>2, <2>3, ContextKept
<1>12. SoundRequests'
  BY <1>0, <1>7, <1>8, RequestsKept
<1> QED
  BY <1>7, <1>9, <1>10, <1>11, <1>12 DEF IInv

-----------------------------------------------------------------------------
(* Requests.                                                               *)

LEMMA RequestStep ==
  ASSUME IInv, NEW r \in Requests, UNCHANGED <<calendarVars, grant>>,
         NEW q, q \in Write \cup Listing \cup {None}, q # None => Sound(q),
         req' = [req EXCEPT ![r] = q]
  PROVE  IInv'
<1>1. TypeOK'
  BY DEF IInv, TypeOK, CalendarsTypeOK, calendarVars
<1>2. Rows' /\ Sealed' /\ SoundGrants'
  BY DEF IInv, calendarVars, Rows, Sealed, SoundGrants, SoundContext, Scoped
<1>3. Onward
  BY HighTyped DEF IInv, TypeOK, Onward, calendarVars
<1>4. SoundRequests'
  <2> SUFFICES ASSUME NEW s \in Requests, NEW p \in Write \cup Listing, req'[s] = p
               PROVE  Sound(p)'
    BY DEF SoundRequests
  <2>1. Sound(p)
    <3>1. CASE s = r
      BY <3>1, NoneIsNothing DEF IInv, TypeOK
    <3>2. CASE s # r
      BY <3>2 DEF IInv, TypeOK, SoundRequests
    <3> QED
      BY <3>1, <3>2
  <2> QED
    BY <1>1, <1>3, <2>1, SoundKept
<1> QED
  BY <1>1, <1>2, <1>4 DEF IInv

LEMMA AnswerKeeps ==
  ASSUME IInv, NEW r \in Requests, Answer(r)
  PROVE  IInv'
BY RequestStep DEF Answer

(* A write that was let in by its scope check.                             *)
LEMMA AskWriteKeeps ==
  ASSUME IInv, NEW r \in Requests, NEW g \in Grants, Live(g),
         NEW op \in {"create", "change", "delete", "move"},
         NEW id \in grant[g].ctx.writes, NEW from \in Ids \cup {None}, NEW uid \in Uids \cup {New},
         op = "move" => from \in grant[g].ctx.writes,
         grant[g].ctx.kind = "item" /\ op # "create" => uid = grant[g].ctx.uid,
         AskWrite(r, g, op, id, from, uid)
  PROVE  IInv'
<1> DEFINE q == [by |-> g, stale |-> Stale(grant[g].ctx), done |-> {},
                 op |-> op, step |-> "target", id |-> id, from |-> from, uid |-> uid,
                 target |-> None, origin |-> None]
<1>1. req' = [req EXCEPT ![r] = q] /\ UNCHANGED <<calendarVars, grant>>
  BY DEF AskWrite, Arrives
<1>2. grant[g] # None /\ Ctx(g) = grant[g].ctx
  BY DelegationAssumption DEF Live, Ctx
<1>3. SoundContext(Ctx(g))
  BY <1>2, ContextSound
<1>4. Ctx(g).user \in Users /\ Ctx(g).key \in Nat /\ Ctx(g).writes \subseteq Ids
  BY <1>3 DEF SoundContext, Context
<1>5. Stale(grant[g].ctx) \in BOOLEAN
  BY DEF Stale
<1>6. q \in Write
  BY <1>2, <1>4, <1>5 DEF Write
<1>7. Stale(grant[g].ctx) => Ctx(g).key < key[Ctx(g).user]
  BY <1>2, <1>3, <1>4, HighTyped DEF Stale, SoundContext, IInv, TypeOK
<1>8. SoundWrite(q, Ctx(g))
  BY <1>2, <1>7 DEF SoundWrite
<1>9. SoundDone(q, Ctx(g))
  BY DEF SoundDone
<1>10. Sound(q)
  BY <1>2, <1>8, <1>9 DEF Sound
<1> HIDE DEF q
<1> QED
  BY <1>1, <1>6, <1>10, RequestStep

LEMMA WritesAsked ==
  ASSUME IInv, NEW r \in Requests, NEW g \in Grants, NEW id \in Ids,
         NEW op \in {"create", "change", "delete", "move"}, NEW from \in Ids \cup {None},
         NEW uid \in Uids \cup {New},
         \/ CreateTool(r, g, id)
         \/ uid \in Uids /\ (UpdateTool(r, g, id, uid) \/ DeleteTool(r, g, id, uid))
         \/ op # "move" /\ JournalTool(r, g, op, id, uid)
         \/ ShareWrite(r, g, op, id, from, uid)
  PROVE  IInv'
<1>1. CASE CreateTool(r, g, id)
  BY <1>1, AskWriteKeeps DEF CreateTool, ResolveToken, TokenMayWrite
<1>2. CASE uid \in Uids /\ UpdateTool(r, g, id, uid)
  BY <1>2, AskWriteKeeps DEF UpdateTool, ResolveToken, TokenMayWrite
<1>3. CASE uid \in Uids /\ DeleteTool(r, g, id, uid)
  BY <1>3, AskWriteKeeps DEF DeleteTool, ResolveToken, TokenMayWrite
<1>4. CASE op # "move" /\ JournalTool(r, g, op, id, uid)
  BY <1>4, AskWriteKeeps DEF JournalTool, ResolveToken, TokenMayWrite
<1>5. CASE ShareWrite(r, g, op, id, from, uid)
  <2>1. /\ Live(g) /\ id \in grant[g].ctx.writes
        /\ from # None => from \in grant[g].ctx.writes
        /\ grant[g].ctx.kind = "item" /\ uid # New => uid = grant[g].ctx.uid
        /\ uid = New <=> op = "create"
        /\ from # None <=> op = "move"
        /\ AskWrite(r, g, op, id, from, uid)
    BY <1>5 DEF ShareWrite, ResolveShare, ShareMayWrite
  <2> QED
    BY <2>1, AskWriteKeeps
<1> QED
  BY <1>1, <1>2, <1>3, <1>4, <1>5

(* A listing of rows that the context of its asker owns, may read and can  *)
(* open; the session that asks for the owner may hold an older key.        *)
LEMMA AskListingKeeps ==
  ASSUME IInv, NEW r \in Requests, NEW by \in Grants \cup Users, by \in Grants => Live(by),
         NEW op \in {"list", "export"}, NEW ctx, SoundContext(ctx),
         ctx.user = Ctx(by).user, ctx.reads = Ctx(by).reads, ctx.ticked = Ctx(by).ticked,
         NEW ids \in SUBSET (OwnedIds(ctx.user) \cap ctx.reads), Opens(ctx, ids),
         AskListing(r, by, ctx, op, ids)
  PROVE  IInv'
<1> DEFINE rows == [id \in Ids |-> IF id \in ids THEN calendar[id].coll ELSE None]
<1> DEFINE stale == Stale(ctx)
<1> DEFINE q == [by |-> by, stale |-> stale, done |-> {}, op |-> op,
                 step |-> "fetch", asked |-> ids, rows |-> rows]
<1>1. req' = [req EXCEPT ![r] = q] /\ UNCHANGED <<calendarVars, grant>>
  BY DEF AskListing, Arrives
<1>2. by \in Grants => grant[by] # None
  BY DEF Live
<1>3. CalendarsTypeOK /\ Rows /\ Sealed
  BY DEF IInv, TypeOK
<1>4. \A id \in ids : id \in Ids /\ Owns(ctx.user, id) /\ id \in ctx.reads
  BY DEF OwnedIds
<1>5. \A id \in ids : calendar[id] \in CalendarRow /\ calendar[id].coll \in Collections
  <2>1. \A id \in ids : calendar[id] \in CalendarRow
    BY <1>3, <1>4 DEF CalendarsTypeOK, Owns
  <2> QED
    BY <2>1 DEF CalendarRow
<1>6. stale \in BOOLEAN /\ (stale => ctx.key # key[ctx.user])
  BY DEF Stale
<1> HIDE DEF stale
<1>7. \A id \in ids : Names(stale, Ctx(by), id, calendar[id].coll)
  <2> SUFFICES ASSUME NEW id \in ids PROVE Names(stale, Ctx(by), id, calendar[id].coll)
    OBVIOUS
  <2>1. Names(stale, ctx, id, calendar[id].coll)
    BY <1>3, <1>4, <1>6, OwnedNamed DEF Opens
  <2> QED
    BY <2>1 DEF Names
<1>8. rows \in [Ids -> Collections \cup {None}] /\ \A id \in Ids : rows[id] # None <=> id \in ids
  BY <1>5, NoneIsNothing
<1>9. \A id \in Ids : rows[id] # None => rows[id] = calendar[id].coll
  BY <1>8
<1> HIDE DEF rows
<1>10. q \in Listing
  BY <1>4, <1>6, <1>8 DEF Listing
<1>11. SoundListing(q, Ctx(by))
  <2>1. {t.id : t \in {}} \cup {id \in Ids : rows[id] # None} = ids
    BY <1>4, <1>8
  <2> QED
    BY <1>4, <1>7, <1>8, <1>9, <2>1 DEF SoundListing
<1>12. SoundDone(q, Ctx(by))
  BY DEF SoundDone
<1>13. Sound(q)
  BY <1>2, <1>11, <1>12 DEF Sound
<1> HIDE DEF q
<1> QED
  BY <1>1, <1>10, <1>13, RequestStep

LEMMA OwnerAsks ==
  ASSUME IInv, NEW r \in Requests, NEW u \in Users, NEW k \in SessionKeys(u),
         OwnerData(r, u, k) \/ OwnerExport(r, u, k)
  PROVE  IInv'
<1> DEFINE ctx == OwnerContext(u, k)
<1>1. /\ u \notin Grants /\ ctx.user = u /\ ctx.reads = Ids
      /\ ctx.user = Ctx(u).user /\ ctx.reads = Ctx(u).reads /\ ctx.ticked = Ctx(u).ticked
  BY DelegationAssumption DEF Ctx, OwnerContext
<1>2. SoundContext(ctx)
  BY OwnerSound DEF IInv, TypeOK
<1>3. CASE OwnerData(r, u, k)
  <2>1. Opens(ctx, Enabled(OwnedIds(u))) /\ AskListing(r, u, ctx, "list", Enabled(OwnedIds(u)))
    BY <1>3 DEF OwnerData
  <2>2. Enabled(OwnedIds(u)) \in SUBSET (OwnedIds(ctx.user) \cap ctx.reads)
    BY <1>1 DEF Enabled, OwnedIds
  <2> HIDE DEF ctx
  <2> QED
    BY <1>1, <1>2, <2>1, <2>2, AskListingKeeps
<1>4. CASE OwnerExport(r, u, k)
  <2>1. PICK ids \in (SUBSET OwnedIds(u)) \ {{}} :
          Opens(ctx, ids) /\ AskListing(r, u, ctx, "export", ids)
    BY <1>4 DEF OwnerExport
  <2>2. ids \in SUBSET (OwnedIds(ctx.user) \cap ctx.reads)
    BY <1>1 DEF OwnedIds
  <2> HIDE DEF ctx
  <2> QED
    BY <1>1, <1>2, <2>1, <2>2, AskListingKeeps
<1> QED
  BY <1>3, <1>4

(* The context of a grant that is live.                                    *)
LEMMA LiveContext ==
  ASSUME IInv, NEW g \in Grants, Live(g)
  PROVE  Ctx(g) = grant[g].ctx /\ SoundContext(grant[g].ctx)
<1>1. Ctx(g) = grant[g].ctx
  BY DelegationAssumption DEF Ctx
<1> QED
  BY <1>1, ContextSound DEF Live

LEMMA GrantLists ==
  ASSUME IInv, NEW r \in Requests, NEW g \in Grants,
         ListTool(r, g) \/ ShareItems(r, g) \/ ShareExport(r, g)
  PROVE  IInv'
<1>1. CASE ListTool(r, g)
  <2>1. PICK wanted \in SUBSET (Enabled(OwnedIds(grant[g].ctx.user)) \cap grant[g].ctx.reads) :
          Opens(grant[g].ctx, wanted) /\ AskListing(r, g, grant[g].ctx, "list", wanted)
    BY <1>1 DEF ListTool
  <2>2. Live(g) /\ wanted \in SUBSET (OwnedIds(grant[g].ctx.user) \cap grant[g].ctx.reads)
    BY <1>1 DEF ListTool, ResolveToken, Enabled
  <2> QED
    BY <2>1, <2>2, LiveContext, AskListingKeeps
<1>2. CASE ShareItems(r, g)
  BY <1>2, LiveContext, AskListingKeeps DEF ShareItems, ResolveShare, ReadableCalendars
<1>3. CASE ShareExport(r, g)
  BY <1>3, LiveContext, AskListingKeeps DEF ShareExport, ResolveShare, ReadableCalendars
<1> QED
  BY <1>1, <1>2, <1>3

LEMMA GrantReads ==
  ASSUME IInv, NEW r \in Requests, NEW g \in Grants, NEW id \in Ids, DetailsTool(r, g, id)
  PROVE  IInv'
<1>1. Live(g) /\ {id} \in SUBSET (OwnedIds(grant[g].ctx.user) \cap grant[g].ctx.reads)
  BY DEF DetailsTool, ResolveToken, OwnedIds
<1> QED
  BY <1>1, LiveContext, AskListingKeeps DEF DetailsTool

LEMMA AskingKeeps ==
  ASSUME IInv, NEW r \in Requests, Asking(r)
  PROVE  IInv'
<1>1. ASSUME NEW g \in Grants, NEW id \in Ids, CreateTool(r, g, id) PROVE IInv'
  BY <1>1, AskWriteKeeps DEF CreateTool, ResolveToken, TokenMayWrite
<1>2. ASSUME NEW g \in Grants, NEW id \in Ids, NEW uid \in Uids,
             UpdateTool(r, g, id, uid) \/ DeleteTool(r, g, id, uid)
      PROVE  IInv'
  BY <1>2, WritesAsked
<1>3. ASSUME NEW g \in Grants, NEW id \in Ids, NEW op \in {"create", "change", "delete"},
             NEW uid \in Uids \cup {New}, JournalTool(r, g, op, id, uid)
      PROVE  IInv'
  BY <1>3, WritesAsked
<1>4. ASSUME NEW g \in Grants, NEW id \in Ids, NEW op \in {"create", "change", "delete", "move"},
             NEW from \in Ids \cup {None}, NEW uid \in Uids \cup {New},
             ShareWrite(r, g, op, id, from, uid)
      PROVE  IInv'
  BY <1>4, WritesAsked
<1> QED
  BY <1>1, <1>2, <1>3, <1>4, OwnerAsks, GrantLists, GrantReads DEF Asking

-----------------------------------------------------------------------------
(* Serving a write.                                                        *)

(* A write between its arrival and its answer, and its context.            *)
LEMMA WriteUnderWay ==
  ASSUME IInv, NEW r \in Requests, req[r] # None, req[r].step \in {"target", "origin", "call", "drop"}
  PROVE  /\ req[r] \in Write /\ Sound(req[r]) /\ SoundWrite(req[r], Ctx(req[r].by))
         /\ SoundDone(req[r], Ctx(req[r].by)) /\ SoundContext(Ctx(req[r].by))
         /\ req[r].op \in {"create", "change", "delete", "move"}
<1>1. req[r] \in Write
  BY RequestTyped DEF IInv, Write, Listing
<1>2. Sound(req[r])
  BY <1>1 DEF IInv, SoundRequests
<1>3. req[r].op \in {"create", "change", "delete", "move"} /\ req[r].by \in Grants
  BY <1>1 DEF Write
<1>4. SoundContext(Ctx(req[r].by))
  BY <1>2, <1>3, ContextSound DEF Sound
<1> QED
  BY <1>1, <1>2, <1>3, <1>4 DEF Sound

(* The row that is found is one the context may write.                     *)
LEMMA FoundNamed ==
  ASSUME IInv, NEW ctx, SoundContext(ctx), NEW id \in ctx.writes, Found(ctx, id),
         NEW stale, stale => ctx.key < key[ctx.user]
  PROVE  Names(stale, ctx, id, calendar[id].coll) /\ calendar[id].coll \in Collections
<1>1. id \in ctx.reads /\ id \in Ids /\ ctx.user \in Users /\ ctx.key \in Nat
  BY DEF SoundContext, Context
<1>2. Owns(ctx.user, id) /\ account[calendar[id].account] = ctx.key
  BY DEF Found
<1>3. CalendarsTypeOK /\ Rows /\ Sealed
  BY DEF IInv, TypeOK
<1>4. calendar[id] \in CalendarRow
  BY <1>1, <1>2, <1>3 DEF CalendarsTypeOK, Owns
<1>5. stale => ctx.key # key[ctx.user]
  BY <1>1, <1>3, HighTyped
<1> QED
  BY <1>1, <1>2, <1>3, <1>4, <1>5, OwnedNamed DEF CalendarRow

LEMMA LocateKeeps ==
  ASSUME IInv, NEW r \in Requests, Locate(r)
  PROVE  IInv'
<1> DEFINE p == req[r]
           ctx == Ctx(p.by)
           step == IF p.op = "move" THEN "origin" ELSE "call"
           q == [p EXCEPT !.target = calendar[p.id].coll, !.step = step]
<1>1. /\ p # None /\ p.step = "target"
      /\ p \in Write /\ Sound(p) /\ SoundWrite(p, ctx) /\ SoundDone(p, ctx) /\ SoundContext(ctx)
      /\ p.op \in {"create", "change", "delete", "move"}
  BY WriteUnderWay DEF Locate
<1>2. CASE Found(ctx, p.id)
  <2>1. req' = [req EXCEPT ![r] = q] /\ UNCHANGED <<calendarVars, grant>>
    BY <1>2 DEF Locate, Goes
  <2>2. p.id \in ctx.writes
    BY <1>1 DEF SoundWrite
  <2>3. Names(p.stale, ctx, p.id, calendar[p.id].coll) /\ calendar[p.id].coll \in Collections
    <3>1. p.stale => ctx.key < key[ctx.user]
      BY <1>1 DEF SoundWrite
    <3> QED
      BY <1>1, <1>2, <2>2, <3>1, FoundNamed
  <2>4. /\ q \in Write
        /\ q.by = p.by /\ q.op = p.op /\ q.id = p.id /\ q.from = p.from /\ q.uid = p.uid
        /\ q.done = p.done /\ q.stale = p.stale
        /\ q.target = calendar[p.id].coll /\ q.step = step
    BY <1>1, <2>3 DEF Write
  <2> HIDE DEF q, p
  <2>5. SoundWrite(q, ctx) /\ SoundDone(q, ctx)
    BY <1>1, <2>3, <2>4 DEF SoundWrite, SoundDone
  <2>6. Sound(q)
    BY <1>1, <2>4, <2>5 DEF Sound
  <2> QED
    BY <2>1, <2>4, <2>6, RequestStep
<1>3. CASE ~ Found(ctx, p.id)
  BY <1>3, AnswerKeeps DEF Locate
<1> QED
  BY <1>2, <1>3

LEMMA LocateOriginKeeps ==
  ASSUME IInv, NEW r \in Requests, LocateOrigin(r)
  PROVE  IInv'
<1> DEFINE p == req[r]
           ctx == Ctx(p.by)
           q == [p EXCEPT !.origin = calendar[p.from].coll, !.step = "call"]
<1>1. /\ p # None /\ p.step = "origin"
      /\ p \in Write /\ Sound(p) /\ SoundWrite(p, ctx) /\ SoundDone(p, ctx) /\ SoundContext(ctx)
      /\ p.op = "move"
  BY WriteUnderWay DEF LocateOrigin, SoundWrite
<1>2. CASE Found(ctx, p.from)
  <2>1. req' = [req EXCEPT ![r] = q] /\ UNCHANGED <<calendarVars, grant>>
    BY <1>2 DEF LocateOrigin, Goes
  <2>2. p.from \in ctx.writes
    BY <1>1 DEF SoundWrite
  <2>3. Names(p.stale, ctx, p.from, calendar[p.from].coll) /\ calendar[p.from].coll \in Collections
    <3>1. p.stale => ctx.key < key[ctx.user]
      BY <1>1 DEF SoundWrite
    <3> QED
      BY <1>1, <1>2, <2>2, <3>1, FoundNamed
  <2>4. /\ q \in Write
        /\ q.by = p.by /\ q.op = p.op /\ q.id = p.id /\ q.from = p.from /\ q.uid = p.uid
        /\ q.done = p.done /\ q.stale = p.stale /\ q.target = p.target
        /\ q.origin = calendar[p.from].coll /\ q.step = "call"
    BY <1>1, <2>3 DEF Write
  <2> HIDE DEF q, p
  <2>5. SoundWrite(q, ctx) /\ SoundDone(q, ctx)
    BY <1>1, <2>3, <2>4 DEF SoundWrite, SoundDone
  <2>6. Sound(q)
    BY <1>1, <2>4, <2>5 DEF Sound
  <2> QED
    BY <2>1, <2>4, <2>6, RequestStep
<1>3. CASE ~ Found(ctx, p.from)
  BY <1>3, AnswerKeeps DEF LocateOrigin
<1> QED
  BY <1>2, <1>3

(* A calendar an id names is one of the collections.                       *)
LEMMA NamedTyped ==
  ASSUME NEW stale, NEW ctx, NEW id, NEW coll, Names(stale, ctx, id, coll)
  PROVE  coll \in Collections
BY NoneIsNothing DEF Names, CollsOf

LEMMA CallKeeps ==
  ASSUME IInv, NEW r \in Requests, Call(r)
  PROVE  IInv'
<1> DEFINE p == req[r]
           ctx == Ctx(p.by)
           what == IF p.op = "move" THEN "create" ELSE p.op
           t == [id |-> p.id, coll |-> p.target, what |-> what, uid |-> p.uid]
           step == IF p.op = "move" THEN "drop" ELSE "call"
           q == [p EXCEPT !.done = {t}, !.step = step]
<1>1. /\ p # None /\ p.step = "call"
      /\ p \in Write /\ Sound(p) /\ SoundWrite(p, ctx) /\ SoundContext(ctx)
      /\ p.op \in {"create", "change", "delete", "move"}
  BY WriteUnderWay DEF Call
<1>2. req' = [req EXCEPT ![r] = q] /\ UNCHANGED <<calendarVars, grant>>
  BY DEF Call, Goes, Did
<1>3. /\ Names(p.stale, ctx, p.id, p.target) /\ p.target \in Collections
      /\ p.id \in ctx.writes
  BY <1>1, NamedTyped DEF SoundWrite, Write
<1>4. t \in Trace
  BY <1>1, <1>3 DEF Trace, Write
<1>5. /\ q \in Write
      /\ q.by = p.by /\ q.op = p.op /\ q.id = p.id /\ q.from = p.from /\ q.uid = p.uid
      /\ q.stale = p.stale /\ q.target = p.target /\ q.origin = p.origin
      /\ q.done = {t} /\ q.step = step
  BY <1>1, <1>4 DEF Write
<1>6. ctx.kind = "item" /\ what \in {"change", "delete"} => p.uid = ctx.uid
  BY <1>1 DEF SoundWrite
<1>7. what # "read"
  BY <1>1
<1>8. SoundDone(q, ctx)
  <2> SUFFICES ASSUME NEW x \in {t}
               PROVE  /\ Names(p.stale, ctx, x.id, x.coll)
                      /\ x.what = "read" => x.id \in ctx.reads
                      /\ x.what # "read" => x.id \in ctx.writes
                      /\ ctx.kind = "item" /\ x.what \in {"change", "delete"} => x.uid = ctx.uid
    BY <1>5 DEF SoundDone
  <2>1. x.id = p.id /\ x.coll = p.target /\ x.what = what /\ x.uid = p.uid
    OBVIOUS
  <2> HIDE DEF p, t, what
  <2> QED
    BY <1>3, <1>6, <1>7, <2>1
<1> HIDE DEF q, p
<1>9. SoundWrite(q, ctx)
  BY <1>1, <1>3, <1>5 DEF SoundWrite
<1>10. Sound(q)
  BY <1>1, <1>5, <1>8, <1>9 DEF Sound
<1> QED
  BY <1>2, <1>5, <1>10, RequestStep

LEMMA DropKeeps ==
  ASSUME IInv, NEW r \in Requests, Drop(r)
  PROVE  IInv'
<1> DEFINE p == req[r]
           ctx == Ctx(p.by)
           t == [id |-> p.from, coll |-> p.origin, what |-> "delete", uid |-> p.uid]
           q == [p EXCEPT !.done = p.done \cup {t}, !.step = "call"]
<1>1. /\ p # None /\ p.step = "drop"
      /\ p \in Write /\ Sound(p) /\ SoundWrite(p, ctx) /\ SoundDone(p, ctx) /\ SoundContext(ctx)
      /\ p.op = "move"
  BY WriteUnderWay DEF Drop, SoundWrite
<1>2. req' = [req EXCEPT ![r] = q] /\ UNCHANGED <<calendarVars, grant>>
  BY DEF Drop, Goes
<1>3. /\ Names(p.stale, ctx, p.from, p.origin) /\ p.origin \in Collections
      /\ p.from \in ctx.writes /\ p.from \in Ids
      /\ ctx.kind = "item" => p.uid = ctx.uid
  BY <1>1, NamedTyped DEF SoundWrite, SoundContext, Context
<1>4. t \in Trace
  BY <1>1, <1>3 DEF Trace, Write
<1>5. /\ q \in Write
      /\ q.by = p.by /\ q.op = p.op /\ q.id = p.id /\ q.from = p.from /\ q.uid = p.uid
      /\ q.stale = p.stale /\ q.target = p.target /\ q.origin = p.origin
      /\ q.done = p.done \cup {t} /\ q.step = "call"
  BY <1>1, <1>4 DEF Write
<1>6. SoundDone(q, ctx)
  <2> SUFFICES ASSUME NEW x \in p.done \cup {t}
               PROVE  /\ Names(p.stale, ctx, x.id, x.coll)
                      /\ x.what = "read" => x.id \in ctx.reads
                      /\ x.what # "read" => x.id \in ctx.writes
                      /\ ctx.kind = "item" /\ x.what \in {"change", "delete"} => x.uid = ctx.uid
    BY <1>5 DEF SoundDone
  <2>1. CASE x \in p.done
    BY <1>1, <2>1 DEF SoundDone
  <2>2. CASE x = t
    <3>1. x.id = p.from /\ x.coll = p.origin /\ x.what = "delete" /\ x.uid = p.uid
      BY <2>2
    <3> HIDE DEF p, t
    <3> QED
      BY <1>3, <3>1
  <2> QED
    BY <2>1, <2>2
<1> HIDE DEF q, p
<1>7. SoundWrite(q, ctx)
  BY <1>1, <1>3, <1>5 DEF SoundWrite
<1>8. Sound(q)
  BY <1>1, <1>5, <1>6, <1>7 DEF Sound
<1> QED
  BY <1>2, <1>5, <1>8, RequestStep

-----------------------------------------------------------------------------
(* Serving a listing.                                                      *)

LEMMA ListingUnderWay ==
  ASSUME IInv, NEW r \in Requests, req[r] # None, req[r].step \in {"fetch", "answered"}
  PROVE  /\ req[r] \in Listing /\ Sound(req[r]) /\ SoundListing(req[r], Ctx(req[r].by))
         /\ SoundDone(req[r], Ctx(req[r].by)) /\ SoundContext(Ctx(req[r].by))
         /\ req[r].op \in {"list", "export"}
<1>1. req[r] \in Listing
  BY RequestTyped DEF IInv, Write, Listing
<1>2. Sound(req[r])
  BY <1>1 DEF IInv, SoundRequests
<1>3. req[r].op \in {"list", "export"} /\ req[r].by \in Grants \cup Users
  BY <1>1 DEF Listing
<1>4. SoundContext(Ctx(req[r].by))
  BY <1>2, <1>3, ContextSound DEF Sound
<1> QED
  BY <1>1, <1>2, <1>3, <1>4 DEF Sound

LEMMA FetchKeeps ==
  ASSUME IInv, NEW r \in Requests, NEW id \in Ids, Fetch(r, id)
  PROVE  IInv'
<1> DEFINE p == req[r]
           ctx == Ctx(p.by)
           t == [id |-> id, coll |-> p.rows[id], what |-> "read", uid |-> ctx.uid]
           rows == [p.rows EXCEPT ![id] = None]
           q == [p EXCEPT !.rows = rows, !.done = p.done \cup {t}]
<1>1. /\ p # None /\ p.step = "fetch" /\ p.rows[id] # None
      /\ p \in Listing /\ Sound(p) /\ SoundListing(p, ctx) /\ SoundDone(p, ctx) /\ SoundContext(ctx)
      /\ p.op \in {"list", "export"}
  BY ListingUnderWay DEF Fetch, Left
<1>2. req' = [req EXCEPT ![r] = q] /\ UNCHANGED <<calendarVars, grant>>
  BY DEF Fetch, Goes
<1>3. p.rows \in [Ids -> Collections \cup {None}] /\ p.rows[id] \in Collections
      /\ p.done \in SUBSET Trace /\ p.asked \in SUBSET Ids
  BY <1>1 DEF Listing
<1>4. Names(p.stale, ctx, id, p.rows[id]) /\ id \in ctx.reads
  BY <1>1 DEF SoundListing
<1>5. t \in Trace
  BY <1>1, <1>3 DEF Trace, SoundContext, Context
<1>6. /\ rows \in [Ids -> Collections \cup {None}] /\ rows[id] = None
      /\ \A i \in Ids \ {id} : rows[i] = p.rows[i]
  BY <1>3
<1> HIDE DEF rows
<1>7. /\ q \in Listing
      /\ q.by = p.by /\ q.op = p.op /\ q.stale = p.stale /\ q.asked = p.asked /\ q.step = "fetch"
      /\ q.rows = rows /\ q.done = p.done \cup {t}
  BY <1>1, <1>5, <1>6 DEF Listing
<1>8. SoundDone(q, ctx)
  <2> SUFFICES ASSUME NEW x \in p.done \cup {t}
               PROVE  /\ Names(p.stale, ctx, x.id, x.coll)
                      /\ x.what = "read" => x.id \in ctx.reads
                      /\ x.what # "read" => x.id \in ctx.writes
                      /\ ctx.kind = "item" /\ x.what \in {"change", "delete"} => x.uid = ctx.uid
    BY <1>7 DEF SoundDone
  <2>1. CASE x \in p.done
    BY <1>1, <2>1 DEF SoundDone
  <2>2. CASE x = t
    <3>1. x.id = id /\ x.coll = p.rows[id] /\ x.what = "read"
      BY <2>2
    <3> HIDE DEF p, t
    <3> QED
      BY <1>4, <3>1
  <2> QED
    BY <2>1, <2>2
<1>9. t.id = id
  OBVIOUS
<1> HIDE DEF q, p, t
<1>10. q.op = "export" => {x.id : x \in q.done} \cup {i \in Ids : q.rows[i] # None} = q.asked
  <2> SUFFICES ASSUME p.op = "export"
               PROVE  {x.id : x \in p.done \cup {t}} \cup {i \in Ids : rows[i] # None} = p.asked
    BY <1>7
  <2>1. {x.id : x \in p.done} \cup {i \in Ids : p.rows[i] # None} = p.asked
    BY <1>1 DEF SoundListing
  <2>2. {x.id : x \in p.done \cup {t}} = {x.id : x \in p.done} \cup {id}
    BY <1>9
  <2>3. {i \in Ids : rows[i] # None} = {i \in Ids : p.rows[i] # None} \ {id}
    BY <1>6
  <2>4. id \in {i \in Ids : p.rows[i] # None}
    BY <1>1
  <2> QED
    BY <2>1, <2>2, <2>3, <2>4
<1>11. SoundListing(q, ctx)
  BY <1>1, <1>4, <1>6, <1>7, <1>10 DEF SoundListing
<1>12. Sound(q)
  BY <1>1, <1>7, <1>8, <1>11 DEF Sound
<1> QED
  BY <1>2, <1>7, <1>12, RequestStep

LEMMA FetchFailsKeeps ==
  ASSUME IInv, NEW r \in Requests, NEW id \in Ids, FetchFails(r, id)
  PROVE  IInv'
<1> DEFINE p == req[r]
           ctx == Ctx(p.by)
           rows == [p.rows EXCEPT ![id] = None]
           q == [p EXCEPT !.rows = rows]
<1>1. /\ p # None /\ p.step = "fetch"
      /\ p \in Listing /\ Sound(p) /\ SoundListing(p, ctx) /\ SoundDone(p, ctx)
      /\ p.op \in {"list", "export"}
  BY ListingUnderWay DEF FetchFails
<1>2. CASE p.op = "list"
  <2>1. req' = [req EXCEPT ![r] = q] /\ UNCHANGED <<calendarVars, grant>>
    BY <1>2 DEF FetchFails, Goes
  <2>2. p.rows \in [Ids -> Collections \cup {None}]
    BY <1>1 DEF Listing
  <2>3. /\ rows \in [Ids -> Collections \cup {None}] /\ rows[id] = None
        /\ \A i \in Ids \ {id} : rows[i] = p.rows[i]
    BY <2>2
  <2> HIDE DEF rows
  <2>4. /\ q \in Listing
        /\ q.by = p.by /\ q.op = p.op /\ q.stale = p.stale /\ q.asked = p.asked
        /\ q.step = "fetch" /\ q.rows = rows /\ q.done = p.done
    BY <1>1, <2>3 DEF Listing
  <2> HIDE DEF q, p
  <2>5. SoundDone(q, ctx) /\ SoundListing(q, ctx)
    BY <1>1, <1>2, <2>3, <2>4 DEF SoundDone, SoundListing
  <2>6. Sound(q)
    BY <1>1, <2>4, <2>5 DEF Sound
  <2> QED
    BY <2>1, <2>4, <2>6, RequestStep
<1>3. CASE p.op # "list"
  BY <1>3, AnswerKeeps DEF FetchFails
<1> QED
  BY <1>2, <1>3

LEMMA ListingAnswersKeeps ==
  ASSUME IInv, NEW r \in Requests, ListingAnswers(r)
  PROVE  IInv'
<1> DEFINE p == req[r]
           ctx == Ctx(p.by)
           q == [p EXCEPT !.step = "answered"]
<1>1. /\ p # None /\ p.step = "fetch" /\ \A id \in Ids : p.rows[id] = None
      /\ p \in Listing /\ Sound(p) /\ SoundListing(p, ctx) /\ SoundDone(p, ctx)
      /\ p.op \in {"list", "export"}
  BY ListingUnderWay DEF ListingAnswers, Left
<1>2. req' = [req EXCEPT ![r] = q] /\ UNCHANGED <<calendarVars, grant>>
  BY DEF ListingAnswers, Goes
<1>3. /\ q \in Listing
      /\ q.by = p.by /\ q.op = p.op /\ q.stale = p.stale /\ q.asked = p.asked
      /\ q.step = "answered" /\ q.rows = p.rows /\ q.done = p.done
  BY <1>1 DEF Listing
<1> HIDE DEF q, p
<1>4. SoundDone(q, ctx) /\ SoundListing(q, ctx)
  BY <1>1, <1>3 DEF SoundDone, SoundListing
<1>5. Sound(q)
  BY <1>1, <1>3, <1>4 DEF Sound
<1> QED
  BY <1>2, <1>3, <1>5, RequestStep

-----------------------------------------------------------------------------
(* The theorems.                                                           *)

LEMMA AnsweringKeeps ==
  ASSUME IInv, NEW r \in Requests, Answering(r)
  PROVE  IInv'
BY LocateKeeps, LocateOriginKeeps, CallKeeps, DropKeeps, AnswerKeeps, FetchKeeps,
   FetchFailsKeeps, ListingAnswersKeeps DEF Answering, WriteEnds, ListingEnds

LEMMA StepIInv == IInv /\ [Next]_vars => IInv'
<1> SUFFICES ASSUME IInv, [Next]_vars PROVE IInv'
  OBVIOUS
<1>1. CASE (Owning \/ Patching) /\ UNCHANGED <<grant, req>>
  BY <1>1, OwningKeeps, PatchingKeeps
<1>2. CASE Granting
  BY <1>2, MintKeeps, LapseKeeps, ResetKeeps DEF Granting
<1>3. CASE \E r \in Requests : Asking(r) \/ Answering(r)
  BY <1>3, AskingKeeps, AnsweringKeeps
<1>4. CASE UNCHANGED vars
  <2>1. /\ UNCHANGED <<calendarVars, req>> /\ UNCHANGED grant
    BY <1>4 DEF vars
  <2>2. grant' \in [Grants -> GrantRow \cup {None}]
    BY <2>1 DEF IInv, TypeOK
  <2> QED
    BY <2>1, <2>2, GrantStep
<1> QED
  BY <1>1, <1>2, <1>3, <1>4 DEF Next

LEMMA AlwaysIInv == Spec => []IInv
<1>1. Init => IInv
  BY InitIInv
<1>2. IInv /\ [Next]_vars => IInv'
  BY StepIInv
<1> QED
  BY <1>1, <1>2, PTL DEF Spec

(* A request under way, by its kind.                                       *)
LEMMA SoundNow ==
  ASSUME IInv, NEW r \in Requests, req[r] # None
  PROVE  /\ SoundDone(req[r], Ctx(req[r].by))
         /\ req[r].op \notin {"list", "export"} => SoundWrite(req[r], Ctx(req[r].by))
         /\ req[r].op \in {"list", "export"} => SoundListing(req[r], Ctx(req[r].by))
BY DEF IInv, TypeOK, SoundRequests, Sound

(* Rows, grants and requests keep their shape: what a request writes to is *)
(* a calendar, and what a grant names are ids of the table (models.py,     *)
(* shares.py, tokens.py).                                                  *)
THEOREM DelegationTypes == Spec => []TypeOK
<1>1. IInv => TypeOK
  BY DEF IInv
<1> QED
  BY <1>1, AlwaysIInv, PTL

(* No token, share or session ever reaches a calendar of another user      *)
(* (_calendar_for in events.py, and the joins on the account's user).      *)
THEOREM OnlyOwnCalendars == Spec => []OnlyOwn
<1>1. IInv => OnlyOwn
  BY SoundNow DEF OnlyOwn, SoundDone, Names
<1> QED
  BY <1>1, AlwaysIInv, PTL

(* What a grant's request does stays within what was ticked for it, up to  *)
(* ids that came back (shares.py, tokens.py, _authorize_write).            *)
THEOREM ScopesHold == Spec => []WithinScope
<1>1. IInv => WithinScope
  BY SoundNow DEF WithinScope, SoundDone, Names
<1> QED
  BY <1>1, AlwaysIInv, PTL

(* With a key that a reset replaced, a share, a token or a session reaches *)
(* calendars of accounts only that were themselves connected with a        *)
(* replaced key, by a session that outlived the reset - none that was      *)
(* stored before it, none that is stored with the new key (admin.py,       *)
(* caldav_accounts.py).                                                    *)
THEOREM OldKeysReachLateOnly == Spec => []SurvivorsReachLateOnly
<1>1. IInv => SurvivorsReachLateOnly
  BY SoundNow DEF SurvivorsReachLateOnly, SoundDone, Names
<1> QED
  BY <1>1, AlwaysIInv, PTL

(* An export has every calendar it was asked for, or is an error           *)
(* (export_range_ics in caldav_client.py).                                 *)
THEOREM ExportsComplete == Spec => []ExportComplete
<1>1. IInv => ExportComplete
  <2> SUFFICES ASSUME IInv, NEW r \in Requests, req[r] # None,
                      req[r].op = "export", req[r].step = "answered"
               PROVE  {t.id : t \in req[r].done} = req[r].asked
    BY DEF ExportComplete, Shown
  <2>1. SoundListing(req[r], Ctx(req[r].by))
    BY SoundNow
  <2>2. {id \in Ids : req[r].rows[id] # None} = {}
    BY <2>1 DEF SoundListing
  <2> QED
    BY <2>1, <2>2 DEF SoundListing
<1> QED
  BY <1>1, AlwaysIInv, PTL
-----------------------------------------------------------------------------
(* The mark of the default calendar.                                       *)

(* Of a user nothing has raced for: one patch at a time sets a default,    *)
(* the defaults there are when it commits are its own calendar or among    *)
(* those it is going to clear, and there is never a second one.            *)
OneSetter ==
  \A p, q \in Patches :
    Sets(p) /\ Sets(q) /\ patch[p].user = patch[q].user /\ patch[p].user \notin raced => p = q

SettersClear ==
  \A p \in Patches, u \in Users \ raced : Sets(p) /\ patch[p].user = u =>
    Defaults(u) \subseteq patch[p].others \cup {patch[p].id}

SoleDefault == \A u \in Users \ raced : \A i, j \in Defaults(u) : i = j

DefaultsInv == CalendarsTypeOK /\ OneSetter /\ SettersClear /\ SoleDefault

(* A step that gives no user a default and leaves the patches alone.       *)
LEMMA FewerDefaults ==
  ASSUME DefaultsInv, UNCHANGED <<patch, raced>>, CalendarsTypeOK',
         \A u \in Users : Defaults(u)' \subseteq Defaults(u)
  PROVE  DefaultsInv'
<1>1. \A p \in Patches : Sets(p)' <=> Sets(p)
  BY DEF Sets
<1>2. OneSetter'
  BY <1>1 DEF DefaultsInv, OneSetter
<1>3. SettersClear'
  BY <1>1 DEF DefaultsInv, SettersClear
<1>4. SoleDefault'
  BY DEF DefaultsInv, SoleDefault
<1> QED
  BY <1>2, <1>3, <1>4 DEF DefaultsInv

LEMMA OwningFewer ==
  ASSUME DefaultsInv, Owning \/ \E u \in Users : NewKey(u)
  PROVE  DefaultsInv'
<1>1. CalendarsTypeOK'
  BY OwningTyped DEF DefaultsInv
<1>2. ASSUME \A id \in Ids : calendar'[id] # None /\ calendar'[id].default =>
               /\ calendar[id] # None /\ calendar[id].default
               /\ calendar'[id].account = calendar[id].account,
             UNCHANGED <<patch, raced>>
      PROVE  DefaultsInv'
  <2>1. \A u \in Users : Defaults(u)' \subseteq Defaults(u)
    BY <1>2 DEF Defaults, OwnedIds, Owns
  <2> QED
    BY <1>1, <1>2, <2>1, FewerDefaults
<1>3. ASSUME NEW a \in Accounts, NEW k \in SessionKeys(Owner[a]), Connect(a, k)
      PROVE  DefaultsInv'
  <2>1. CalendarsTypeOK
    BY DEF DefaultsInv
  <2>2. PICK ids \in SUBSET Ids : \E found \in [ids -> Holds[a]] :
          Listed(a, ids, found)
    BY <1>3, <2>1, ConnectEffect
  <2>3. PICK found \in [ids -> Holds[a]] :
          Listed(a, ids, found)
    BY <2>2
  <2>4. UNCHANGED <<patch, raced>>
    BY <1>3, <2>1, ConnectEffect
  <2>5. \A id \in Ids : ~ (id \in ids /\ calendar'[id].default)
    BY <2>3 DEF Listed
  <2>6. \A id \in Ids : id \notin ids => calendar'[id] = calendar[id]
    BY <2>3 DEF Listed
  <2> QED
    BY <1>2, <2>4, <2>5, <2>6
<1>4. ASSUME NEW a \in Accounts, Disconnect(a) PROVE DefaultsInv'
  <2>1. WithoutAccounts({a}) /\ UNCHANGED <<patch, raced>>
    BY <1>4 DEF Disconnect
  <2> QED
    BY <1>2, <2>1, WithoutTyped DEF DefaultsInv
<1>5. ASSUME NEW u \in Users, NewKey(u) PROVE DefaultsInv'
  <2>1. WithoutAccounts({a \in Accounts : Owner[a] = u}) /\ UNCHANGED <<patch, raced>>
    BY <1>5 DEF NewKey
  <2> QED
    BY <1>2, <2>1, WithoutTyped DEF DefaultsInv
<1>6. ASSUME NEW id \in Ids, Toggle(id) PROVE DefaultsInv'
  <2>1. calendar[id] \in CalendarRow
    BY <1>6 DEF Toggle, DefaultsInv, CalendarsTypeOK
  <2>2. \A i \in Ids : calendar'[i] # None =>
          /\ calendar[i] # None
          /\ calendar'[i].default = calendar[i].default
          /\ calendar'[i].account = calendar[i].account
    BY <1>6, <2>1 DEF Toggle, DefaultsInv, CalendarsTypeOK, CalendarRow
  <2>3. UNCHANGED <<patch, raced>>
    BY <1>6 DEF Toggle
  <2> QED
    BY <1>2, <2>2, <2>3
<1> QED
  BY <1>3, <1>4, <1>5, <1>6 DEF Owning

LEMMA ReadKeepsDefaults ==
  ASSUME DefaultsInv, NEW p \in Patches, NEW u \in Users, NEW id \in Ids,
         NEW value \in BOOLEAN, DefaultRead(p, u, id, value)
  PROVE  DefaultsInv'
<1> DEFINE row == [user |-> u, id |-> id, value |-> value, was |-> calendar[id].default,
                   others |-> IF value THEN Defaults(u) \ {id} ELSE {}]
<1>1. CalendarsTypeOK'
  BY ReadTyped DEF DefaultsInv
<1>2. /\ patch \in [Patches -> Patch \cup {None}] /\ patch[p] = None
      /\ patch' = [patch EXCEPT ![p] = row]
      /\ raced \subseteq raced' /\ UNCHANGED calendar
      /\ value /\ (\E q \in Patches : Sets(q) /\ patch[q].user = u) => u \in raced'
  BY DEF DefaultRead, DefaultsInv, CalendarsTypeOK
<1>3. \A v \in Users : Defaults(v)' = Defaults(v)
  BY <1>2 DEF Defaults, OwnedIds, Owns
<1>4. /\ row.user = u /\ row.value = value /\ row.id = id
      /\ value => Defaults(u) \subseteq row.others \cup {row.id}
  OBVIOUS
<1> HIDE DEF row
<1>5. \A q \in Patches : q # p => patch'[q] = patch[q] /\ (Sets(q)' <=> Sets(q))
  BY <1>2 DEF Sets
<1>6. patch'[p] = row /\ (Sets(p)' => value)
  BY <1>2, <1>4 DEF Sets
<1>7. OneSetter'
  <2> SUFFICES ASSUME NEW q \in Patches, NEW s \in Patches, Sets(q)', Sets(s)',
                      patch'[q].user = patch'[s].user, patch'[q].user \notin raced', q # s
               PROVE  FALSE
    BY DEF OneSetter
  <2>1. q # p /\ s # p
    BY <1>2, <1>4, <1>5, <1>6
  <2> QED
    BY <1>2, <1>5, <2>1 DEF DefaultsInv, OneSetter
<1>8. SettersClear'
  <2> SUFFICES ASSUME NEW q \in Patches, NEW v \in Users \ raced', Sets(q)', patch'[q].user = v
               PROVE  Defaults(v)' \subseteq patch'[q].others \cup {patch'[q].id}
    BY DEF SettersClear
  <2>1. CASE q = p
    BY <1>3, <1>4, <1>6, <2>1
  <2>2. CASE q # p
    BY <1>2, <1>3, <1>5, <2>2 DEF DefaultsInv, SettersClear
  <2> QED
    BY <2>1, <2>2
<1>9. SoleDefault'
  BY <1>2, <1>3 DEF DefaultsInv, SoleDefault
<1> QED
  BY <1>1, <1>7, <1>8, <1>9 DEF DefaultsInv

LEMMA CommitKeepsDefaults ==
  ASSUME DefaultsInv, NEW p \in Patches, DefaultCommit(p)
  PROVE  DefaultsInv'
<1> DEFINE W == patch[p].others \cup Own(p)
<1>1. CalendarsTypeOK /\ CalendarsTypeOK'
  BY CommitTyped DEF DefaultsInv
<1>2. /\ patch[p] \in Patch /\ patch' = [patch EXCEPT ![p] = None]
      /\ patch \in [Patches -> Patch \cup {None}]
      /\ raced \subseteq raced' /\ W \subseteq Ids
  BY <1>1, CommitEffect DEF CalendarsTypeOK, Own, Patch
<1>3. \A q \in Patches : Sets(q)' => q # p /\ Sets(q) /\ patch'[q] = patch[q]
  BY <1>2 DEF Sets
<1>4. OneSetter'
  BY <1>2, <1>3 DEF DefaultsInv, OneSetter
<1>5. ASSUME NEW id \in Ids
      PROVE  /\ calendar'[id] # None =>
                  calendar[id] # None /\ calendar'[id].account = calendar[id].account
             /\ id \notin W \/ calendar' = calendar => calendar'[id] = calendar[id]
             /\ id \in W /\ calendar' # calendar =>
                  calendar'[id].default = (id \in Own(p) /\ patch[p].value)
  <2>1. CASE calendar' = calendar
    BY <2>1
  <2>2. CASE id \in W /\ calendar' # calendar
    <3>1. /\ calendar[id] # None
          /\ calendar'[id] = [calendar[id] EXCEPT !.default = id \in Own(p) /\ patch[p].value]
      BY <1>1, <2>2, CommitEffect
    <3>2. calendar[id] \in CalendarRow
      BY <1>1, <3>1 DEF CalendarsTypeOK
    <3> QED
      BY <2>2, <3>1, <3>2 DEF CalendarRow
  <2>3. CASE id \notin W /\ calendar' # calendar
    BY <1>1, <2>3, CommitEffect
  <2> QED
    BY <2>1, <2>2, <2>3
(* A user the commit makes no default for has none that is new.            *)
<1>6. ASSUME NEW u \in Users \ raced', ~ (Sets(p) /\ patch[p].user = u)
      PROVE  Defaults(u)' \subseteq Defaults(u)
  <2> SUFFICES ASSUME NEW id \in Ids, calendar'[id] # None, calendar'[id].default,
                      Owner[calendar'[id].account] = u
               PROVE  calendar[id] # None /\ calendar[id].default /\ Owner[calendar[id].account] = u
    BY DEF Defaults, OwnedIds, Owns
  <2>1. calendar[id] # None /\ calendar'[id].account = calendar[id].account
    BY <1>5
  <2>2. CASE id \notin W \/ calendar' = calendar
    BY <1>5, <2>1, <2>2
  <2>3. CASE id \in W /\ calendar' # calendar
    <3>1. id \in Own(p) /\ patch[p].value
      BY <1>5, <2>3
    <3>2. ~ Strays(p, id)
      <4>1. raced' = raced \cup {Owner[calendar[i].account] : i \in {j \in W : Strays(p, j)}}
        BY <1>1, CommitEffect
      <4>2. u = Owner[calendar[id].account]
        BY <2>1
      <4> QED
        BY <2>3, <4>1, <4>2
    <3>3. patch[p].user = u
      BY <2>1, <3>2 DEF Strays
    <3>4. Sets(p)
      BY <3>1 DEF DefaultCommit, Sets
    <3> QED
      BY <1>6, <3>3, <3>4
  <2> QED
    BY <2>2, <2>3
<1>7. SettersClear'
  <2> SUFFICES ASSUME NEW q \in Patches, NEW u \in Users \ raced', Sets(q)', patch'[q].user = u
               PROVE  Defaults(u)' \subseteq patch'[q].others \cup {patch'[q].id}
    BY DEF SettersClear
  <2>1. q # p /\ Sets(q) /\ patch'[q] = patch[q] /\ u \notin raced
    BY <1>2, <1>3
  <2>2. ~ (Sets(p) /\ patch[p].user = u)
    BY <2>1 DEF DefaultsInv, OneSetter
  <2>3. Defaults(u)' \subseteq Defaults(u)
    BY <1>6, <2>2
  <2>4. Defaults(u) \subseteq patch[q].others \cup {patch[q].id}
    BY <2>1 DEF DefaultsInv, SettersClear
  <2> QED
    BY <2>1, <2>3, <2>4
<1>8. SoleDefault'
  <2> SUFFICES ASSUME NEW u \in Users \ raced', NEW i \in Defaults(u)', NEW j \in Defaults(u)'
               PROVE  i = j
    BY DEF SoleDefault
  <2>1. u \notin raced
    BY <1>2
  <2>2. CASE ~ (Sets(p) /\ patch[p].user = u) \/ calendar' = calendar
    <3>1. Defaults(u)' \subseteq Defaults(u)
      BY <1>6, <2>2 DEF Defaults, OwnedIds, Owns
    <3> QED
      BY <2>1, <3>1 DEF DefaultsInv, SoleDefault
  <2>3. CASE Sets(p) /\ patch[p].user = u /\ calendar' # calendar
    <3>1. Defaults(u) \subseteq patch[p].others \cup {patch[p].id}
      BY <2>1, <2>3 DEF DefaultsInv, SettersClear
    <3>2. ASSUME NEW k \in Defaults(u)' PROVE k = patch[p].id
      <4>1. /\ k \in Ids /\ calendar'[k] # None /\ calendar'[k].default
            /\ Owner[calendar'[k].account] = u
        BY <3>2 DEF Defaults, OwnedIds, Owns
      <4>2. CASE k \in W
        <5>1. k \in Own(p)
          BY <1>5, <2>3, <4>1, <4>2
        <5> QED
          BY <5>1 DEF Own
      <4>3. CASE k \notin W
        <5>1. calendar'[k] = calendar[k] /\ calendar[k] # None
          BY <1>5, <4>1, <4>3
        <5>2. k \in Defaults(u)
          BY <4>1, <5>1 DEF Defaults, OwnedIds, Owns
        <5> QED
          BY <3>1, <4>3, <5>2
      <4> QED
        BY <4>2, <4>3
    <3> QED
      BY <3>2
  <2> QED
    BY <2>2, <2>3
<1> QED
  BY <1>1, <1>4, <1>7, <1>8 DEF DefaultsInv

LEMMA InitDefaultsInv == CalendarsInit => DefaultsInv
<1> SUFFICES ASSUME CalendarsInit PROVE DefaultsInv
  OBVIOUS
<1>1. CalendarsTypeOK
  <2>1. MaxId \in Nat /\ 0 \in 0..MaxId
    BY CalendarsAssumption
  <2> QED
    BY <2>1 DEF CalendarsInit, CalendarsTypeOK
<1>2. \A u \in Users : Defaults(u) = {}
  BY DEF CalendarsInit, Defaults, OwnedIds, Owns
<1>3. \A p \in Patches : ~ Sets(p)
  BY DEF CalendarsInit, Sets
<1> QED
  BY <1>1, <1>2, <1>3 DEF DefaultsInv, OneSetter, SettersClear, SoleDefault

LEMMA StepDefaultsInv == DefaultsInv /\ [CalendarsNext]_calendarVars => DefaultsInv'
<1> SUFFICES ASSUME DefaultsInv, [CalendarsNext]_calendarVars PROVE DefaultsInv'
  OBVIOUS
<1>1. CASE UNCHANGED calendarVars
  <2>1. UNCHANGED <<key, account, calendar, patch, late, high, reused, raced>>
    BY <1>1 DEF calendarVars
  <2>2. CalendarsTypeOK'
    BY <2>1 DEF DefaultsInv, CalendarsTypeOK
  <2>3. \A u \in Users : Defaults(u)' = Defaults(u)
    BY <2>1 DEF Defaults, OwnedIds, Owns
  <2> QED
    BY <2>1, <2>2, <2>3, FewerDefaults
<1> QED
  BY <1>1, OwningFewer, ReadKeepsDefaults, CommitKeepsDefaults DEF CalendarsNext, Patching

(* Every step of Delegation is a step of Calendars, or leaves it alone.    *)
LEMMA StepsOfCalendars == [Next]_vars => [CalendarsNext]_calendarVars
<1> SUFFICES ASSUME [Next]_vars PROVE [CalendarsNext]_calendarVars
  OBVIOUS
<1>1. CASE (Owning \/ Patching) /\ UNCHANGED <<grant, req>>
  BY <1>1 DEF CalendarsNext
<1>2. CASE Granting
  BY <1>2 DEF Granting, MintToken, MintShare, MintItemShare, Issue, Expire, Revoke, ResetPassword,
     CalendarsNext
<1>3. ASSUME NEW r \in Requests, Asking(r) PROVE UNCHANGED calendarVars
  <2>1. \A request : Arrives(r, request) => UNCHANGED calendarVars
    BY DEF Arrives
  <2>2. /\ \A g, op, id, from, uid : AskWrite(r, g, op, id, from, uid) => UNCHANGED calendarVars
        /\ \A by, ctx, op, ids : AskListing(r, by, ctx, op, ids) => UNCHANGED calendarVars
    BY <2>1 DEF AskWrite, AskListing
  <2>3. \A u, k : OwnerData(r, u, k) \/ OwnerExport(r, u, k) => UNCHANGED calendarVars
    BY <2>2 DEF OwnerData, OwnerExport
  <2>4. \A g, id : \/ ListTool(r, g) \/ ShareItems(r, g) \/ ShareExport(r, g)
                   \/ CreateTool(r, g, id) \/ DetailsTool(r, g, id)
                   => UNCHANGED calendarVars
    BY <2>2 DEF ListTool, ShareItems, ShareExport, CreateTool, DetailsTool
  <2>5. \A g, id, op, from, uid :
          \/ UpdateTool(r, g, id, uid) \/ DeleteTool(r, g, id, uid)
          \/ JournalTool(r, g, op, id, uid) \/ ShareWrite(r, g, op, id, from, uid)
          => UNCHANGED calendarVars
    BY <2>2 DEF UpdateTool, DeleteTool, JournalTool, ShareWrite
  <2>6. Ids # {} => UNCHANGED calendarVars
    BY <1>3, <2>3, <2>4, <2>5 DEF Asking
  <2>7. Ids = {} => UNCHANGED calendarVars
    BY <1>3, <2>3, <2>2 DEF Asking, ListTool, ShareItems, ShareExport
  <2> QED
    BY <2>6, <2>7
<1>4. ASSUME NEW r \in Requests, Answering(r) PROVE UNCHANGED calendarVars
  BY <1>4 DEF Answering, Locate, LocateOrigin, Call, Drop, WriteEnds, Fetch, FetchFails,
     ListingAnswers, ListingEnds, Goes, Answer
<1>5. CASE UNCHANGED vars
  BY <1>5 DEF vars
<1> QED
  BY <1>1, <1>2, <1>3, <1>4, <1>5 DEF Next

(* A user has at most one default calendar, unless two patches that set    *)
(* one overlapped or another user's patch wrote a row whose id had come    *)
(* back: whatever tokens, shares and sessions do meanwhile, for any number *)
(* of users, accounts and calendars (routers/calendars.py).                *)
THEOREM AtMostOneDefault == Spec => []OneDefault
<1>1. Init => DefaultsInv
  BY InitDefaultsInv DEF Init
<1>2. DefaultsInv /\ [Next]_vars => DefaultsInv'
  BY StepsOfCalendars, StepDefaultsInv
<1>3. DefaultsInv => OneDefault
  <2> SUFFICES ASSUME DefaultsInv, NEW u \in Users \ raced
               PROVE  Cardinality(Defaults(u)) <= 1
    BY DEF OneDefault
  <2>1. CASE Defaults(u) = {}
    BY <2>1, FS_EmptySet
  <2>2. CASE Defaults(u) # {}
    <3>1. PICK i \in Defaults(u) : TRUE
      BY <2>2
    <3>2. Defaults(u) = {i}
      BY <3>1 DEF DefaultsInv, SoleDefault
    <3>3. Cardinality({i}) = 1
      BY FS_Singleton
    <3> QED
      BY <3>2, <3>3
  <2> QED
    BY <2>1, <2>2
<1> QED
  BY <1>1, <1>2, <1>3, PTL DEF Spec
=============================================================================
