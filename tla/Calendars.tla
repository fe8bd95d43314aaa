------------------------------ MODULE Calendars ------------------------------
(***************************************************************************)
(* The CalDAV accounts a user has connected and the rows of their          *)
(* calendars (src/webcaldav/models.py, routers/caldav_accounts.py,         *)
(* routers/calendars.py, admin.py).  What a request names is the id of a   *)
(* row, and SQLite gives a new row the id after the largest one in the     *)
(* table: the id of a deleted last row comes back.                         *)
(* KeyRing says who holds which data key and when.  Here a user's keys are *)
(* numbered, a new one with each reset of the password; a reset ends no    *)
(* session, so one may hold the newest key or any earlier one.  Numbers    *)
(* are per user: nothing rests on the keys of two users being different.   *)
(***************************************************************************)
EXTENDS Naturals, FiniteSets, Functions

CONSTANTS Users,
          Accounts,     \* accounts on CalDAV servers, each connected once at a time
          Owner,        \* the user that connects it
          Collections,  \* calendars on the servers
          Holds,        \* what an account's discovery finds
          Patches,      \* slots for requests that set or clear a default
          None,
          MaxId,        \* bound: ids of calendar rows
          MaxKey        \* bound: resets of each user's password

Ids == 1..MaxId

CalendarRow == [account : Accounts, coll : Collections, enabled : BOOLEAN, default : BOOLEAN]

(* A PATCH of the default mark between its reads and its commit: the value *)
(* it sets, the one it read, and the defaults it will clear.               *)
Patch == [user : Users, id : Ids, value : BOOLEAN, was : BOOLEAN, others : SUBSET Ids]

ASSUME CalendarsAssumption ==
  /\ Owner \in [Accounts -> Users]
  /\ Holds \in [Accounts -> SUBSET Collections]
  /\ \A a \in Accounts : IsFiniteSet(Holds[a])
  /\ MaxId \in Nat /\ MaxKey \in [Users -> Nat]
  /\ None \notin Nat \cup CalendarRow \cup Patch

VARIABLES key,          \* a user's newest data key, by number
          account,      \* the key an account's password is sealed with
          calendar,
          patch,
          late,         \* observed: accounts connected with a key replaced before
          high,         \* observed: the largest id ever given out
          reused,       \* observed: ids given out more than once
          raced         \* observed: users with defaults set in overlap, or by a
                        \* patch of another user whose row's id came back as theirs

calendarVars == <<key, account, calendar, patch, late, high, reused, raced>>

Owns(u, id) == calendar[id] # None /\ Owner[calendar[id].account] = u
OwnedIds(u) == {id \in Ids : Owns(u, id)}
Defaults(u) == {id \in OwnedIds(u) : calendar[id].default}

CalendarsInit ==
  /\ key = [u \in Users |-> 0]
  /\ account = [a \in Accounts |-> None]
  /\ calendar = [id \in Ids |-> None]
  /\ patch = [p \in Patches |-> None]
  /\ late = {}
  /\ high = 0
  /\ reused = {}
  /\ raced = {}

-----------------------------------------------------------------------------

(* The id after the largest in the table.                                  *)
NextId == 1 + (CHOOSE n \in 0..MaxId :
                 /\ n = 0 \/ calendar[n] # None
                 /\ \A id \in Ids : calendar[id] # None => id <= n)

(* The keys that sessions of a user may hold.                              *)
SessionKeys(u) == 0..key[u]

(* Connecting an account stores its password, sealed with the key of the   *)
(* session, and one row per calendar found, in the order of discovery, all *)
(* in one commit.                                                          *)
Connect(a, k) ==
  /\ account[a] = None
  /\ LET ids == NextId..(NextId + Cardinality(Holds[a]) - 1)
     IN  /\ ids \subseteq Ids
         /\ \E found \in Bijection(ids, Holds[a]) :
              calendar' = [id \in Ids |->
                IF id \in ids
                THEN [account |-> a, coll |-> found[id], enabled |-> TRUE, default |-> FALSE]
                ELSE calendar[id]]
         /\ high' = IF \E id \in ids : id > high THEN NextId + Cardinality(Holds[a]) - 1 ELSE high
         /\ reused' = reused \cup {id \in ids : id <= high}
  /\ account' = [account EXCEPT ![a] = k]
  /\ late' = IF k = key[Owner[a]] THEN late ELSE late \cup {a}
  /\ UNCHANGED <<key, patch, raced>>

WithoutAccounts(S) ==
  /\ account' = [a \in Accounts |-> IF a \in S THEN None ELSE account[a]]
  /\ calendar' = [id \in Ids |->
       IF calendar[id] # None /\ calendar[id].account \in S THEN None ELSE calendar[id]]

(* Deleting an account deletes the rows of its calendars; tokens and       *)
(* shares keep the ids.                                                    *)
Disconnect(a) ==
  /\ account[a] # None
  /\ WithoutAccounts({a})
  /\ UNCHANGED <<key, patch, late, high, reused, raced>>

(* Mutant: the accounts stay.                                              *)
NewKey_KeepsAccounts(u) ==
  /\ key[u] < MaxKey[u]
  /\ key' = [key EXCEPT ![u] = @ + 1]
  /\ UNCHANGED <<account, calendar, patch, late, high, reused, raced>>

(* What a reset of the user's password does here: a new data key, and no   *)
(* account is left.                                                        *)
NewKey(u) ==
  /\ key[u] < MaxKey[u]
  /\ key' = [key EXCEPT ![u] = @ + 1]
  /\ WithoutAccounts({a \in Accounts : Owner[a] = u})
  /\ UNCHANGED <<patch, late, high, reused, raced>>

(* A PATCH of the enabled mark: nothing it reads is written back.          *)
Toggle(id) ==
  /\ calendar[id] # None
  /\ calendar' = [calendar EXCEPT ![id].enabled = ~@]
  /\ UNCHANGED <<key, account, patch, late, high, reused, raced>>

Sets(p) == patch[p] # None /\ patch[p].value

(* A PATCH of the default mark reads its row and, to set it, the user's    *)
(* other defaults.                                                         *)
DefaultRead(p, u, id, value) ==
  /\ patch[p] = None /\ Owns(u, id)
  /\ patch' = [patch EXCEPT ![p] =
       [user |-> u, id |-> id, value |-> value, was |-> calendar[id].default,
        others |-> IF value THEN Defaults(u) \ {id} ELSE {}]]
  /\ raced' = IF value /\ \E q \in Patches : Sets(q) /\ patch[q].user = u
              THEN raced \cup {u} ELSE raced
  /\ UNCHANGED <<key, account, calendar, late, high, reused>>

(* Has the row become another user's since?                                *)
Strays(p, id) == calendar[id] # None /\ Owner[calendar[id].account] # patch[p].user

(* Mutant: the other defaults are left as they are.                        *)
DefaultCommit_KeepsOthers(p) ==
  /\ patch[p] # None
  /\ patch' = [patch EXCEPT ![p] = None]
  /\ calendar' = IF calendar[patch[p].id] = None THEN calendar
                 ELSE [calendar EXCEPT ![patch[p].id].default = patch[p].value]
  /\ UNCHANGED <<key, account, late, high, reused, raced>>

(* The commit writes what differs from what was read; a row that is gone   *)
(* fails it as a whole.                                                    *)
DefaultCommit(p) ==
  /\ patch[p] # None
  /\ patch' = [patch EXCEPT ![p] = None]
  /\ LET own == IF patch[p].value # patch[p].was THEN {patch[p].id} ELSE {}
         writes == patch[p].others \cup own
     IN  /\ calendar' = IF \E id \in writes : calendar[id] = None THEN calendar
                       ELSE [id \in Ids |->
                         IF id \in writes
                         THEN [calendar[id] EXCEPT !.default = id \in own /\ patch[p].value]
                         ELSE calendar[id]]
         /\ raced' = raced \cup
              {Owner[calendar[id].account] : id \in {i \in writes : Strays(p, i)}}
  /\ UNCHANGED <<key, account, late, high, reused>>

Owning ==
  \/ \E a \in Accounts : Disconnect(a) \/ \E k \in SessionKeys(Owner[a]) : Connect(a, k)
  \/ \E id \in Ids : Toggle(id)

Patching ==
  \E p \in Patches :
    \/ DefaultCommit(p)
    \/ \E u \in Users, id \in Ids, value \in BOOLEAN : DefaultRead(p, u, id, value)

CalendarsNext == Owning \/ Patching \/ \E u \in Users : NewKey(u)

CalendarsSpec == CalendarsInit /\ [][CalendarsNext]_calendarVars

-----------------------------------------------------------------------------

(* Types, and no row without its account.                                  *)
CalendarsTypeOK ==
  /\ key \in [Users -> Nat]
  /\ account \in [Accounts -> Nat \cup {None}]
  /\ calendar \in [Ids -> CalendarRow \cup {None}]
  /\ \A id \in Ids : calendar[id] # None => account[calendar[id].account] # None
  /\ patch \in [Patches -> Patch \cup {None}]
  /\ late \subseteq Accounts /\ high \in 0..MaxId /\ reused \subseteq Ids /\ raced \subseteq Users

(* A user has at most one default calendar, whatever accounts come and go  *)
(* between the reads of a patch and its commit, unless two patches that    *)
(* set a default overlapped, or one of another user was about a row whose  *)
(* id has come back (routers/calendars.py: at most one default per user;   *)
(* clear the others).                                                      *)
OneDefault == \A u \in Users \ raced : Cardinality(Defaults(u)) <= 1
=============================================================================
