---------------------------- MODULE KeyRingProofs ----------------------------
(***************************************************************************)
(* Proofs about KeyRing, for any users, sessions, requests, accounts and   *)
(* grants and any number of keys.                                          *)
(***************************************************************************)
EXTENDS KeyRing, TLAPS

-----------------------------------------------------------------------------
(* Types.  They rest on a fact about sessions: a request that keeps an     *)
(* entry keeps one that is there, and of its own user.                     *)

Keeps(r) == req[r] # None /\ req[r].kind \in {"change", "changed", "ask"}

Rooted ==
  \A r \in Requests :
    Keeps(r) => /\ session[req[r].session] # None
                /\ session[req[r].session].user = req[r].user

LEMMA SessionFields ==
  ASSUME TypeOK, NEW s \in Sessions, session[s] # None
  PROVE  /\ session[s].user \in Users /\ session[s].key \in Key
         /\ session[s].restricted \in BOOLEAN /\ session[s].listed \in BOOLEAN
         /\ session[s] \in Entry
BY DEF TypeOK, Entry

LEMMA UserFields ==
  ASSUME TypeOK, NEW u \in Users, user[u] # None
  PROVE  user[u].key \in Key /\ user[u].mustChange \in BOOLEAN /\ user[u] \in User
BY DEF TypeOK, User

LEMMA RequestFields ==
  ASSUME TypeOK, NEW r \in Requests, req[r] # None
  PROVE  /\ req[r] \in Req /\ req[r].user \in Users
         /\ req[r].kind = "login" => req[r] \in LoginReq
         /\ req[r].kind \in {"change", "changed"} => req[r] \in ChangeReq
         /\ req[r].kind = "ask" => req[r] \in AskReq
         /\ req[r].kind = "sealed" => req[r] \in SealedReq
         /\ req[r].kind \in {"login", "change", "changed", "ask", "sealed"}
<1>1. req[r] \in LoginReq \/ req[r] \in ChangeReq \/ req[r] \in AskReq \/ req[r] \in SealedReq
  BY DEF TypeOK, Req
<1>2. CASE req[r] \in LoginReq
  BY <1>2, <1>1 DEF LoginReq, Req
<1>3. CASE req[r] \in ChangeReq
  BY <1>3, <1>1 DEF ChangeReq, Req
<1>4. CASE req[r] \in AskReq
  BY <1>4, <1>1 DEF AskReq, Req
<1>5. CASE req[r] \in SealedReq
  BY <1>5, <1>1 DEF SealedReq, Req
<1> QED
  BY <1>1, <1>2, <1>3, <1>4, <1>5

(* Dropping an entry keeps the sessions typed.                             *)
LEMMA ReleasedTyped ==
  ASSUME TypeOK, NEW s \in Sessions, NEW r \in Requests
  PROVE  Released(s, r) \in [Sessions -> Entry \cup {None}]
BY DEF Released, TypeOK

LEMMA AdministrationTyped ==
  ASSUME TypeOK, Administration
  PROVE  TypeOK'
<1>1. ASSUME NEW u \in Users, CreateUser(u) PROVE TypeOK'
  <2>1. [key |-> keys + 1, mustChange |-> TRUE] \in User /\ keys + 1 \in Nat
    BY DEF TypeOK, User, Key
  <2> QED
    BY <1>1, <2>1 DEF CreateUser, TypeOK
<1>2. ASSUME NEW u \in Users, ResetRead(u) PROVE TypeOK'
  <2>1. [user |-> u, accounts |-> AccountsOf(u), tokens |-> TokensOf(u)] \in Reset
    BY DEF Reset, AccountsOf, TokensOf, GrantsOf
  <2> QED
    BY <1>2, <2>1 DEF ResetRead, TypeOK
<1>3. ASSUME NEW u \in Users, DeleteUser(u) PROVE TypeOK'
  <2>1. Without(account, AccountsOf(u)) \in [Accounts -> Account \cup {None}]
    BY DEF Without, TypeOK
  <2>2. Without(grant, GrantsOf(u)) \in [Grants -> Grant \cup {None}]
    BY DEF Without, TypeOK
  <2>3. user' \in [Users -> User \cup {None}]
    BY <1>3 DEF DeleteUser, TypeOK
  <2>4. strained' \subseteq Users
    BY <1>3 DEF DeleteUser, Strain, TypeOK
  <2> QED
    BY <1>3, <2>1, <2>2, <2>3, <2>4 DEF DeleteUser, TypeOK
<1>4. CASE ResetCommit
  <2>1. admin \in Reset /\ admin.user \in Users /\ admin' = None
    BY <1>4 DEF ResetCommit, TypeOK, Reset
  <2>2. CASE user[admin.user] = None
    BY <1>4, <2>1, <2>2 DEF ResetCommit, TypeOK
  <2>3. CASE user[admin.user] # None
    <3>1. [key |-> keys + 1, mustChange |-> TRUE] \in User /\ keys + 1 \in Nat
      BY DEF TypeOK, User, Key
    <3>2. Without(account, admin.accounts) \in [Accounts -> Account \cup {None}]
      BY DEF Without, TypeOK
    <3>3. Without(grant, admin.tokens) \in [Grants -> Grant \cup {None}]
      BY DEF Without, TypeOK
    <3>4. user' \in [Users -> User \cup {None}] /\ keys' \in Nat
      BY <1>4, <2>1, <2>3, <3>1 DEF ResetCommit, TypeOK
    <3>5. strained' \subseteq Users
      BY <1>4, <2>1, <2>3 DEF ResetCommit, Strain, TypeOK
    <3> QED
      BY <1>4, <2>1, <2>3, <3>2, <3>3, <3>4, <3>5 DEF ResetCommit, TypeOK
  <2> QED
    BY <2>2, <2>3
<1> QED
  BY <1>1, <1>2, <1>3, <1>4 DEF Administration

LEMMA ServingTyped ==
  ASSUME TypeOK, Rooted, NEW r \in Requests, Serving(r)
  PROVE  TypeOK'
<1>1. ASSUME NEW u \in Users, LoginRead(r, u) PROVE TypeOK'
  <2>1. [kind |-> "login", user |-> u, key |-> user[u].key,
         mustChange |-> user[u].mustChange] \in Req
    BY <1>1, UserFields DEF LoginRead, Req, LoginReq
  <2> QED
    BY <1>1, <2>1 DEF LoginRead, TypeOK
<1>2. ASSUME NEW s \in Sessions, LoginCreate(r, s) PROVE TypeOK'
  <2>1. req[r] \in LoginReq
    BY <1>2, RequestFields DEF LoginCreate
  <2>2. [user |-> req[r].user, key |-> req[r].key,
         restricted |-> req[r].mustChange, listed |-> TRUE] \in Entry
    BY <2>1 DEF LoginReq, Entry
  <2> QED
    BY <1>2, <2>2 DEF LoginCreate, TypeOK
<1>3. ASSUME NEW s \in Sessions, ChangeRead(r, s) PROVE TypeOK'
  <2>1. session[s].user \in Users /\ user[session[s].user] # None
    BY <1>3, SessionFields DEF ChangeRead
  <2>2. user[session[s].user].key \in Key /\ user[session[s].user].mustChange \in BOOLEAN
    BY <2>1, UserFields
  <2>3. [kind |-> "change", user |-> session[s].user, session |-> s,
         key |-> user[session[s].user].key,
         mustChange |-> user[session[s].user].mustChange] \in Req
    BY <2>1, <2>2 DEF Req, ChangeReq
  <2> QED
    BY <1>3, <2>3 DEF ChangeRead, TypeOK
<1>4. ASSUME NEW s \in Sessions, NEW what \in {"account", "token", "share"}, Ask(r, s, what)
      PROVE TypeOK'
  <2>1. [kind |-> "ask", user |-> session[s].user, session |-> s, what |-> what] \in Req
    BY <1>4, SessionFields DEF Ask, Req, AskReq
  <2> QED
    BY <1>4, <2>1 DEF Ask, TypeOK
<1>5. CASE ChangeCommit(r)
  <2>1. req[r] \in ChangeReq /\ req[r].user \in Users /\ req[r].session \in Sessions
    BY <1>5, RequestFields DEF ChangeCommit, ChangeReq
  <2>2. [req[r] EXCEPT !.kind = "changed"] \in Req
    BY <2>1 DEF Req, ChangeReq
  <2>3. CASE user[req[r].user] = None
    <3>1. session' \in [Sessions -> Entry \cup {None}]
      BY <1>5, <2>1, <2>3, ReleasedTyped DEF ChangeCommit
    <3> QED
      BY <1>5, <2>1, <2>3, <3>1 DEF ChangeCommit, TypeOK
  <2>4. CASE user[req[r].user] # None
    <3>1. [key |-> req[r].key,
           mustChange |-> IF req[r].mustChange THEN FALSE
                          ELSE user[req[r].user].mustChange] \in User
      BY <2>1, <2>4, UserFields DEF ChangeReq, User
    <3>2. user' \in [Users -> User \cup {None}]
      BY <1>5, <2>1, <2>4, <3>1 DEF ChangeCommit, TypeOK
    <3> QED
      BY <1>5, <2>2, <2>4, <3>2 DEF ChangeCommit, TypeOK
  <2> QED
    BY <2>3, <2>4
<1>6. CASE ChangeUpdate(r)
  <2>1. req[r] \in ChangeReq /\ req[r].session \in Sessions /\ req[r].key \in Key
    BY <1>6, RequestFields DEF ChangeUpdate, ChangeReq
  <2>2. session' \in [Sessions -> Entry \cup {None}]
    <3>0. session[req[r].session] # None
      BY <1>6 DEF ChangeUpdate, Rooted, Keeps
    <3>1. CASE session[req[r].session].listed
      <4>1. [session[req[r].session] EXCEPT !.key = req[r].key, !.restricted = FALSE] \in Entry
        BY <2>1, <3>0, SessionFields DEF Entry
      <4> QED
        BY <1>6, <2>1, <3>1, <4>1 DEF ChangeUpdate, TypeOK
    <3>2. CASE ~session[req[r].session].listed
      BY <1>6, <2>1, <3>2, ReleasedTyped DEF ChangeUpdate
    <3> QED
      BY <3>1, <3>2
  <2> QED
    BY <1>6, <2>2 DEF ChangeUpdate, TypeOK
<1>7. CASE Refused(r)
  <2>1. req[r].session \in Sessions
    BY <1>7, RequestFields DEF Refused, AskReq
  <2> QED
    BY <1>7, <2>1, ReleasedTyped DEF Refused, TypeOK
<1>8. CASE Seal(r)
  <2>1. req[r] \in AskReq /\ req[r].session \in Sessions /\ req[r].user \in Users
    BY <1>8, RequestFields DEF Seal, AskReq
  <2>2. session[req[r].session].key \in Key
    BY <1>8, <2>1, SessionFields DEF Seal, Rooted, Keeps
  <2>3. [kind |-> "sealed", user |-> req[r].user,
         key |-> session[req[r].session].key, what |-> req[r].what] \in Req
    BY <2>1, <2>2 DEF Req, AskReq, SealedReq
  <2> QED
    BY <1>8, <2>1, <2>3, ReleasedTyped DEF Seal, TypeOK
<1>9. ASSUME NEW a \in Accounts, StoreAccount(r, a) PROVE TypeOK'
  <2>1. req[r] \in SealedReq
    BY <1>9, RequestFields DEF StoreAccount
  <2>2. [user |-> req[r].user, key |-> req[r].key] \in Account
    BY <2>1 DEF SealedReq, Account
  <2> QED
    BY <1>9, <2>2 DEF StoreAccount, TypeOK
<1>10. ASSUME NEW g \in Grants, StoreGrant(r, g) PROVE TypeOK'
  <2>1. req[r] \in SealedReq
    BY <1>10, RequestFields DEF StoreGrant
  <2>2. [user |-> req[r].user, key |-> req[r].key, kind |-> req[r].what] \in Grant
    BY <1>10, <2>1 DEF StoreGrant, SealedReq, Grant
  <2> QED
    BY <1>10, <2>2 DEF StoreGrant, TypeOK
<1> QED
  BY <1>1, <1>2, <1>3, <1>4, <1>5, <1>6, <1>7, <1>8, <1>9, <1>10 DEF Serving

LEMMA OtherTyped ==
  ASSUME TypeOK,
         \/ \E s \in Sessions : EndSession(s)
         \/ Restart
         \/ \E a \in Accounts : DeleteAccount(a)
         \/ \E g \in Grants : Revoke(g)
  PROVE  TypeOK'
<1>1. ASSUME NEW s \in Sessions, EndSession(s) PROVE TypeOK'
  <2>1. [session[s] EXCEPT !.listed = FALSE] \in Entry
    BY <1>1, SessionFields DEF EndSession, Entry
  <2>2. session' \in [Sessions -> Entry \cup {None}]
    BY <1>1, <2>1 DEF EndSession, TypeOK
  <2> QED
    BY <1>1, <2>2 DEF EndSession, TypeOK
<1>2. CASE Restart
  BY <1>2 DEF Restart, TypeOK
<1>3. ASSUME NEW a \in Accounts, DeleteAccount(a) PROVE TypeOK'
  BY <1>3 DEF DeleteAccount, TypeOK
<1>4. ASSUME NEW g \in Grants, Revoke(g) PROVE TypeOK'
  BY <1>4 DEF Revoke, TypeOK
<1> QED
  BY <1>1, <1>2, <1>3, <1>4

LEMMA TypeStep == TypeOK /\ Rooted /\ [Next]_vars => TypeOK'
<1> SUFFICES ASSUME TypeOK, Rooted, [Next]_vars PROVE TypeOK'
  OBVIOUS
<1>1. CASE UNCHANGED vars
  BY <1>1 DEF vars, TypeOK
<1>2. CASE Next
  BY <1>2, AdministrationTyped, ServingTyped, OtherTyped DEF Next
<1> QED
  BY <1>1, <1>2

LEMMA TypeInit == Init => TypeOK /\ Rooted
BY DEF Init, TypeOK, Rooted, Keeps, Key

-----------------------------------------------------------------------------
(* Entries that requests keep.                                             *)

(* Letting go of an entry takes it from nobody else.                       *)
LEMMA ReleasedKept ==
  ASSUME TypeOK, NEW s \in Sessions, NEW r \in Requests,
         NEW q \in Requests, q # r, Keeps(q)
  PROVE  Released(s, r)[req[q].session] = session[req[q].session]
<1>1. req[q].session \in Sessions
  BY RequestFields DEF Keeps, ChangeReq, AskReq
<1>2. CASE req[q].session = s
  BY <1>2 DEF Released, Keepers, Keeps
<1>3. CASE req[q].session # s
  BY <1>1, <1>3 DEF Released, TypeOK
<1> QED
  BY <1>2, <1>3

(* What is left of the sessions is what was there.                         *)
LEMMA ReleasedWas ==
  ASSUME TypeOK, NEW s \in Sessions, NEW r \in Requests, NEW t \in Sessions
  PROVE  Released(s, r)[t] \in {None, session[t]}
BY DEF Released, TypeOK

LEMMA ServingRooted ==
  ASSUME TypeOK, Rooted, NEW r \in Requests, Serving(r)
  PROVE  Rooted'
<1>a. \A q \in Requests : Keeps(q) => req[q].session \in Sessions
  BY RequestFields DEF Keeps, ChangeReq, AskReq
<1>1. ASSUME NEW u \in Users, LoginRead(r, u) PROVE Rooted'
  BY <1>1 DEF LoginRead, Rooted, Keeps, TypeOK
<1>2. ASSUME NEW s \in Sessions, LoginCreate(r, s) PROVE Rooted'
  BY <1>2, <1>a DEF LoginCreate, Rooted, Keeps, TypeOK
<1>3. ASSUME NEW s \in Sessions, ChangeRead(r, s) PROVE Rooted'
  BY <1>3 DEF ChangeRead, Rooted, Keeps, TypeOK
<1>4. ASSUME NEW s \in Sessions, NEW what \in {"account", "token", "share"}, Ask(r, s, what)
      PROVE Rooted'
  BY <1>4 DEF Ask, Rooted, Keeps, TypeOK
<1>5. CASE ChangeCommit(r)
  <2>1. CASE user[req[r].user] = None
    <3>1. /\ session' = Released(req[r].session, r) /\ Keeps(r)
          /\ req' = [req EXCEPT ![r] = None]
      BY <1>5, <2>1 DEF ChangeCommit, Keeps
    <3> QED
      BY <3>1, <1>a, ReleasedKept DEF Rooted, Keeps, TypeOK
  <2>2. CASE user[req[r].user] # None
    <3>1. /\ session' = session /\ req' = [req EXCEPT ![r].kind = "changed"] /\ Keeps(r)
      BY <1>5, <2>2 DEF ChangeCommit, Keeps
    <3>2. req[r] \in ChangeReq
      BY <1>5, RequestFields DEF ChangeCommit
    <3>3. req'[r].session = req[r].session /\ req'[r].user = req[r].user
      BY <3>1, <3>2 DEF ChangeReq, TypeOK
    <3> QED
      BY <3>1, <3>3 DEF Rooted, Keeps, TypeOK
  <2> QED
    BY <2>1, <2>2
<1>6. CASE ChangeUpdate(r)
  <2>1. Keeps(r) /\ req' = [req EXCEPT ![r] = None]
    BY <1>6 DEF ChangeUpdate, Keeps
  <2>2. CASE session[req[r].session].listed
    <3>1. session' = [session EXCEPT ![req[r].session].key = req[r].key,
                                     ![req[r].session].restricted = FALSE]
      BY <1>6, <2>2 DEF ChangeUpdate
    <3>2. session[req[r].session] \in Entry
      BY <2>1, <1>a, SessionFields DEF Rooted
    <3>3. session' = [session EXCEPT ![req[r].session] =
                        [session[req[r].session] EXCEPT !.key = req[r].key,
                                                        !.restricted = FALSE]]
      BY <3>1, <2>1, <1>a DEF TypeOK
    <3>4. [session[req[r].session] EXCEPT !.key = req[r].key, !.restricted = FALSE] \in Entry
      BY <1>6, <3>2, RequestFields DEF ChangeUpdate, ChangeReq, Entry
    <3>5. [session[req[r].session] EXCEPT !.key = req[r].key, !.restricted = FALSE].user
             = session[req[r].session].user
      BY <3>2 DEF Entry
    <3>6. \A t \in Sessions : session[t] # None =>
            session'[t] # None /\ session'[t].user = session[t].user
      BY <3>3, <3>4, <3>5, <2>1, <1>a, KeyRingAssumption DEF TypeOK
    <3> QED
      BY <2>1, <3>6, <1>a DEF Rooted, Keeps, TypeOK
  <2>3. CASE ~session[req[r].session].listed
    <3>1. session' = Released(req[r].session, r)
      BY <1>6, <2>3 DEF ChangeUpdate
    <3> QED
      BY <2>1, <3>1, <1>a, ReleasedKept DEF Rooted, Keeps, TypeOK
  <2> QED
    BY <2>2, <2>3
<1>7. CASE Refused(r)
  <2>1. /\ session' = Released(req[r].session, r) /\ Keeps(r)
        /\ req' = [req EXCEPT ![r] = None]
    BY <1>7 DEF Refused, Keeps
  <2> QED
    BY <2>1, <1>a, ReleasedKept DEF Rooted, Keeps, TypeOK
<1>8. CASE Seal(r)
  <2>1. session' = Released(req[r].session, r) /\ Keeps(r) /\ ~Keeps(r)'
    BY <1>8 DEF Seal, Keeps, TypeOK
  <2>2. \A q \in Requests \ {r} : req'[q] = req[q]
    BY <1>8 DEF Seal, TypeOK
  <2> QED
    BY <2>1, <2>2, <1>a, ReleasedKept DEF Rooted, Keeps
<1>9. ASSUME NEW a \in Accounts, StoreAccount(r, a) PROVE Rooted'
  BY <1>9 DEF StoreAccount, Rooted, Keeps, TypeOK
<1>10. ASSUME NEW g \in Grants, StoreGrant(r, g) PROVE Rooted'
  BY <1>10 DEF StoreGrant, Rooted, Keeps, TypeOK
<1> QED
  BY <1>1, <1>2, <1>3, <1>4, <1>5, <1>6, <1>7, <1>8, <1>9, <1>10 DEF Serving

LEMMA RootedStep == TypeOK /\ Rooted /\ [Next]_vars => Rooted'
<1> SUFFICES ASSUME TypeOK, Rooted, [Next]_vars PROVE Rooted'
  OBVIOUS
<1>1. CASE UNCHANGED <<session, req>>
  BY <1>1 DEF Rooted, Keeps
<1>2. ASSUME NEW s \in Sessions, EndSession(s) PROVE Rooted'
  <2>1. session[s] \in Entry /\ req' = req
    BY <1>2, SessionFields DEF EndSession
  <2>2. ASSUME NEW q \in Requests, Keeps(q)
        PROVE  /\ session'[req[q].session] # None
               /\ session'[req[q].session].user = session[req[q].session].user
    <3>1. req[q].session \in Sessions /\ session[req[q].session] # None
      BY <2>2, RequestFields DEF Keeps, ChangeReq, AskReq, Rooted
    <3>2. CASE req[q].session = s
      <4>1. Keepers(s) # {}
        BY <2>2, <3>2 DEF Keepers, Keeps
      <4> QED
        BY <1>2, <2>1, <3>2, <4>1, KeyRingAssumption DEF EndSession, Entry, TypeOK
    <3>3. CASE req[q].session # s
      BY <1>2, <3>1, <3>3 DEF EndSession, TypeOK
    <3> QED
      BY <3>2, <3>3
  <2> QED
    BY <2>1, <2>2 DEF Rooted, Keeps
<1>3. CASE Restart
  BY <1>3 DEF Restart, Rooted, Keeps
<1>4. ASSUME Administration PROVE UNCHANGED <<session, req>>
  BY <1>4 DEF Administration, CreateUser, ResetRead, ResetCommit, DeleteUser
<1>5. ASSUME NEW a \in Accounts, DeleteAccount(a) PROVE UNCHANGED <<session, req>>
  BY <1>5 DEF DeleteAccount
<1>6. ASSUME NEW g \in Grants, Revoke(g) PROVE UNCHANGED <<session, req>>
  BY <1>6 DEF Revoke
<1> QED
  BY <1>1, <1>2, <1>3, <1>4, <1>5, <1>6, ServingRooted DEF Next, vars

(* Every row, session and request is of its declared shape (the state that *)
(* auth.py, session.py, caldav_accounts.py, api_tokens.py, shares.py and   *)
(* admin.py keep).                                                         *)
THEOREM KeyTypes == Spec => []TypeOK
<1>1. Spec => [](TypeOK /\ Rooted)
  BY TypeInit, TypeStep, RootedStep, PTL DEF Spec
<1> QED
  BY <1>1, PTL

-----------------------------------------------------------------------------
(* The keys agree.                                                         *)

(* A key is replaced or removed, and some rows with it: whatever of that   *)
(* user is left makes it strained, and nobody else is concerned.           *)
LEMMA ReplaceAgrees ==
  ASSUME TypeOK, KeysAgree, NEW u \in Users, NEW A, NEW G,
         \A v \in Users \ {u} : user'[v] = user[v],
         account' = Without(account, A), grant' = Without(grant, G),
         Strain(u, A, G), UNCHANGED <<session, req>>
  PROVE  KeysAgree'
<1>1. \A v \in Users \ {u} : v \notin strained' => v \notin strained
  BY DEF Strain
<1>2. u \notin strained' => Quiet(u, A, G)
  BY DEF Strain
<1>3. ASSUME NEW s \in Sessions, session'[s] # None, session'[s].user \notin strained'
      PROVE  HoldsKey(session[s].user, session[s].key)'
  <2>1. session[s].user \in Users /\ session'[s] = session[s]
    BY <1>3, SessionFields
  <2>2. session[s].user # u
    BY <1>2, <1>3, <2>1 DEF Quiet
  <2> QED
    BY <1>1, <1>3, <2>1, <2>2 DEF KeysAgree, HoldsKey
<1>4. ASSUME NEW a \in Accounts, account'[a] # None, account'[a].user \notin strained'
      PROVE  HoldsKey(account[a].user, account[a].key)'
  <2>1. account[a] # None /\ account'[a] = account[a] /\ a \notin A
    BY <1>4 DEF Without, TypeOK
  <2>2. account[a].user \in Users
    BY <2>1 DEF TypeOK, Account
  <2>3. account[a].user # u
    BY <1>2, <1>4, <2>1 DEF Quiet, AccountsOf
  <2> QED
    BY <1>1, <1>4, <2>1, <2>2, <2>3 DEF KeysAgree, HoldsKey
<1>5. ASSUME NEW g \in Grants, grant'[g] # None, grant'[g].user \notin strained'
      PROVE  HoldsKey(grant[g].user, grant[g].key)'
  <2>1. grant[g] # None /\ grant'[g] = grant[g] /\ g \notin G
    BY <1>5 DEF Without, TypeOK
  <2>2. grant[g].user \in Users
    BY <2>1 DEF TypeOK, Grant
  <2>3. grant[g].user # u
    BY <1>2, <1>5, <2>1 DEF Quiet, GrantsOf
  <2> QED
    BY <1>1, <1>5, <2>1, <2>2, <2>3 DEF KeysAgree, HoldsKey
<1>6. ASSUME NEW r \in Requests, req'[r] # None, req'[r].kind # "ask",
             req'[r].user \notin strained'
      PROVE  HoldsKey(req[r].user, req[r].key)'
  <2>1. req[r].user \in Users /\ req'[r] = req[r]
    BY <1>6, RequestFields
  <2>2. req[r].user # u
    BY <1>2, <1>6, <2>1 DEF Quiet
  <2> QED
    BY <1>1, <1>6, <2>1, <2>2 DEF KeysAgree, HoldsKey
<1> QED
  BY <1>3, <1>4, <1>5, <1>6 DEF KeysAgree

LEMMA AdministrationAgrees ==
  ASSUME TypeOK, Rooted, KeysAgree, Administration
  PROVE  KeysAgree'
<1>1. ASSUME NEW u \in Users, CreateUser(u) PROVE KeysAgree'
  <2>1. \A v \in Users \ {u} : user'[v] = user[v]
    BY <1>1 DEF CreateUser, TypeOK
  <2>2. user[u] = None /\ UNCHANGED <<session, account, grant, req, strained>>
    BY <1>1 DEF CreateUser
  <2>3. \A a \in Accounts : account[a] # None => account[a].user \in Users
    BY DEF TypeOK, Account
  <2>4. \A g \in Grants : grant[g] # None => grant[g].user \in Users
    BY DEF TypeOK, Grant
  <2> QED
    BY <2>1, <2>2, <2>3, <2>4, SessionFields, RequestFields DEF KeysAgree, HoldsKey
<1>2. ASSUME NEW u \in Users, ResetRead(u) PROVE KeysAgree'
  BY <1>2 DEF ResetRead, KeysAgree, HoldsKey
<1>3. ASSUME NEW u \in Users, DeleteUser(u) PROVE KeysAgree'
  <2>1. \A v \in Users \ {u} : user'[v] = user[v]
    BY <1>3 DEF DeleteUser, TypeOK
  <2> QED
    BY <1>3, <2>1, ReplaceAgrees DEF DeleteUser
<1>4. CASE ResetCommit
  <2>1. CASE user[admin.user] = None
    BY <1>4, <2>1 DEF ResetCommit, KeysAgree, HoldsKey
  <2>2. CASE user[admin.user] # None
    <3>1. admin.user \in Users
      BY <1>4 DEF ResetCommit, TypeOK, Reset
    <3>2. \A v \in Users \ {admin.user} : user'[v] = user[v]
      BY <1>4, <2>2 DEF ResetCommit, TypeOK
    <3> QED
      BY <1>4, <2>2, <3>1, <3>2, ReplaceAgrees DEF ResetCommit
  <2> QED
    BY <2>1, <2>2
<1> QED
  BY <1>1, <1>2, <1>3, <1>4 DEF Administration

(* A request's step that leaves users, accounts and grants alone and only  *)
(* drops sessions or keeps their keys.                                     *)
LEMMA PlainAgrees ==
  ASSUME TypeOK, KeysAgree, UNCHANGED <<user, account, grant, strained>>,
         \A s \in Sessions :
           \/ session'[s] \in {None, session[s]}
           \/ (session'[s].user \notin strained
                => HoldsKey(session'[s].user, session'[s].key)),
         \A r \in Requests :
           \/ req'[r] \in {None, req[r]} \/ req'[r].kind = "ask"
           \/ (req'[r].user \notin strained => HoldsKey(req'[r].user, req'[r].key))
  PROVE  KeysAgree'
BY DEF KeysAgree, HoldsKey

LEMMA ServingAgrees ==
  ASSUME TypeOK, Rooted, KeysAgree, NEW r \in Requests, Serving(r)
  PROVE  KeysAgree'
<1>1. ASSUME NEW u \in Users, LoginRead(r, u) PROVE KeysAgree'
  BY <1>1, PlainAgrees DEF LoginRead, HoldsKey, TypeOK
<1>2. ASSUME NEW s \in Sessions, LoginCreate(r, s) PROVE KeysAgree'
  <2>1. req[r].user \notin strained => HoldsKey(req[r].user, req[r].key)
    BY <1>2 DEF LoginCreate, KeysAgree
  <2> QED
    BY <1>2, <2>1, PlainAgrees DEF LoginCreate, TypeOK
<1>3. ASSUME NEW s \in Sessions, ChangeRead(r, s) PROVE KeysAgree'
  BY <1>3, PlainAgrees DEF ChangeRead, HoldsKey, TypeOK
<1>4. ASSUME NEW s \in Sessions, NEW what \in {"account", "token", "share"}, Ask(r, s, what)
      PROVE KeysAgree'
  BY <1>4, PlainAgrees DEF Ask, TypeOK
<1>5. CASE ChangeCommit(r)
  <2>a. req[r] \in ChangeReq /\ req[r].session \in Sessions /\ req[r].user \in Users
    BY <1>5, RequestFields DEF ChangeCommit, ChangeReq
  <2>b. req[r].user \notin strained => HoldsKey(req[r].user, req[r].key)
    BY <1>5 DEF ChangeCommit, KeysAgree
  <2>1. CASE user[req[r].user] = None
    BY <1>5, <2>1, <2>a, ReleasedWas, PlainAgrees DEF ChangeCommit, TypeOK
  <2>2. CASE user[req[r].user] # None
    <3>a. user'[req[r].user] \in User /\ user'[req[r].user].key = req[r].key
      <4>1. user' = [user EXCEPT ![req[r].user] =
                       [key |-> req[r].key,
                        mustChange |-> IF req[r].mustChange THEN FALSE
                                       ELSE user[req[r].user].mustChange]]
        BY <1>5, <2>2, <2>a DEF ChangeCommit, TypeOK
      <4>2. req[r].key \in Key /\ (IF req[r].mustChange THEN FALSE
                                   ELSE user[req[r].user].mustChange) \in BOOLEAN
        BY <2>a, <2>2, UserFields DEF ChangeReq
      <4> QED
        BY <4>1, <4>2, <2>a DEF User, TypeOK
    <3>b. \A v \in Users : v # req[r].user => user'[v] = user[v]
      BY <1>5, <2>2 DEF ChangeCommit, TypeOK
    <3>1. \A v \in Users : v \notin strained => \A k \in Key : HoldsKey(v, k) => HoldsKey(v, k)'
      BY <3>a, <3>b, <2>b, KeyRingAssumption DEF HoldsKey
    <3>2. UNCHANGED <<session, account, grant, strained>>
      BY <1>5, <2>2 DEF ChangeCommit
    <3>3. /\ \A q \in Requests \ {r} : req'[q] = req[q]
          /\ req'[r].user = req[r].user /\ req'[r].key = req[r].key
      BY <1>5, <2>2, <2>a DEF ChangeCommit, ChangeReq, TypeOK
    <3>4. \A a \in Accounts : account[a] # None => account[a].user \in Users /\ account[a].key \in Key
      BY DEF TypeOK, Account
    <3>5. \A g \in Grants : grant[g] # None => grant[g].user \in Users /\ grant[g].key \in Key
      BY DEF TypeOK, Grant
    <3>6. \A q \in Requests : req[q] # None /\ req[q].kind # "ask" => req[q].user \in Users /\ req[q].key \in Key
      BY RequestFields DEF LoginReq, ChangeReq, SealedReq
    <3>7. \A s \in Sessions : session'[s] # None /\ session'[s].user \notin strained'
            => HoldsKey(session[s].user, session[s].key)'
      BY <3>1, <3>2, SessionFields DEF KeysAgree
    <3>8. \A a \in Accounts : account'[a] # None /\ account'[a].user \notin strained'
            => HoldsKey(account[a].user, account[a].key)'
      BY <3>1, <3>2, <3>4 DEF KeysAgree
    <3>9. \A g \in Grants : grant'[g] # None /\ grant'[g].user \notin strained'
            => HoldsKey(grant[g].user, grant[g].key)'
      BY <3>1, <3>2, <3>5 DEF KeysAgree
    <3>10. \A q \in Requests : req'[q] # None /\ req'[q].kind # "ask" /\ req'[q].user \notin strained'
            => HoldsKey(req[q].user, req[q].key)'
      BY <1>5, <3>1, <3>2, <3>3, <3>6 DEF KeysAgree, ChangeCommit
    <3> QED
      BY <3>7, <3>8, <3>9, <3>10 DEF KeysAgree
  <2> QED
    BY <2>1, <2>2
<1>6. CASE ChangeUpdate(r)
  <2>a. req[r].session \in Sessions /\ Keeps(r)
    BY <1>6, RequestFields DEF ChangeUpdate, ChangeReq, Keeps
  <2>b. /\ UNCHANGED <<user, account, grant, strained>>
        /\ \A q \in Requests : req'[q] \in {None, req[q]}
    BY <1>6 DEF ChangeUpdate, TypeOK
  <2>1. CASE session[req[r].session].listed
    <3>1. session' = [session EXCEPT ![req[r].session].key = req[r].key,
                                     ![req[r].session].restricted = FALSE]
      BY <1>6, <2>1 DEF ChangeUpdate
    <3>2. session[req[r].session] \in Entry /\ session[req[r].session].user = req[r].user
      BY <2>a, SessionFields DEF Rooted
    <3>3. session' = [session EXCEPT ![req[r].session] =
                        [session[req[r].session] EXCEPT !.key = req[r].key,
                                                        !.restricted = FALSE]]
      BY <3>1, <2>a DEF TypeOK
    <3>4. session'[req[r].session].user = req[r].user /\ session'[req[r].session].key = req[r].key
      BY <3>2, <3>3, <2>a DEF Entry, TypeOK
    <3>5. \A t \in Sessions : t # req[r].session => session'[t] = session[t]
      BY <3>3 DEF TypeOK
    <3>6. req[r].user \notin strained => HoldsKey(req[r].user, req[r].key)
      BY <1>6 DEF ChangeUpdate, KeysAgree
    <3> QED
      BY <2>b, <3>4, <3>5, <3>6, PlainAgrees
  <2>2. CASE ~session[req[r].session].listed
    <3>1. session' = Released(req[r].session, r)
      BY <1>6, <2>2 DEF ChangeUpdate
    <3> QED
      BY <2>a, <2>b, <3>1, ReleasedWas, PlainAgrees
  <2> QED
    BY <2>1, <2>2
<1>7. CASE Refused(r)
  <2>1. req[r].session \in Sessions
    BY <1>7, RequestFields DEF Refused, AskReq
  <2> QED
    BY <1>7, <2>1, ReleasedWas, PlainAgrees DEF Refused, TypeOK
<1>8. CASE Seal(r)
  <2>1. req[r] \in AskReq /\ req[r].session \in Sessions /\ Keeps(r)
    BY <1>8, RequestFields DEF Seal, AskReq, Keeps
  <2>2. req[r].user \notin strained => HoldsKey(req[r].user, session[req[r].session].key)
    BY <2>1 DEF Rooted, KeysAgree
  <2>3. /\ req'[r].user = req[r].user /\ req'[r].key = session[req[r].session].key
        /\ \A q \in Requests : q # r => req'[q] = req[q]
    BY <1>8 DEF Seal, TypeOK
  <2>4. session' = Released(req[r].session, r) /\ UNCHANGED <<user, account, grant, strained>>
    BY <1>8 DEF Seal
  <2> QED
    BY <2>1, <2>2, <2>3, <2>4, ReleasedWas, PlainAgrees
<1>9. ASSUME NEW a \in Accounts, StoreAccount(r, a) PROVE KeysAgree'
  <2>1. req[r].user \notin strained => HoldsKey(req[r].user, req[r].key)
    BY <1>9 DEF StoreAccount, KeysAgree
  <2> QED
    BY <1>9, <2>1 DEF StoreAccount, KeysAgree, HoldsKey, TypeOK
<1>10. ASSUME NEW g \in Grants, StoreGrant(r, g) PROVE KeysAgree'
  <2>1. req[r].user \notin strained => HoldsKey(req[r].user, req[r].key)
    BY <1>10 DEF StoreGrant, KeysAgree
  <2>2. grant'[g].user = req[r].user /\ grant'[g].key = req[r].key
    BY <1>10 DEF StoreGrant, TypeOK
  <2>3. /\ \A h \in Grants : h # g => grant'[h] = grant[h]
        /\ \A q \in Requests : req'[q] \in {None, req[q]}
        /\ UNCHANGED <<user, session, account, strained>>
    BY <1>10 DEF StoreGrant, TypeOK
  <2>4. \A u, k : HoldsKey(u, k) => user'[u] # None /\ user'[u].key = k
    BY <2>3 DEF HoldsKey
  <2>5. \A h \in Grants :
          grant'[h] # None /\ grant'[h].user \notin strained
            => user'[grant'[h].user] # None /\ user'[grant'[h].user].key = grant'[h].key
    <3> SUFFICES ASSUME NEW h \in Grants, grant'[h] # None, grant'[h].user \notin strained
                 PROVE  HoldsKey(grant'[h].user, grant'[h].key)
      BY <2>4
    <3>1. CASE h = g
      BY <2>1, <2>2, <3>1
    <3>2. CASE h # g
      BY <2>3, <3>2 DEF KeysAgree
    <3> QED
      BY <3>1, <3>2
  <2>6. \A q \in Requests :
          req'[q] # None /\ req'[q].kind # "ask" /\ req'[q].user \notin strained
            => user'[req'[q].user] # None /\ user'[req'[q].user].key = req'[q].key
    BY <2>3, <2>4 DEF KeysAgree
  <2>7. /\ \A s \in Sessions :
             session[s] # None /\ session[s].user \notin strained
               => user'[session[s].user] # None /\ user'[session[s].user].key = session[s].key
        /\ \A a \in Accounts :
             account[a] # None /\ account[a].user \notin strained
               => user'[account[a].user] # None /\ user'[account[a].user].key = account[a].key
    BY <2>4 DEF KeysAgree
  <2>8. (\A h \in Grants :
          grant[h] # None /\ grant[h].user \notin strained => HoldsKey(grant[h].user, grant[h].key))'
    BY <2>3, <2>5 DEF HoldsKey
  <2>9. (\A q \in Requests :
          req[q] # None /\ req[q].kind # "ask" /\ req[q].user \notin strained
            => HoldsKey(req[q].user, req[q].key))'
    BY <2>3, <2>6 DEF HoldsKey
  <2>10. (\A s \in Sessions :
          session[s] # None /\ session[s].user \notin strained
            => HoldsKey(session[s].user, session[s].key))'
    BY <2>3, <2>7 DEF HoldsKey
  <2>11. (\A a \in Accounts :
          account[a] # None /\ account[a].user \notin strained
            => HoldsKey(account[a].user, account[a].key))'
    BY <2>3, <2>7 DEF HoldsKey
  <2> QED
    BY <2>8, <2>9, <2>10, <2>11 DEF KeysAgree
<1> QED
  BY <1>1, <1>2, <1>3, <1>4, <1>5, <1>6, <1>7, <1>8, <1>9, <1>10 DEF Serving

LEMMA OtherAgrees ==
  ASSUME TypeOK, KeysAgree,
         \/ \E s \in Sessions : EndSession(s)
         \/ Restart
         \/ \E a \in Accounts : DeleteAccount(a)
         \/ \E g \in Grants : Revoke(g)
  PROVE  KeysAgree'
<1>1. ASSUME NEW s \in Sessions, EndSession(s) PROVE KeysAgree'
  <2>1. session[s] \in Entry
    BY <1>1, SessionFields DEF EndSession
  <2>2. [session[s] EXCEPT !.listed = FALSE].user = session[s].user
        /\ [session[s] EXCEPT !.listed = FALSE].key = session[s].key
    BY <2>1 DEF Entry
  <2>3. \A t \in Sessions :
          session'[t] # None => /\ session[t] # None
                                /\ session'[t].user = session[t].user
                                /\ session'[t].key = session[t].key
    BY <1>1, <2>2 DEF EndSession, TypeOK
  <2> QED
    BY <1>1, <2>3 DEF EndSession, KeysAgree, HoldsKey
<1>2. CASE Restart
  BY <1>2 DEF Restart, KeysAgree, HoldsKey
<1>3. ASSUME NEW a \in Accounts, DeleteAccount(a) PROVE KeysAgree'
  BY <1>3 DEF DeleteAccount, KeysAgree, HoldsKey, TypeOK
<1>4. ASSUME NEW g \in Grants, Revoke(g) PROVE KeysAgree'
  BY <1>4 DEF Revoke, KeysAgree, HoldsKey, TypeOK
<1> QED
  BY <1>1, <1>2, <1>3, <1>4

LEMMA AgreeStep == TypeOK /\ Rooted /\ KeysAgree /\ [Next]_vars => KeysAgree'
<1> SUFFICES ASSUME TypeOK, Rooted, KeysAgree, [Next]_vars PROVE KeysAgree'
  OBVIOUS
<1>1. CASE UNCHANGED vars
  BY <1>1 DEF vars, KeysAgree, HoldsKey
<1>2. CASE Next
  BY <1>2, AdministrationAgrees, ServingAgrees, OtherAgrees DEF Next
<1> QED
  BY <1>1, <1>2

(* Whatever overlaps, everything sealed for a user opens with the key of   *)
(* that user's password (auth.py, caldav_accounts.py, api_tokens.py,       *)
(* shares.py), unless the administrator replaced or removed the key while  *)
(* something still held it (admin.py).                                     *)
THEOREM KeysAlwaysAgree == Spec => []KeysAgree
<1>1. Init => KeysAgree
  BY DEF Init, KeysAgree
<1>2. Spec => [](TypeOK /\ Rooted /\ KeysAgree)
  BY <1>1, TypeInit, TypeStep, RootedStep, AgreeStep, PTL DEF Spec
<1> QED
  BY <1>2, PTL
-----------------------------------------------------------------------------
(* The one-off password.  While it is in force its sessions are restricted *)
(* and no request has got past the check that keeps them out.              *)

Restrained(u) ==
  /\ \A a \in Accounts : account[a] # None => account[a].user # u
  /\ \A g \in Grants : grant[g] # None => grant[g].user # u
  /\ \A s \in Sessions : session[s] # None /\ session[s].user = u => session[s].restricted
  /\ \A r \in Requests :
       req[r] # None /\ req[r].user = u
         => req[r].kind \in {"login", "change"} /\ req[r].mustChange

OneOff ==
  \A u \in Users : u \notin strained /\ user[u] # None /\ user[u].mustChange => Restrained(u)

(* An unknown user has nothing.                                            *)
LEMMA NobodyHoldsNothing ==
  ASSUME TypeOK, Rooted, KeysAgree, NEW u \in Users, user[u] = None, u \notin strained
  PROVE  /\ \A a \in Accounts : account[a] # None => account[a].user # u
         /\ \A g \in Grants : grant[g] # None => grant[g].user # u
         /\ \A s \in Sessions : session[s] # None => session[s].user # u
         /\ \A r \in Requests : req[r] # None => req[r].user # u
<1>1. /\ \A a \in Accounts : account[a] # None => account[a].user # u
      /\ \A g \in Grants : grant[g] # None => grant[g].user # u
      /\ \A s \in Sessions : session[s] # None => session[s].user # u
      /\ \A r \in Requests : req[r] # None /\ req[r].kind # "ask" => req[r].user # u
  BY DEF KeysAgree, HoldsKey
<1>2. \A r \in Requests : req[r] # None /\ req[r].kind = "ask" => req[r].user # u
  BY <1>1, RequestFields DEF Rooted, Keeps, AskReq
<1> QED
  BY <1>1, <1>2

LEMMA AdministrationOneOff ==
  ASSUME TypeOK, Rooted, KeysAgree, OneOff, Administration
  PROVE  OneOff'
<1> SUFFICES ASSUME NEW v \in Users, v \notin strained', user'[v] # None, user'[v].mustChange
             PROVE  Restrained(v)'
  BY DEF OneOff
<1>1. ASSUME NEW u \in Users, CreateUser(u) PROVE Restrained(v)'
  <2>1. CASE v = u
    BY <1>1, <2>1, NobodyHoldsNothing DEF CreateUser, Restrained
  <2>2. CASE v # u
    BY <1>1, <2>2 DEF CreateUser, OneOff, Restrained, TypeOK
  <2> QED
    BY <2>1, <2>2
<1>2. ASSUME NEW u \in Users, ResetRead(u) PROVE Restrained(v)'
  BY <1>2 DEF ResetRead, OneOff, Restrained
<1>3. ASSUME NEW u \in Users, DeleteUser(u) PROVE Restrained(v)'
  <2>1. v # u
    BY <1>3 DEF DeleteUser, TypeOK
  <2>2. v \notin strained /\ user'[v] = user[v]
    BY <1>3, <2>1 DEF DeleteUser, Strain, TypeOK
  <2>3. /\ \A a \in Accounts : account'[a] \in {None, account[a]}
        /\ \A g \in Grants : grant'[g] \in {None, grant[g]}
        /\ UNCHANGED <<session, req>>
    BY <1>3 DEF DeleteUser, Without, TypeOK
  <2> QED
    BY <2>2, <2>3 DEF OneOff, Restrained
<1>4. CASE ResetCommit
  <2>1. admin.user \in Users /\ UNCHANGED <<session, req>>
    BY <1>4 DEF ResetCommit, TypeOK, Reset
  <2>2. CASE user[admin.user] = None
    BY <1>4, <2>1, <2>2 DEF ResetCommit, OneOff, Restrained
  <2>3. CASE user[admin.user] # None
    <3>1. /\ \A a \in Accounts : account'[a] = IF a \in admin.accounts THEN None ELSE account[a]
          /\ \A g \in Grants : grant'[g] = IF g \in admin.tokens THEN None ELSE grant[g]
          /\ Strain(admin.user, admin.accounts, admin.tokens)
          /\ \A u \in Users : u # admin.user => user'[u] = user[u]
      BY <1>4, <2>3 DEF ResetCommit, Without, TypeOK
    <3>2. CASE v = admin.user
      <4>1. Quiet(v, admin.accounts, admin.tokens)
        BY <3>1, <3>2 DEF Strain
      <4>2. /\ \A a \in Accounts : account[a] # None /\ account[a].user = v => a \in admin.accounts
            /\ \A g \in Grants : grant[g] # None /\ grant[g].user = v => g \in admin.tokens
            /\ \A s \in Sessions : session[s] # None => session[s].user # v
            /\ \A r \in Requests : req[r] # None => req[r].user # v
        BY <4>1 DEF Quiet, AccountsOf, GrantsOf
      <4> QED
        BY <2>1, <3>1, <4>2 DEF Restrained
    <3>3. CASE v # admin.user
      <4>1. v \notin strained /\ user'[v] = user[v]
        BY <3>1, <3>3 DEF Strain
      <4> QED
        BY <2>1, <3>1, <4>1 DEF OneOff, Restrained
    <3> QED
      BY <3>2, <3>3
  <2> QED
    BY <2>2, <2>3
<1> QED
  BY <1>1, <1>2, <1>3, <1>4 DEF Administration

(* What a handler lets go of is only ever the whole entry.                 *)
LEMMA ReleasedRestrained ==
  ASSUME TypeOK, NEW v \in Users, Restrained(v), NEW x \in Sessions, NEW r \in Requests,
         session' = Released(x, r),
         \A q \in Requests : req'[q] \in {None, req[q]},
         UNCHANGED <<account, grant>>
  PROVE  Restrained(v)'
<1>1. \A s \in Sessions : session'[s] \in {None, session[s]}
  BY DEF Released, TypeOK
<1> QED
  BY <1>1 DEF Restrained

LEMMA ServingOneOff ==
  ASSUME TypeOK, Rooted, OneOff, NEW r \in Requests, Serving(r)
  PROVE  OneOff'
<1> SUFFICES ASSUME NEW v \in Users, v \notin strained', user'[v] # None, user'[v].mustChange
             PROVE  Restrained(v)'
  BY DEF OneOff
<1>a. strained' = strained
  BY DEF Serving, LoginRead, LoginCreate, ChangeRead, Ask, ChangeCommit, ChangeUpdate,
         Refused, Seal, StoreAccount, StoreGrant
<1>1. ASSUME NEW u \in Users, LoginRead(r, u) PROVE Restrained(v)'
  BY <1>1, <1>a DEF LoginRead, OneOff, Restrained, TypeOK
<1>2. ASSUME NEW s \in Sessions, LoginCreate(r, s) PROVE Restrained(v)'
  <2>1. Restrained(v) /\ UNCHANGED <<account, grant>>
    BY <1>2, <1>a DEF LoginCreate, OneOff
  <2>2. /\ \A t \in Sessions : t # s => session'[t] = session[t]
        /\ session'[s].user = req[r].user /\ session'[s].restricted = req[r].mustChange
        /\ \A q \in Requests : req'[q] \in {None, req[q]}
    BY <1>2 DEF LoginCreate, TypeOK
  <2>3. req[r] # None
    BY <1>2 DEF LoginCreate
  <2> QED
    BY <2>1, <2>2, <2>3 DEF Restrained
<1>3. ASSUME NEW s \in Sessions, ChangeRead(r, s) PROVE Restrained(v)'
  BY <1>3, <1>a DEF ChangeRead, OneOff, Restrained, TypeOK
<1>4. ASSUME NEW s \in Sessions, NEW what \in {"account", "token", "share"}, Ask(r, s, what)
      PROVE Restrained(v)'
  <2>1. Restrained(v)
    BY <1>4, <1>a DEF Ask, OneOff
  <2>2. session[s] # None /\ ~session[s].restricted
    BY <1>4 DEF Ask
  <2>3. session[s].user # v
    BY <2>1, <2>2 DEF Restrained
  <2> QED
    BY <1>4, <2>1, <2>3 DEF Ask, Restrained, TypeOK
<1>5. CASE ChangeCommit(r)
  <2>1. req[r] # None /\ req[r].kind = "change" /\ req[r] \in ChangeReq
    BY <1>5, RequestFields DEF ChangeCommit
  <2>2. req[r].user \in Users /\ req[r].session \in Sessions /\ req[r].mustChange \in BOOLEAN
    BY <2>1 DEF ChangeReq
  <2>3. CASE user[req[r].user] = None
    <3>1. /\ session' = Released(req[r].session, r) /\ UNCHANGED <<user, account, grant>>
          /\ \A q \in Requests : req'[q] \in {None, req[q]}
      BY <1>5, <2>3 DEF ChangeCommit, TypeOK
    <3>2. Restrained(v)
      BY <3>1, <1>a DEF OneOff
    <3> QED
      BY <2>2, <3>1, <3>2, ReleasedRestrained
  <2>4. CASE user[req[r].user] # None
    <3>1. /\ user' = [user EXCEPT ![req[r].user] =
                       [key |-> req[r].key,
                        mustChange |-> IF req[r].mustChange THEN FALSE
                                       ELSE user[req[r].user].mustChange]]
          /\ req' = [req EXCEPT ![r].kind = "changed"]
          /\ UNCHANGED <<session, account, grant>>
      BY <1>5, <2>4 DEF ChangeCommit
    <3>2. CASE v = req[r].user
      <4>1. user'[v].mustChange = IF req[r].mustChange THEN FALSE ELSE user[v].mustChange
        BY <3>1, <3>2, <2>2 DEF TypeOK
      <4>2. ~req[r].mustChange /\ user[v].mustChange
        BY <4>1, <2>2
      <4>3. Restrained(v)
        BY <4>2, <2>4, <3>2, <1>a DEF OneOff
      <4> QED
        BY <4>2, <4>3, <2>1, <3>2 DEF Restrained
    <3>3. CASE v # req[r].user
      <4>1. Restrained(v)
        BY <3>1, <3>3, <1>a DEF OneOff, TypeOK
      <4>2. req'[r].user = req[r].user /\ \A q \in Requests : q # r => req'[q] = req[q]
        BY <3>1, <2>1 DEF ChangeReq, TypeOK
      <4> QED
        BY <3>1, <3>3, <4>1, <4>2 DEF Restrained
    <3> QED
      BY <3>2, <3>3
  <2> QED
    BY <2>3, <2>4
<1>6. CASE ChangeUpdate(r)
  <2>1. /\ req[r] # None /\ req[r].kind = "changed" /\ req[r] \in ChangeReq
        /\ UNCHANGED <<user, account, grant>>
        /\ \A q \in Requests : req'[q] \in {None, req[q]}
    BY <1>6, RequestFields DEF ChangeUpdate, TypeOK
  <2>2. /\ Restrained(v) /\ req[r].session \in Sessions
        /\ session[req[r].session] # None /\ session[req[r].session].user = req[r].user
    BY <2>1, <1>a DEF OneOff, ChangeReq, Rooted, Keeps
  <2>3. req[r].user # v
    BY <2>1, <2>2 DEF Restrained
  <2>4. CASE session[req[r].session].listed
    <3>1. session' = [session EXCEPT ![req[r].session].key = req[r].key,
                                     ![req[r].session].restricted = FALSE]
      BY <1>6, <2>4 DEF ChangeUpdate
    <3>2. session' = [session EXCEPT ![req[r].session] =
                        [session[req[r].session] EXCEPT !.key = req[r].key,
                                                        !.restricted = FALSE]]
      BY <3>1, <2>2 DEF TypeOK
    <3>3. session[req[r].session] \in Entry
      BY <2>2, SessionFields
    <3>4. session'[req[r].session].user = req[r].user
      BY <2>2, <3>2, <3>3 DEF Entry, TypeOK
    <3>5. \A t \in Sessions : t # req[r].session => session'[t] = session[t]
      BY <3>2 DEF TypeOK
    <3> QED
      BY <2>1, <2>2, <2>3, <3>4, <3>5 DEF Restrained
  <2>5. CASE ~session[req[r].session].listed
    <3>1. session' = Released(req[r].session, r)
      BY <1>6, <2>5 DEF ChangeUpdate
    <3> QED
      BY <2>1, <2>2, <3>1, ReleasedRestrained
  <2> QED
    BY <2>4, <2>5
<1>7. CASE Refused(r)
  <2>1. req[r].session \in Sessions /\ Restrained(v)
    BY <1>7, <1>a, RequestFields DEF Refused, AskReq, OneOff
  <2> QED
    BY <1>7, <2>1, ReleasedRestrained DEF Refused, TypeOK
<1>8. CASE Seal(r)
  <2>1. /\ req[r] # None /\ req[r].kind = "ask" /\ req[r].session \in Sessions /\ Restrained(v)
    BY <1>8, <1>a, RequestFields DEF Seal, AskReq, OneOff
  <2>2. req[r].user # v
    BY <2>1 DEF Restrained
  <2>3. /\ req'[r].user = req[r].user /\ \A q \in Requests : q # r => req'[q] = req[q]
        /\ UNCHANGED <<account, grant>> /\ session' = Released(req[r].session, r)
    BY <1>8 DEF Seal, TypeOK
  <2>4. \A s \in Sessions : session'[s] \in {None, session[s]}
    BY <2>1, <2>3 DEF Released, TypeOK
  <2> QED
    BY <2>1, <2>2, <2>3, <2>4 DEF Restrained
<1>9. ASSUME NEW a \in Accounts, StoreAccount(r, a) PROVE Restrained(v)'
  <2>1. Restrained(v) /\ req[r].user # v
    BY <1>9, <1>a DEF StoreAccount, OneOff, Restrained
  <2> QED
    BY <1>9, <2>1 DEF StoreAccount, Restrained, TypeOK
<1>10. ASSUME NEW g \in Grants, StoreGrant(r, g) PROVE Restrained(v)'
  <2>1. Restrained(v) /\ req[r].user # v
    BY <1>10, <1>a DEF StoreGrant, OneOff, Restrained
  <2>2. grant'[g].user = req[r].user
    BY <1>10 DEF StoreGrant, TypeOK
  <2>3. /\ \A h \in Grants : h # g => grant'[h] = grant[h]
        /\ \A q \in Requests : req'[q] \in {None, req[q]}
        /\ UNCHANGED <<session, account>>
    BY <1>10 DEF StoreGrant, TypeOK
  <2> QED
    BY <2>1, <2>2, <2>3 DEF Restrained
<1> QED
  BY <1>1, <1>2, <1>3, <1>4, <1>5, <1>6, <1>7, <1>8, <1>9, <1>10 DEF Serving

LEMMA OtherOneOff ==
  ASSUME TypeOK, OneOff,
         \/ \E s \in Sessions : EndSession(s)
         \/ Restart
         \/ \E a \in Accounts : DeleteAccount(a)
         \/ \E g \in Grants : Revoke(g)
  PROVE  OneOff'
<1>1. ASSUME NEW s \in Sessions, EndSession(s) PROVE OneOff'
  <2>1. session[s] \in Entry
    BY <1>1, SessionFields DEF EndSession
  <2>2. /\ [session[s] EXCEPT !.listed = FALSE].user = session[s].user
        /\ [session[s] EXCEPT !.listed = FALSE].restricted = session[s].restricted
    BY <2>1 DEF Entry
  <2>3. \A t \in Sessions :
          session'[t] # None => /\ session[t] # None
                                /\ session'[t].user = session[t].user
                                /\ session'[t].restricted = session[t].restricted
    BY <1>1, <2>2 DEF EndSession, TypeOK
  <2> QED
    BY <1>1, <2>3 DEF EndSession, OneOff, Restrained
<1>2. CASE Restart
  BY <1>2 DEF Restart, OneOff, Restrained
<1>3. ASSUME NEW a \in Accounts, DeleteAccount(a) PROVE OneOff'
  BY <1>3 DEF DeleteAccount, OneOff, Restrained, TypeOK
<1>4. ASSUME NEW g \in Grants, Revoke(g) PROVE OneOff'
  BY <1>4 DEF Revoke, OneOff, Restrained, TypeOK
<1> QED
  BY <1>1, <1>2, <1>3, <1>4

LEMMA OneOffStep == TypeOK /\ Rooted /\ KeysAgree /\ OneOff /\ [Next]_vars => OneOff'
<1> SUFFICES ASSUME TypeOK, Rooted, KeysAgree, OneOff, [Next]_vars PROVE OneOff'
  OBVIOUS
<1>1. CASE UNCHANGED vars
  BY <1>1 DEF vars, OneOff, Restrained
<1>2. CASE Next
  BY <1>2, AdministrationOneOff, ServingOneOff, OtherOneOff DEF Next
<1> QED
  BY <1>1, <1>2

(* Nothing is sealed behind a one-off password (deps.get_unrestricted_     *)
(* session, admin.py), however logins, changes of password and resets      *)
(* overlap.                                                                *)
THEOREM NothingBehindOneOff == Spec => []OneOffGuardsNothing
<1>1. Init => KeysAgree /\ OneOff
  BY DEF Init, KeysAgree, OneOff
<1>2. OneOff => OneOffGuardsNothing
  BY DEF OneOff, OneOffGuardsNothing, Restrained, AccountsOf, GrantsOf
<1>3. Spec => [](TypeOK /\ Rooted /\ KeysAgree /\ OneOff)
  BY <1>1, TypeInit, TypeStep, RootedStep, AgreeStep, OneOffStep, PTL DEF Spec
<1> QED
  BY <1>2, <1>3, PTL
=============================================================================
