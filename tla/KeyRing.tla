------------------------------- MODULE KeyRing -------------------------------
(***************************************************************************)
(* Who holds a user's data key.  A user row wraps the key under the        *)
(* password; a login puts a copy in a server-side session, and the session *)
(* seals CalDAV passwords, API tokens and shares under it                  *)
(* (src/webcaldav/routers/auth.py, caldav_accounts.py, api_tokens.py,      *)
(* shares.py, session.py).  The administrator's commands replace or remove *)
(* the key from a process of their own (admin.py).  Every await between    *)
(* what a handler reads and what it writes is a step boundary here.        *)
(* Passwords are left out: a wrong one is an answer that changes nothing.  *)
(***************************************************************************)
EXTENDS Integers

CONSTANTS Users,        \* row ids of users
          Sessions, Requests,
          Accounts,     \* rows of CalDAV accounts
          Grants,       \* rows of API tokens and shares
          None,         \* an absent row, a free slot
          MaxKeys       \* bound: data keys generated

Key == Nat

(* A user row: the key its password opens, and whether that is a one-off.  *)
User == [key : Key, mustChange : BOOLEAN]

(* A session entry.  Handlers keep the object itself, so that one removed  *)
(* from the store (not listed) lives on in the requests that hold it.      *)
Entry == [user : Users, key : Key, restricted : BOOLEAN, listed : BOOLEAN]

Account == [user : Users, key : Key]
Grant == [user : Users, key : Key, kind : {"token", "share"}]

(* A request between two of its steps, by what it has captured: a login or *)
(* a change of password the user row, a sealing request the session and    *)
(* then the key it sealed with.                                            *)
LoginReq == [kind : {"login"}, user : Users, key : Key, mustChange : BOOLEAN]
ChangeReq == [kind : {"change", "changed"}, user : Users, session : Sessions,
              key : Key, mustChange : BOOLEAN]
AskReq == [kind : {"ask"}, user : Users, session : Sessions,
           what : {"account", "token", "share"}]
SealedReq == [kind : {"sealed"}, user : Users, key : Key,
              what : {"account", "token", "share"}]

Req == LoginReq \cup ChangeReq \cup AskReq \cup SealedReq

(* A reset that has read the rows it is going to delete.                   *)
Reset == [user : Users, accounts : SUBSET Accounts, tokens : SUBSET Grants]

ASSUME KeyRingAssumption ==
  /\ MaxKeys \in Nat
  /\ None \notin User \cup Entry \cup Account \cup Grant \cup Req \cup Reset

VARIABLES user, session, account, grant,
          req,          \* the request under way in each slot
          admin,        \* the reset under way in the administrator's process
          keys,         \* data keys generated so far; key k is the k-th
          strained      \* observed: users whose key was replaced or removed while
                        \* something else still held it

vars == <<user, session, account, grant, req, admin, keys, strained>>

Init ==
  /\ user = [u \in Users |-> None]
  /\ session = [s \in Sessions |-> None]
  /\ account = [a \in Accounts |-> None]
  /\ grant = [g \in Grants |-> None]
  /\ req = [r \in Requests |-> None]
  /\ admin = None
  /\ keys = 0
  /\ strained = {}

-----------------------------------------------------------------------------
(* The administrator's commands.                                           *)

CreateUser(u) ==
  /\ user[u] = None /\ keys < MaxKeys
  /\ keys' = keys + 1
  /\ user' = [user EXCEPT ![u] = [key |-> keys + 1, mustChange |-> TRUE]]
  /\ UNCHANGED <<session, account, grant, req, admin, strained>>

AccountsOf(u) == {a \in Accounts : account[a] # None /\ account[a].user = u}
GrantsOf(u) == {g \in Grants : grant[g] # None /\ grant[g].user = u}
TokensOf(u) == {g \in GrantsOf(u) : grant[g].kind = "token"}

Without(f, S) == [x \in DOMAIN f |-> IF x \in S THEN None ELSE f[x]]

(* Does nobody hold a key of the user once these rows are deleted?         *)
Quiet(u, accounts, grants) ==
  /\ AccountsOf(u) \subseteq accounts /\ GrantsOf(u) \subseteq grants
  /\ \A s \in Sessions : session[s] # None => session[s].user # u
  /\ \A r \in Requests : req[r] # None => req[r].user # u

Strain(u, accounts, grants) ==
  strained' = IF Quiet(u, accounts, grants) THEN strained \ {u} ELSE strained \cup {u}

(* A reset reads the accounts and tokens, and derives the new password's   *)
(* key before it commits.                                                  *)
ResetRead(u) ==
  /\ admin = None /\ user[u] # None
  /\ admin' = [user |-> u, accounts |-> AccountsOf(u), tokens |-> TokensOf(u)]
  /\ UNCHANGED <<user, session, account, grant, req, keys, strained>>

(* Mutant: the accounts read are not deleted.                              *)
ResetCommit_KeepsAccounts ==
  /\ admin # None /\ keys < MaxKeys
  /\ admin' = None
  /\ IF user[admin.user] = None
     THEN UNCHANGED <<user, account, grant, keys, strained>>
     ELSE /\ keys' = keys + 1
          /\ user' = [user EXCEPT ![admin.user] = [key |-> keys + 1, mustChange |-> TRUE]]
          /\ grant' = Without(grant, admin.tokens)
          /\ Strain(admin.user, admin.accounts, admin.tokens)
          /\ UNCHANGED account
  /\ UNCHANGED <<session, req>>

(* The rows read are deleted and the user gets a new key behind a one-off  *)
(* password.  Shares are not deleted, nor is any session: they keep the    *)
(* old key.  A row that is gone fails the commit.                          *)
ResetCommit ==
  /\ admin # None /\ keys < MaxKeys
  /\ admin' = None
  /\ IF user[admin.user] = None
     THEN UNCHANGED <<user, account, grant, keys, strained>>
     ELSE /\ keys' = keys + 1
          /\ user' = [user EXCEPT ![admin.user] = [key |-> keys + 1, mustChange |-> TRUE]]
          /\ account' = Without(account, admin.accounts)
          /\ grant' = Without(grant, admin.tokens)
          /\ Strain(admin.user, admin.accounts, admin.tokens)
  /\ UNCHANGED <<session, req>>

(* Deletes the user's accounts, tokens and shares with it.                 *)
DeleteUser(u) ==
  /\ user[u] # None
  /\ user' = [user EXCEPT ![u] = None]
  /\ account' = Without(account, AccountsOf(u))
  /\ grant' = Without(grant, GrantsOf(u))
  /\ Strain(u, AccountsOf(u), GrantsOf(u))
  /\ UNCHANGED <<session, req, admin, keys>>

-----------------------------------------------------------------------------
(* Sessions.                                                               *)

LoginRead(r, u) ==
  /\ req[r] = None /\ user[u] # None
  /\ req' = [req EXCEPT ![r] = [kind |-> "login", user |-> u, key |-> user[u].key,
                                mustChange |-> user[u].mustChange]]
  /\ UNCHANGED <<user, session, account, grant, admin, keys, strained>>

LoginCreate(r, s) ==
  /\ req[r] # None /\ req[r].kind = "login" /\ session[s] = None
  /\ session' = [session EXCEPT ![s] =
       [user |-> req[r].user, key |-> req[r].key,
        restricted |-> req[r].mustChange, listed |-> TRUE]]
  /\ req' = [req EXCEPT ![r] = None]
  /\ UNCHANGED <<user, account, grant, admin, keys, strained>>

(* The requests that keep the entry.                                       *)
Keepers(s) ==
  {r \in Requests : /\ req[r] # None /\ req[r].kind \in {"change", "changed", "ask"}
                    /\ req[r].session = s}

(* What is left of the sessions when r lets go of the entry.               *)
Released(s, r) ==
  IF session[s].listed \/ Keepers(s) \ {r} # {} THEN session
  ELSE [session EXCEPT ![s] = None]

(* A logout, or the idle timeout, takes the entry out of the store.        *)
EndSession(s) ==
  /\ session[s] # None /\ session[s].listed
  /\ session' = IF Keepers(s) # {}
                THEN [session EXCEPT ![s].listed = FALSE]
                ELSE [session EXCEPT ![s] = None]
  /\ UNCHANGED <<user, account, grant, req, admin, keys, strained>>

(* The web process restarts; sessions are in its memory only.              *)
Restart ==
  /\ session' = [s \in Sessions |-> None]
  /\ req' = [r \in Requests |-> None]
  /\ UNCHANGED <<user, account, grant, admin, keys, strained>>

-----------------------------------------------------------------------------
(* A change of password.                                                   *)

ChangeRead(r, s) ==
  /\ req[r] = None /\ session[s] # None /\ session[s].listed
  /\ LET u == session[s].user
     IN  /\ user[u] # None
         /\ req' = [req EXCEPT ![r] = [kind |-> "change", user |-> u, session |-> s,
                                       key |-> user[u].key,
                                       mustChange |-> user[u].mustChange]]
  /\ UNCHANGED <<user, session, account, grant, admin, keys, strained>>

(* Writes the key it read under the new password; the one-off mark only if *)
(* it read it set, since an unchanged column is not written.  A user that  *)
(* is gone fails the commit.                                               *)
ChangeCommit(r) ==
  /\ req[r] # None /\ req[r].kind = "change"
  /\ LET u == req[r].user
     IN  IF user[u] = None
         THEN /\ req' = [req EXCEPT ![r] = None]
              /\ session' = Released(req[r].session, r)
              /\ UNCHANGED user
         ELSE /\ user' = [user EXCEPT ![u] =
                            [key |-> req[r].key,
                             mustChange |-> IF req[r].mustChange THEN FALSE ELSE @.mustChange]]
              /\ req' = [req EXCEPT ![r].kind = "changed"]
              /\ UNCHANGED session
  /\ UNCHANGED <<account, grant, admin, keys, strained>>

(* After the commit the session, if it is still in the store, gets the key *)
(* and its freedom.                                                        *)
ChangeUpdate(r) ==
  /\ req[r] # None /\ req[r].kind = "changed"
  /\ LET s == req[r].session
     IN  session' = IF session[s].listed
                    THEN [session EXCEPT ![s].key = req[r].key, ![s].restricted = FALSE]
                    ELSE Released(s, r)
  /\ req' = [req EXCEPT ![r] = None]
  /\ UNCHANGED <<user, account, grant, admin, keys, strained>>

-----------------------------------------------------------------------------
(* What a session seals: the password of an account once its server has    *)
(* been asked for calendars, a token or a share once its calendars have    *)
(* been read.                                                              *)

(* Mutant: any session may seal.                                           *)
Ask_Restricted(r, s, what) ==
  /\ req[r] = None /\ session[s] # None /\ session[s].listed
  /\ req' = [req EXCEPT ![r] = [kind |-> "ask", user |-> session[s].user,
                                session |-> s, what |-> what]]
  /\ UNCHANGED <<user, session, account, grant, admin, keys, strained>>

Ask(r, s, what) ==
  /\ req[r] = None /\ session[s] # None /\ session[s].listed
  /\ ~session[s].restricted
  /\ req' = [req EXCEPT ![r] = [kind |-> "ask", user |-> session[s].user,
                                session |-> s, what |-> what]]
  /\ UNCHANGED <<user, session, account, grant, admin, keys, strained>>

(* The server cannot be reached, or a calendar is not the user's: an error.*)
Refused(r) ==
  /\ req[r] # None /\ req[r].kind = "ask"
  /\ req' = [req EXCEPT ![r] = None]
  /\ session' = Released(req[r].session, r)
  /\ UNCHANGED <<user, account, grant, admin, keys, strained>>

Seal(r) ==
  /\ req[r] # None /\ req[r].kind = "ask"
  /\ req' = [req EXCEPT ![r] = [kind |-> "sealed", user |-> req[r].user,
                                key |-> session[req[r].session].key, what |-> req[r].what]]
  /\ session' = Released(req[r].session, r)
  /\ UNCHANGED <<user, account, grant, admin, keys, strained>>

(* Mutant: the row is committed before its password is sealed.             *)
StoreAccount_Unsealed(r, a) ==
  /\ req[r] # None /\ req[r].kind = "sealed" /\ req[r].what = "account"
  /\ account[a] = None
  /\ account' = [account EXCEPT ![a] = [user |-> req[r].user, key |-> None]]
  /\ req' = [req EXCEPT ![r] = None]
  /\ UNCHANGED <<user, session, grant, admin, keys, strained>>

StoreAccount(r, a) ==
  /\ req[r] # None /\ req[r].kind = "sealed" /\ req[r].what = "account"
  /\ account[a] = None
  /\ account' = [account EXCEPT ![a] = [user |-> req[r].user, key |-> req[r].key]]
  /\ req' = [req EXCEPT ![r] = None]
  /\ UNCHANGED <<user, session, grant, admin, keys, strained>>

StoreGrant(r, g) ==
  /\ req[r] # None /\ req[r].kind = "sealed" /\ req[r].what \in {"token", "share"}
  /\ grant[g] = None
  /\ grant' = [grant EXCEPT ![g] = [user |-> req[r].user, key |-> req[r].key,
                                    kind |-> req[r].what]]
  /\ req' = [req EXCEPT ![r] = None]
  /\ UNCHANGED <<user, session, account, admin, keys, strained>>

(* Its owner, in an unrestricted session, removes an account or revokes a  *)
(* token or a share.                                                       *)
FreeSession(u) ==
  \E s \in Sessions : /\ session[s] # None /\ session[s].listed
                      /\ session[s].user = u /\ ~session[s].restricted

DeleteAccount(a) ==
  /\ account[a] # None /\ FreeSession(account[a].user)
  /\ account' = [account EXCEPT ![a] = None]
  /\ UNCHANGED <<user, session, grant, req, admin, keys, strained>>

Revoke(g) ==
  /\ grant[g] # None /\ FreeSession(grant[g].user)
  /\ grant' = [grant EXCEPT ![g] = None]
  /\ UNCHANGED <<user, session, account, req, admin, keys, strained>>

-----------------------------------------------------------------------------

Administration ==
  \/ \E u \in Users : CreateUser(u) \/ ResetRead(u) \/ DeleteUser(u)
  \/ ResetCommit

Serving(r) ==
  \/ \E u \in Users : LoginRead(r, u)
  \/ \E s \in Sessions :
       \/ LoginCreate(r, s) \/ ChangeRead(r, s)
       \/ \E what \in {"account", "token", "share"} : Ask(r, s, what)
  \/ ChangeCommit(r) \/ ChangeUpdate(r) \/ Refused(r) \/ Seal(r)
  \/ \E a \in Accounts : StoreAccount(r, a)
  \/ \E g \in Grants : StoreGrant(r, g)

Next ==
  \/ Administration
  \/ \E r \in Requests : Serving(r)
  \/ \E s \in Sessions : EndSession(s)
  \/ Restart
  \/ \E a \in Accounts : DeleteAccount(a)
  \/ \E g \in Grants : Revoke(g)

Spec == Init /\ [][Next]_vars

-----------------------------------------------------------------------------

TypeOK ==
  /\ user \in [Users -> User \cup {None}]
  /\ session \in [Sessions -> Entry \cup {None}]
  /\ account \in [Accounts -> Account \cup {None}]
  /\ grant \in [Grants -> Grant \cup {None}]
  /\ req \in [Requests -> Req \cup {None}]
  /\ admin \in Reset \cup {None}
  /\ keys \in Nat
  /\ strained \subseteq Users

(* Everything sealed for a user, every session and every request under way *)
(* holds the very key the user's password opens, whatever logins, changes  *)
(* of password, sealings and resets overlap - unless the key was replaced  *)
(* or removed while something still held the old one (admin.py leaves      *)
(* sessions, requests under way and shares alone).  It is what makes each  *)
(* account password, token and share readable at all.                      *)
HoldsKey(u, k) == user[u] # None /\ user[u].key = k

KeysAgree ==
  /\ \A s \in Sessions :
       session[s] # None /\ session[s].user \notin strained
         => HoldsKey(session[s].user, session[s].key)
  /\ \A a \in Accounts :
       account[a] # None /\ account[a].user \notin strained
         => HoldsKey(account[a].user, account[a].key)
  /\ \A g \in Grants :
       grant[g] # None /\ grant[g].user \notin strained
         => HoldsKey(grant[g].user, grant[g].key)
  /\ \A r \in Requests :
       req[r] # None /\ req[r].kind # "ask" /\ req[r].user \notin strained
         => HoldsKey(req[r].user, req[r].key)

(* As long as a user has a one-off password nothing is sealed behind it:   *)
(* neither an account nor a token nor a share (deps.get_unrestricted_      *)
(* session: the password has to be changed first) - with the same          *)
(* exception.                                                              *)
OneOffGuardsNothing ==
  \A u \in Users \ strained :
    user[u] # None /\ user[u].mustChange => AccountsOf(u) = {} /\ GrantsOf(u) = {}
=============================================================================
