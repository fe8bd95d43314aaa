-------------------------- MODULE IdleLogoutProofs --------------------------
(***************************************************************************)
(* Proofs about IdleLogout, for any browsers, tabs, sessions and limits.   *)
(***************************************************************************)
EXTENDS IdleLogout, TLAPS

(* The operations of the store return a store, whatever the cookie holds.  *)
LEMMA StoreOps ==
  ASSUME TypeOK, NEW s \in Sessions \cup {None}
  PROVE  /\ Without(s) \in [Sessions -> Entry \cup {None}]
         /\ Got(s) \in [Sessions -> Entry \cup {None}]
         /\ Peeked(s) \in [Sessions -> Entry \cup {None}]
<1>1. Without(s) \in [Sessions -> Entry \cup {None}]
  BY DEF TypeOK, Without
<1>2. ASSUME Live(s) PROVE [sessions EXCEPT ![s].age = 0] \in [Sessions -> Entry \cup {None}]
  <2>1. sessions[s] \in Entry
    BY <1>2 DEF TypeOK, Live
  <2>2. [sessions[s] EXCEPT !.age = 0] \in Entry
    BY <2>1, IdleAssumption DEF Entry
  <2> QED
    BY <2>2, <1>2 DEF TypeOK, Live
<1> QED
  BY <1>1, <1>2 DEF Got, Peeked, TypeOK

(* The status of a session is well formed: it never shows less than zero   *)
(* seconds, so the clamp in SessionStore.status is never needed.           *)
LEMMA StatusTyped ==
  ASSUME TypeOK, NEW s \in Sessions \cup {None}
  PROVE  StatusOf(s) \in Status
<1>1. CASE ~Live(s)
  BY <1>1 DEF StatusOf, Status
<1>2. CASE Live(s)
  <2>1. sessions[s] \in Entry /\ sessions[s] # None
    BY <1>2 DEF Live, TypeOK
  <2>2. CASE sessions[s].limit = Never
    BY <1>2, <2>2 DEF StatusOf, Status
  <2>3. CASE sessions[s].limit # Never
    <3>0. sessions[s].limit \in Limits /\ sessions[s].age \in 0 .. Cap
      BY <2>1 DEF Entry
    <3>a. sessions[s].limit \in Nat
      <4>1. Timeouts \subseteq Nat
        BY IdleAssumption
      <4>2. sessions[s].limit \in Timeouts
        BY <3>0, <2>3 DEF Limits
      <4> QED
        BY <4>1, <4>2
    <3>b. sessions[s].age \in Nat
      BY <3>0, IdleAssumption
    <3>1. sessions[s].limit \in Nat /\ sessions[s].age \in Nat
      BY <3>a, <3>b
    <3>2. sessions[s].age <= sessions[s].limit
      BY <1>2, <2>1, <2>3, <3>1 DEF Live, Expired
    <3>3. sessions[s].limit - sessions[s].age \in Nat
      BY <3>1, <3>2
    <3> QED
      BY <1>2, <2>3, <3>3 DEF StatusOf, Status
  <2> QED
    BY <2>2, <2>3
<1> QED
  BY <1>1, <1>2

LEMMA PagesTyped ==
  ASSUME TypeOK, NEW t \in Tab, ShowApp(t) \/ ShowLogin(t)
  PROVE  /\ page' \in [Tab -> {"login", "app", "stopped", "leaving"}]
         /\ left' \in [Tab -> Nat \cup {None}]
         /\ answer' \in [Tab -> Status \cup {None}]
         /\ poll' \in [Tab -> 0 .. PollEvery]
<1> USE IdleAssumption DEF TypeOK
<1>1. CASE ShowApp(t)
  <2>1. (IF settings.enabled THEN settings.timeout ELSE None) \in Nat \cup {None}
    BY DEF Settings
  <2> QED
    BY <1>1, <2>1 DEF ShowApp
<1>2. CASE ShowLogin(t)
  BY <1>2 DEF ShowLogin
<1> QED
  BY <1>1, <1>2

LEMMA LimitTyped ==
  ASSUME NEW st \in Settings
  PROVE  [age |-> 0, limit |-> LimitOf(st)] \in Entry
BY IdleAssumption DEF Settings, LimitOf, Limits, Entry

LEMMA CookieTyped ==
  ASSUME TypeOK, NEW t \in Tab
  PROVE  t[1] \in Browsers /\ cookie[t[1]] \in Sessions \cup {None}
BY DEF Tab, TypeOK

LEMMA BeginsTyped ==
  ASSUME TypeOK, NEW t \in Tab, NEW request \in LoginRequest \cup SaveRequest,
         Begins(t, request)
  PROVE  /\ pending' \in [Tab -> LoginRequest \cup SaveRequest \cup {None}]
         /\ mixed' \in BOOLEAN
BY DEF TypeOK, Begins

(* A user's acts keep the types.                                           *)
LEMMA UserTyped ==
  ASSUME TypeOK, NEW t \in Tab, User(t)
  PROVE  TypeOK'
<1>a. t[1] \in Browsers /\ cookie[t[1]] \in Sessions \cup {None}
  BY CookieTyped
<1>b. /\ Without(cookie[t[1]]) \in [Sessions -> Entry \cup {None}]
      /\ Got(cookie[t[1]]) \in [Sessions -> Entry \cup {None}]
  BY <1>a, StoreOps
<1>c. ASSUME Act PROVE acts' \in 0 .. MaxActs
  BY <1>c, IdleAssumption DEF Act, TypeOK
<1>1. CASE Open(t)
  BY <1>1, <1>b, <1>c, PagesTyped DEF Open, Load, requestVars, TypeOK
<1>2. CASE LoginRead(t)
  <2>1. [op |-> "login", row |-> settings] \in LoginRequest \cup SaveRequest
    BY DEF LoginRequest, TypeOK
  <2> QED
    BY <1>2, <2>1, <1>c, BeginsTyped DEF LoginRead, tabVars, TypeOK
<1>3. CASE Work(t)
  BY <1>3, <1>b, <1>c DEF Work, tabVars, requestVars, TypeOK
<1>4. CASE SaveSettings(t)
  <2>1. PICK c \in Choices :
          Begins(t, [op |-> "save", step |-> "read", session |-> cookie[t[1]], row |-> None,
                     new |-> [c EXCEPT !.enabled = @ /\ ~c.notify]])
    BY <1>4 DEF SaveSettings
  <2>2. [c EXCEPT !.enabled = @ /\ ~c.notify] \in Settings
    BY IdleAssumption DEF Settings
  <2>3. cookie[t[1]] \in Sessions
    BY <1>4 DEF SaveSettings, Live
  <2>4. [op |-> "save", step |-> "read", session |-> cookie[t[1]], row |-> None,
         new |-> [c EXCEPT !.enabled = @ /\ ~c.notify]] \in LoginRequest \cup SaveRequest
    BY <2>2, <2>3 DEF SaveRequest
  <2>5. /\ pending' \in [Tab -> LoginRequest \cup SaveRequest \cup {None}]
        /\ mixed' \in BOOLEAN
    BY <2>1, <2>4, BeginsTyped
  <2> QED
    BY <1>4, <2>5, <1>b, <1>c DEF SaveSettings, tabVars, TypeOK
<1>5. CASE Logout(t)
  BY <1>5, <1>a, <1>b, <1>c, PagesTyped DEF Logout, EndSession, requestVars, TypeOK
<1>6. CASE LogoutFailed(t)
  BY <1>6, <1>b, <1>c, IdleAssumption DEF LogoutFailed, requestVars, TypeOK
<1> QED
  BY <1>1, <1>2, <1>3, <1>4, <1>5, <1>6 DEF User

LEMMA SavingTyped ==
  ASSUME TypeOK, NEW t \in Tab, Saving(t)
  PROVE  pending[t] \in SaveRequest
BY DEF TypeOK, Saving, Idle, LoginRequest

(* So do the steps of the handlers of logins and saves.                    *)
LEMMA HandlerTyped ==
  ASSUME TypeOK, NEW t \in Tab, Handler(t)
  PROVE  TypeOK'
<1>a. t[1] \in Browsers /\ cookie[t[1]] \in Sessions \cup {None}
  BY CookieTyped
<1>1. CASE Login(t)
  <2>1. pending[t] \in LoginRequest
    BY <1>1 DEF Login, Idle, Saving, TypeOK, SaveRequest
  <2>2. [age |-> 0, limit |-> LimitOf(pending[t].row)] \in Entry
    BY <2>1, LimitTyped DEF LoginRequest
  <2>3. sessions' \in [Sessions -> Entry \cup {None}] /\ cookie' \in [Browsers -> Sessions \cup {None}]
    BY <1>1, <2>2, <1>a DEF Login, TypeOK
  <2> QED
    BY <1>1, <2>3, PagesTyped DEF Login, Ends, Continues, TypeOK
<1>2. CASE SaveRead(t)
  <2>1. pending[t] \in SaveRequest
    BY <1>2, SavingTyped DEF SaveRead
  <2>2. [pending[t] EXCEPT !.step = "commit", !.row = settings] \in SaveRequest
    BY <2>1 DEF SaveRequest, TypeOK
  <2> QED
    BY <1>2, <2>2 DEF SaveRead, Continues, tabVars, TypeOK
<1>3. CASE SaveCommit(t)
  <2>1. pending[t] \in SaveRequest
    BY <1>3, SavingTyped DEF SaveCommit
  <2>2. [pending[t] EXCEPT !.step = "apply"] \in SaveRequest
    BY <2>1 DEF SaveRequest
  <2>3. settings' \in Settings
    BY <1>3, <2>1 DEF SaveCommit, Committed, SaveRequest, Settings, TypeOK
  <2> QED
    BY <1>3, <2>2, <2>3 DEF SaveCommit, Continues, tabVars, TypeOK
<1>4. CASE SaveApply(t)
  <2>1. pending[t] \in SaveRequest
    BY <1>4, SavingTyped DEF SaveApply
  <2>2. LimitOf(pending[t].new) \in Limits
    BY <2>1 DEF SaveRequest, Settings, LimitOf, Limits
  <2>3. ASSUME NEW s \in Sessions, sessions[s] # None
        PROVE  [sessions[s] EXCEPT !.limit = LimitOf(pending[t].new)] \in Entry
    BY <2>2, <2>3 DEF TypeOK, Entry
  <2>4. sessions' \in [Sessions -> Entry \cup {None}]
    <3> DEFINE s == pending[t].session
               l == LimitOf(pending[t].new)
    <3>1. s \in Sessions
      BY <2>1 DEF SaveRequest
    <3>2. sessions' = IF sessions[s] = None THEN sessions ELSE [sessions EXCEPT ![s].limit = l]
      BY <1>4 DEF SaveApply
    <3>3. sessions[s] # None => [sessions[s] EXCEPT !.limit = l] \in Entry
      BY <2>3, <3>1
    <3> HIDE DEF s, l
    <3> QED
      BY <3>1, <3>2, <3>3 DEF TypeOK
  <2>5. poll' \in [Tab -> 0 .. PollEvery]
    BY <1>4, IdleAssumption DEF SaveApply, TypeOK
  <2>6. pending' \in [Tab -> LoginRequest \cup SaveRequest \cup {None}] /\ mixed' = mixed
    BY <1>4 DEF SaveApply, Ends, Continues, TypeOK
  <2> QED
    BY <1>4, <2>4, <2>5, <2>6 DEF SaveApply, TypeOK
<1> QED
  BY <1>1, <1>2, <1>3, <1>4 DEF Handler

(* So do the steps of the countdown.                                       *)
LEMMA CountdownTyped ==
  ASSUME TypeOK, NEW t \in Tab, Countdown(t)
  PROVE  TypeOK'
<1>a. t[1] \in Browsers /\ cookie[t[1]] \in Sessions \cup {None}
  BY CookieTyped
<1>b. /\ Without(cookie[t[1]]) \in [Sessions -> Entry \cup {None}]
      /\ Got(cookie[t[1]]) \in [Sessions -> Entry \cup {None}]
      /\ Peeked(cookie[t[1]]) \in [Sessions -> Entry \cup {None}]
  BY <1>a, StoreOps
<1>c. ASSUME Act PROVE acts' \in 0 .. MaxActs
  BY <1>c, IdleAssumption DEF Act, TypeOK
<1>1. CASE Poll(t)
  <2>1. StatusOf(cookie[t[1]]) \in Status
    BY <1>a, StatusTyped
  <2> QED
    BY <1>1, <2>1, <1>b, IdleAssumption DEF Poll, requestVars, TypeOK
<1>2. CASE Answer(t)
  <2>1. answer[t] \in Status
    BY <1>2 DEF Answer, TypeOK
  <2>2. answer[t].left \in Nat \cup {None}
    BY <2>1 DEF Status
  <2> QED
    BY <1>2, <2>2 DEF Answer, requestVars, TypeOK
<1>3. CASE AnswerLost(t)
  BY <1>3, <1>c DEF AnswerLost, requestVars, TypeOK
<1>4. CASE AutoLogout(t)
  BY <1>4, <1>a, <1>b, PagesTyped DEF AutoLogout, EndSession, requestVars, TypeOK
<1>5. CASE LogoutLost(t)
  BY <1>5, <1>b, <1>c, PagesTyped DEF LogoutLost, Load, requestVars, TypeOK
<1> QED
  BY <1>1, <1>2, <1>3, <1>4, <1>5 DEF Countdown

(* So does the passing of time, to any set of tabs.                        *)
LEMMA SecondTyped ==
  ASSUME TypeOK, NEW R \in SUBSET Tab, Second(R)
  PROVE  TypeOK'
<1> USE IdleAssumption
<1>1. sessions' \in [Sessions -> Entry \cup {None}]
  <2>1. ASSUME NEW s \in Sessions, sessions[s] # None, sessions[s].age < Cap
        PROVE  [sessions[s] EXCEPT !.age = @ + 1] \in Entry
    <3>1. sessions[s] \in Entry
      BY <2>1 DEF TypeOK
    <3>2. sessions[s].age + 1 \in 0 .. Cap
      BY <3>1, <2>1 DEF Entry
    <3> QED
      BY <3>1, <3>2 DEF Entry
  <2> QED
    BY <2>1 DEF Second, TypeOK
<1>2. left' \in [Tab -> Nat \cup {None}]
  BY DEF Second, Ticks, TypeOK
<1>3. page' \in [Tab -> {"login", "app", "stopped", "leaving"}]
  BY DEF Second, TypeOK
<1>4. poll' \in [Tab -> 0 .. PollEvery]
  BY DEF Second, TypeOK
<1> QED
  BY <1>1, <1>2, <1>3, <1>4 DEF Second, requestVars, TypeOK

LEMMA TypeInit == Init => TypeOK
<1> SUFFICES ASSUME Init PROVE TypeOK
  OBVIOUS
<1>1. settings \in Settings
  BY DEF Init, Settings
<1>2. 0 \in 0 .. PollEvery /\ MaxActs \in 0 .. MaxActs
  BY IdleAssumption
<1> QED
  BY <1>1, <1>2 DEF Init, TypeOK

LEMMA TypeStep == TypeOK /\ [Next]_vars => TypeOK'
<1> SUFFICES ASSUME TypeOK, [Next]_vars PROVE TypeOK'
  OBVIOUS
<1>1. ASSUME NEW t \in Tab, User(t) \/ Handler(t) \/ Countdown(t) PROVE TypeOK'
  BY <1>1, UserTyped, HandlerTyped, CountdownTyped
<1>2. ASSUME NEW R \in SUBSET Tab, Second(R) PROVE TypeOK'
  BY <1>2, SecondTyped
<1>3. CASE Restart
  BY <1>3 DEF Restart, tabVars, TypeOK
<1>4. CASE UNCHANGED vars
  BY <1>4 DEF vars, TypeOK
<1> QED
  BY <1>1, <1>2, <1>3, <1>4 DEF Next

(* The store, the cookies, the pages and their countdowns stay well typed; *)
(* in particular no countdown, local or polled, goes below zero            *)
(* (SessionStore.status, startLogoutCountdown).                            *)
THEOREM IdleTypes == Spec => []TypeOK
BY TypeInit, TypeStep, PTL DEF Spec

-----------------------------------------------------------------------------
(* NotifyExclusive is not inductive.  While no save has overlapped another *)
(* request, a save under way is the only request there is, so that what it *)
(* read is still true when it commits and what it commits is still true    *)
(* when it reaches its session; and with one browser that session is the   *)
(* one in use, or none is.                                                 *)
Alone == \A t, u \in Tab : Saving(t) /\ ~Idle(u) => t = u

RowOff == settings.notify => ~settings.enabled

Current(t) ==
  IF Saving(t)
  THEN /\ pending[t].new.notify => ~pending[t].new.enabled
       /\ pending[t].step = "commit" => pending[t].row = settings
       /\ pending[t].step = "apply" => pending[t].new = settings
  ELSE pending[t].row = settings

InUse == \A t \in Tab, b \in Browsers : Saving(t) => cookie[b] \in {pending[t].session, None}

Applying == \E t \in Tab : Saving(t) /\ pending[t].step = "apply"

LimitOff ==
  ~settings.enabled /\ ~Applying =>
    \A b \in Browsers :
      cookie[b] \in Sessions /\ sessions[cookie[b]] # None => sessions[cookie[b]].limit = Never

Serial ==
  /\ Alone
  /\ RowOff
  /\ \A t \in Tab : ~Idle(t) => Current(t)
  /\ OneBrowser => InUse /\ LimitOff

Off == ~mixed => Serial

(* The step may forget sessions, but makes none and changes no limit.      *)
LimitsKept ==
  \A s \in Sessions :
    sessions'[s] # None => sessions[s] # None /\ sessions'[s].limit = sessions[s].limit

LEMMA OffInit == Init => Off
BY DEF Init, Off, Serial, Alone, RowOff, InUse, LimitOff, Saving, Idle

(* Requests that are no login and save no preference keep the limits.      *)
LEMMA StoreKeepsLimits ==
  ASSUME TypeOK, NEW s \in Sessions \cup {None},
         sessions' \in {sessions, Without(s), Got(s), Peeked(s)}
  PROVE  LimitsKept
<1>1. \A r \in Sessions : Without(s)[r] # None =>
        sessions[r] # None /\ Without(s)[r].limit = sessions[r].limit
  BY DEF Without
<1>2. ASSUME Live(s), NEW r \in Sessions, Got(s)[r] # None
      PROVE  sessions[r] # None /\ Got(s)[r].limit = sessions[r].limit
  <2>1. Got(s) = [sessions EXCEPT ![s].age = 0] /\ sessions[s] \in Entry /\ sessions[s] # None
    BY <1>2 DEF Got, Live, TypeOK
  <2>2. [sessions[s] EXCEPT !.age = 0].limit = sessions[s].limit
    BY <2>1 DEF Entry
  <2> QED
    BY <1>2, <2>1, <2>2 DEF TypeOK
<1> QED
  BY <1>1, <1>2 DEF LimitsKept, Got, Peeked

LEMMA LimitOffKept ==
  ASSUME TypeOK, LimitOff, LimitsKept, UNCHANGED settings, Applying => Applying',
         NEW c, UNCHANGED cookie \/ cookie' = [cookie EXCEPT ![c] = None]
  PROVE  LimitOff'
<1> SUFFICES ASSUME ~settings.enabled, ~Applying, NEW b \in Browsers,
                    cookie'[b] \in Sessions, sessions'[cookie'[b]] # None
             PROVE  sessions'[cookie'[b]].limit = Never
  BY DEF LimitOff
<1>1. cookie'[b] = cookie[b]
  BY IdleAssumption DEF TypeOK
<1> QED
  BY <1>1 DEF LimitOff, LimitsKept

(* Whatever touches no request, no preference and no limit.                *)
LEMMA OffKept ==
  ASSUME TypeOK, Off, LimitsKept, UNCHANGED <<settings, requestVars>>,
         NEW c, UNCHANGED cookie \/ cookie' = [cookie EXCEPT ![c] = None]
  PROVE  Off'
<1> SUFFICES ASSUME ~mixed, Serial PROVE Serial'
  BY DEF Off, requestVars
<1>1. Alone' /\ RowOff' /\ \A t \in Tab : ~Idle(t)' => Current(t)'
  BY DEF Serial, Alone, RowOff, Current, Saving, Idle, requestVars
<1>2. OneBrowser => InUse'
  BY DEF Serial, InUse, Saving, Idle, requestVars, TypeOK
<1>3. Applying => Applying'
  BY DEF Applying, Saving, Idle, requestVars
<1>4. OneBrowser => LimitOff'
  BY <1>3, LimitOffKept DEF Serial
<1> QED
  BY <1>1, <1>2, <1>4 DEF Serial, OneBrowser

(* A request that begins beside a save, or a save that begins beside any   *)
(* request, is an overlap.                                                 *)
LEMMA BeginsAlone ==
  ASSUME TypeOK, NEW t \in Tab, NEW request, request # None, Begins(t, request), ~mixed'
  PROVE  /\ ~mixed /\ Idle(t) /\ pending' = [pending EXCEPT ![t] = request]
         /\ request.op = "save" => \A u \in Tab : Idle(u)
         /\ \A u \in Tab : ~Saving(u)
BY DEF Begins, Saving, Idle, TypeOK

LEMMA OffUser ==
  ASSUME TypeOK, Off, NEW t \in Tab, User(t)
  PROVE  Off'
<1>a. t[1] \in Browsers /\ cookie[t[1]] \in Sessions \cup {None}
  BY CookieTyped
<1>b. ASSUME UNCHANGED <<settings, requestVars>>,
             UNCHANGED cookie \/ cookie' = [cookie EXCEPT ![t[1]] = None],
             sessions' \in {sessions, Without(cookie[t[1]]), Got(cookie[t[1]]), Peeked(cookie[t[1]])}
      PROVE  Off'
  BY <1>b, <1>a, StoreKeepsLimits, OffKept
<1>1. CASE Open(t)
  BY <1>1, <1>b DEF Open, Load
<1>2. CASE LoginRead(t)
  <2> SUFFICES ASSUME ~mixed' PROVE Serial'
    BY DEF Off
  <2> DEFINE q == [op |-> "login", row |-> settings]
  <2>1. q # None
    <3>1. q \in LoginRequest
      BY DEF LoginRequest, TypeOK
    <3> QED
      BY <3>1, RequestAssumption
  <2>2. /\ ~mixed /\ Idle(t) /\ pending' = [pending EXCEPT ![t] = q]
        /\ \A u \in Tab : ~Saving(u)
    BY <1>2, <2>1, BeginsAlone DEF LoginRead
  <2>3. Serial
    BY <2>2 DEF Off
  <2>4. UNCHANGED <<settings, cookie, sessions>>
    BY <1>2 DEF LoginRead
  <2>5. \A u \in Tab : ~Saving(u)'
    BY <2>2 DEF Saving, Idle, TypeOK
  <2>6. \A u \in Tab : ~Idle(u)' => Current(u)'
    BY <2>2, <2>3, <2>4, <2>5 DEF Serial, Current, Idle, TypeOK
  <2>7. OneBrowser => LimitOff'
    BY <2>2, <2>3, <2>4 DEF Serial, LimitOff, Applying
  <2> QED
    BY <2>3, <2>4, <2>5, <2>6, <2>7 DEF Serial, Alone, RowOff, InUse
<1>3. CASE Work(t)
  BY <1>3, <1>b DEF Work
<1>4. CASE SaveSettings(t)
  <2> SUFFICES ASSUME ~mixed' PROVE Serial'
    BY DEF Off
  <2>1. PICK c \in Choices :
          Begins(t, [op |-> "save", step |-> "read", session |-> cookie[t[1]], row |-> None,
                     new |-> [c EXCEPT !.enabled = @ /\ ~c.notify]])
    BY <1>4 DEF SaveSettings
  <2> DEFINE new == [c EXCEPT !.enabled = @ /\ ~c.notify]
             q == [op |-> "save", step |-> "read", session |-> cookie[t[1]], row |-> None,
                   new |-> new]
  <2>2. new.notify => ~new.enabled
    BY IdleAssumption DEF Settings
  <2>3. q # None /\ q.op = "save" /\ q.step = "read" /\ q.session = cookie[t[1]] /\ q.new = new
    <3>1. new \in Settings
      BY IdleAssumption DEF Settings
    <3>2. q \in SaveRequest
      BY <1>4, <3>1 DEF SaveSettings, Live, SaveRequest
    <3> HIDE DEF new
    <3> QED
      BY <3>2, RequestAssumption
  <2>4. Begins(t, q)
    BY <2>1
  <2> HIDE DEF new, q
  <2>5. /\ ~mixed /\ pending' = [pending EXCEPT ![t] = q]
        /\ \A u \in Tab : Idle(u)
    BY <2>3, <2>4, BeginsAlone
  <2>6. Serial
    BY <2>5 DEF Off
  <2>7. UNCHANGED <<settings, cookie>> /\ sessions' = Got(cookie[t[1]])
    BY <1>4 DEF SaveSettings
  <2>8. /\ \A u \in Tab : u # t => pending'[u] = None
        /\ pending'[t] = q
    BY <2>5 DEF Idle, TypeOK
  <2>9. Alone' /\ RowOff'
    BY <2>6, <2>7, <2>8 DEF Serial, Alone, RowOff, Idle, Saving
  <2>10. \A u \in Tab : ~Idle(u)' => Current(u)'
    BY <2>2, <2>3, <2>8 DEF Current, Idle, Saving
  <2>11. OneBrowser => InUse'
    BY <2>3, <2>7, <2>8, <1>a DEF InUse, OneBrowser, Saving, Idle
  <2>12. LimitsKept
    BY <2>7, <1>a, StoreKeepsLimits
  <2>13. OneBrowser => LimitOff'
    BY <2>5, <2>6, <2>7, <2>12, <1>a, LimitOffKept DEF Serial, Applying, Saving
  <2> QED
    BY <2>9, <2>10, <2>11, <2>13 DEF Serial, OneBrowser
<1>5. CASE Logout(t)
  BY <1>5, <1>b DEF Logout, EndSession
<1>6. CASE LogoutFailed(t)
  BY <1>6, <1>b DEF LogoutFailed
<1> QED
  BY <1>1, <1>2, <1>3, <1>4, <1>5, <1>6 DEF User

(* The handlers.  A save under way is alone, so each of its steps finds    *)
(* what the one before it left.                                            *)
LEMMA OffHandler ==
  ASSUME TypeOK, Off, NEW t \in Tab, Handler(t)
  PROVE  Off'
<1> SUFFICES ASSUME ~mixed' PROVE Serial'
  BY DEF Off
<1>a. t[1] \in Browsers /\ cookie[t[1]] \in Sessions \cup {None}
  BY CookieTyped
<1>b. ~mixed /\ Serial
  BY DEF Off, Handler, Login, SaveRead, SaveCommit, SaveApply, Ends, Continues
<1>c. ASSUME Saving(t)
      PROVE  /\ pending[t] \in SaveRequest
             /\ pending[t].new.notify => ~pending[t].new.enabled
             /\ pending[t].step = "commit" => pending[t].row = settings
             /\ pending[t].step = "apply" => pending[t].new = settings
             /\ \A u \in Tab : u # t => pending[u] = None
  BY <1>b, <1>c, SavingTyped DEF Serial, Alone, Current, Saving, Idle
<1>1. CASE Login(t)
  <2>1. /\ ~Idle(t) /\ ~Saving(t) /\ UNCHANGED settings
        /\ pending' = [pending EXCEPT ![t] = None]
    BY <1>1 DEF Login, Ends, Continues
  <2>2. pending[t].row = settings
    BY <1>b, <2>1 DEF Serial, Current
  <2>3. \A u \in Tab : ~Saving(u)
    BY <1>b, <2>1 DEF Serial, Alone
  <2>4. \A u \in Tab : pending'[u] \in {pending[u], None} /\ ~Saving(u)'
    BY <2>1, <2>3 DEF Saving, Idle, TypeOK
  <2>5. PICK s \in Sessions :
          /\ sessions' = [sessions EXCEPT ![s] = [age |-> 0, limit |-> LimitOf(pending[t].row)]]
          /\ cookie' = [cookie EXCEPT ![t[1]] = s]
    BY <1>1 DEF Login
  <2>6. OneBrowser => LimitOff'
    BY <2>1, <2>2, <2>5, <1>a DEF OneBrowser, LimitOff, LimitOf, TypeOK
  <2>7. \A u \in Tab : ~Idle(u)' => Current(u)'
    BY <1>b, <2>1, <2>3, <2>4 DEF Serial, Current, Idle
  <2> QED
    BY <1>b, <2>1, <2>4, <2>6, <2>7 DEF Serial, Alone, RowOff, InUse
<1>2. CASE SaveRead(t)
  <2> DEFINE q == [pending[t] EXCEPT !.step = "commit", !.row = settings]
  <2>1. /\ Saving(t) /\ UNCHANGED <<settings, cookie, sessions>>
        /\ pending' = [pending EXCEPT ![t] = q]
        /\ pending[t].step = "read"
    BY <1>2 DEF SaveRead, Continues
  <2>2. /\ q.op = "save" /\ q.step = "commit" /\ q.row = settings
        /\ q.new = pending[t].new /\ q.session = pending[t].session /\ q # None
    <3>1. pending[t] \in SaveRequest
      BY <2>1, <1>c
    <3>2. q \in SaveRequest
      BY <3>1 DEF SaveRequest, TypeOK
    <3> QED
      BY <3>1, <3>2, RequestAssumption DEF SaveRequest
  <2> HIDE DEF q
  <2>3. pending'[t] = q /\ \A u \in Tab : u # t => pending'[u] = None
    BY <2>1, <1>c DEF TypeOK
  <2>4. Alone' /\ RowOff' /\ \A u \in Tab : ~Idle(u)' => Current(u)'
    BY <1>b, <1>c, <2>1, <2>2, <2>3 DEF Serial, Alone, RowOff, Current, Saving, Idle
  <2>5. OneBrowser => InUse'
    BY <1>b, <2>1, <2>2, <2>3 DEF Serial, InUse, Saving, Idle
  <2>6. ~Applying
    BY <2>1, <1>c DEF Applying, Saving, Idle
  <2>7. OneBrowser => LimitOff'
    BY <1>b, <2>1, <2>6 DEF Serial, LimitOff
  <2> QED
    BY <2>4, <2>5, <2>7 DEF Serial
<1>3. CASE SaveCommit(t)
  <2> DEFINE q == [pending[t] EXCEPT !.step = "apply"]
  <2>1. /\ Saving(t) /\ UNCHANGED <<cookie, sessions>>
        /\ pending' = [pending EXCEPT ![t] = q]
        /\ settings' = Committed(pending[t].row, pending[t].new)
        /\ pending[t].step = "commit"
    BY <1>3 DEF SaveCommit, Continues
  <2>2. /\ q.op = "save" /\ q.step = "apply" /\ q.new = pending[t].new
        /\ q.session = pending[t].session /\ q # None
    <3>1. pending[t] \in SaveRequest
      BY <2>1, <1>c
    <3>2. q \in SaveRequest
      BY <3>1 DEF SaveRequest
    <3> QED
      BY <3>1, <3>2, RequestAssumption DEF SaveRequest
  <2> HIDE DEF q
  <2>3. pending'[t] = q /\ \A u \in Tab : u # t => pending'[u] = None
    BY <2>1, <1>c DEF TypeOK
  <2>4. settings' = pending[t].new
    BY <2>1, <1>c DEF Committed, SaveRequest, Settings, TypeOK
  <2>5. Alone' /\ RowOff' /\ \A u \in Tab : ~Idle(u)' => Current(u)'
    BY <1>c, <2>1, <2>2, <2>3, <2>4 DEF Alone, RowOff, Current, Saving, Idle
  <2>6. OneBrowser => InUse'
    BY <1>b, <2>1, <2>2, <2>3 DEF Serial, InUse, Saving, Idle
  <2>7. Applying'
    BY <2>2, <2>3 DEF Applying, Saving, Idle
  <2>8. LimitOff'
    BY <2>7 DEF LimitOff
  <2> QED
    BY <2>5, <2>6, <2>8 DEF Serial
<1>4. CASE SaveApply(t)
  <2> DEFINE s == pending[t].session
             l == LimitOf(pending[t].new)
  <2>1. /\ Saving(t) /\ UNCHANGED <<settings, cookie>>
        /\ pending' = [pending EXCEPT ![t] = None]
        /\ sessions' = IF sessions[s] = None THEN sessions ELSE [sessions EXCEPT ![s].limit = l]
        /\ pending[t].step = "apply"
    BY <1>4 DEF SaveApply, Ends, Continues
  <2>2. s \in Sessions /\ (~settings.enabled => l = Never)
    BY <2>1, <1>c DEF SaveRequest, LimitOf
  <2>3. OneBrowser => \A b \in Browsers : cookie[b] \in {s, None}
    BY <1>b, <2>1 DEF Serial, InUse
  <2> HIDE DEF s, l
  <2>4. \A u \in Tab : pending'[u] = None
    BY <2>1, <1>c DEF TypeOK
  <2>5. Alone' /\ RowOff' /\ InUse' /\ \A u \in Tab : ~Idle(u)' => Current(u)'
    BY <1>b, <2>1, <2>4 DEF Serial, Alone, RowOff, InUse, Saving, Idle
  <2>6. ASSUME sessions'[s] # None, ~settings.enabled PROVE sessions'[s].limit = Never
    <3>1. sessions[s] # None /\ sessions[s] \in Entry
      BY <2>1, <2>2, <2>6 DEF TypeOK
    <3> QED
      BY <2>1, <2>2, <2>6, <3>1 DEF Entry, TypeOK
  <2>7. OneBrowser => LimitOff'
    BY <2>1, <2>2, <2>3, <2>6, IdleAssumption DEF LimitOff
  <2> QED
    BY <2>5, <2>7 DEF Serial
<1> QED
  BY <1>1, <1>2, <1>3, <1>4 DEF Handler

LEMMA OffCountdown ==
  ASSUME TypeOK, Off, NEW t \in Tab, Countdown(t)
  PROVE  Off'
<1>a. t[1] \in Browsers /\ cookie[t[1]] \in Sessions \cup {None}
  BY CookieTyped
<1>b. ASSUME UNCHANGED <<settings, requestVars>>,
             UNCHANGED cookie \/ cookie' = [cookie EXCEPT ![t[1]] = None],
             sessions' \in {sessions, Without(cookie[t[1]]), Got(cookie[t[1]]), Peeked(cookie[t[1]])}
      PROVE  Off'
  BY <1>b, <1>a, StoreKeepsLimits, OffKept
<1>1. CASE Poll(t)
  BY <1>1, <1>b DEF Poll
<1>2. CASE Answer(t) \/ AnswerLost(t)
  BY <1>2, <1>b DEF Answer, AnswerLost
<1>3. CASE AutoLogout(t)
  BY <1>3, <1>b DEF AutoLogout, EndSession
<1>4. CASE LogoutLost(t)
  BY <1>4, <1>b DEF LogoutLost, Load
<1> QED
  BY <1>1, <1>2, <1>3, <1>4 DEF Countdown

LEMMA OffStep == TypeOK /\ Off /\ [Next]_vars => Off'
<1> SUFFICES ASSUME TypeOK, Off, [Next]_vars PROVE Off'
  OBVIOUS
<1>1. ASSUME NEW t \in Tab, User(t) \/ Handler(t) \/ Countdown(t) PROVE Off'
  BY <1>1, OffUser, OffHandler, OffCountdown
<1>2. ASSUME NEW R \in SUBSET Tab, Second(R) PROVE Off'
  <2>1. ASSUME NEW s \in Sessions, sessions[s] # None
        PROVE  [sessions[s] EXCEPT !.age = @ + 1].limit = sessions[s].limit
    BY <2>1 DEF TypeOK, Entry
  <2>2. LimitsKept
    BY <1>2, <2>1 DEF Second, LimitsKept
  <2> QED
    BY <1>2, <2>2, OffKept DEF Second
<1>3. CASE Restart
  <2>1. \A u \in Tab : Idle(u)'
    BY <1>3 DEF Restart, Idle
  <2>2. /\ UNCHANGED <<settings, cookie, mixed>>
        /\ sessions' = [s \in Sessions |-> None]
    BY <1>3 DEF Restart
  <2> QED
    BY <2>1, <2>2 DEF Off, Serial, Alone, RowOff, InUse, LimitOff, Saving
<1>4. ASSUME UNCHANGED vars PROVE Off'
  <2>1. LimitsKept
    BY <1>4 DEF vars, LimitsKept
  <2> QED
    BY <1>4, <2>1, OffKept DEF vars, requestVars
<1> QED
  BY <1>1, <1>2, <1>3, <1>4 DEF Next

(* For any user, tabs, requests under way and restarts: while              *)
(* notifications are on, the row has automatic logout off, and the session *)
(* of a user with one browser has no idle limit, unless a save overlapped  *)
(* another save or a login (put_settings, login).  With a second browser   *)
(* the last is not so: see NotificationsDisableLogout.                     *)
THEOREM NotifyExclusiveSerial == Spec => []NotifyExclusive
<1>1. Init => TypeOK /\ Off
  BY TypeInit, OffInit
<1>2. TypeOK /\ Off /\ [Next]_vars => TypeOK' /\ Off'
  BY TypeStep, OffStep
<1>3. Off => NotifyExclusive
  BY DEF Off, Serial, RowOff, LimitOff, NotifyExclusive, Settled, NoLimits, Live, Applying, Saving
<1> QED
  BY <1>1, <1>2, <1>3, PTL DEF Spec
=============================================================================
