----------------------------- MODULE IdleLogout -----------------------------
(***************************************************************************)
(* Sessions and the idle logout.  The server keeps its sessions in memory, *)
(* each with the time of its last request and an idle limit taken from the *)
(* user's settings at login (src/webcaldav/session.py).  The tabs of a     *)
(* browser share its session cookie; each counts down the time left on its *)
(* own, asks the server for the true value from time to time without       *)
(* refreshing the session, and logs out at zero (static/app.js).           *)
(***************************************************************************)
EXTENDS Integers

CONSTANTS Browsers,    \* browsers of one user, each with a cookie jar
          Tabs,        \* names of the tabs of a browser
          Sessions,    \* session ids; one may be used again once it is forgotten
          None,        \* no session, no countdown, no answer
          Never,       \* the limit of a session with automatic logout off
          Timeouts,    \* idle limits, in seconds
          Cap,         \* bound: ages from Cap on are alike
          PollEvery,   \* seconds between two polls of a tab
          Choices,     \* the preferences that can be saved
          Throttled,   \* may timers and answers be late?
          MaxActs      \* bound: what users do and what networks lose

Settings == [enabled : BOOLEAN, timeout : Timeouts, notify : BOOLEAN]

ASSUME IdleAssumption ==
  /\ Timeouts \subseteq Nat \ {0} /\ Timeouts # {}
  /\ Cap \in Nat /\ \A n \in Timeouts : n < Cap
  /\ PollEvery \in Nat \ {0} /\ MaxActs \in Nat
  /\ Throttled \in BOOLEAN /\ Choices \subseteq Settings
  /\ None \notin Sessions /\ None \notin Int /\ Never \notin Int /\ None # Never

VARIABLES sessions,    \* the server's session store
          settings,    \* the user's row of preferences
          cookie,      \* the session each browser presents
          page,        \* what each tab shows; "leaving": its countdown is over,
                       \* "stopped": the application, without its countdown
          left,        \* the seconds a tab believes are left
          answer,      \* the answer to its last poll, until it arrives
          poll,        \* the seconds to its next poll
          pending,     \* a login or a save of each tab the server is at work on
          mixed,       \* observed: a save overlapped another save or a login
          acts         \* bound: acts still allowed

vars == <<sessions, settings, cookie, page, left, answer, poll, pending, mixed, acts>>
tabVars == <<page, left, answer, poll>>
requestVars == <<pending, mixed>>

Tab == Browsers \X Tabs

Limits == Timeouts \cup {Never}
Entry == [age : 0 .. Cap, limit : Limits]
Status == [expired : BOOLEAN, left : Nat \cup {None}]

(* A login that has read the row of preferences; a save, with the session  *)
(* of its cookie, the row as it read it and what is to become of it.       *)
LoginRequest == [op : {"login"}, row : Settings]
SaveRequest == [op : {"save"}, step : {"read", "commit", "apply"}, session : Sessions,
                row : Settings \cup {None}, new : Settings]

ASSUME RequestAssumption == None \notin LoginRequest \cup SaveRequest

-----------------------------------------------------------------------------
(* The session store.                                                      *)

(* Mutant: the limit is only exceeded one second later.                    *)
Expired_Late(s) ==
  /\ sessions[s] # None /\ sessions[s].limit # Never
  /\ sessions[s].age > sessions[s].limit + 1

Expired(s) ==
  /\ sessions[s] # None /\ sessions[s].limit # Never
  /\ sessions[s].age > sessions[s].limit

Live(s) == s \in Sessions /\ sessions[s] # None /\ ~Expired(s)

(* delete.                                                                 *)
Without(s) == [r \in Sessions |-> IF r = s THEN None ELSE sessions[r]]

(* get: a request refreshes a live session, and forgets an expired one.    *)
Got(s) ==
  IF Live(s) THEN [sessions EXCEPT ![s].age = 0] ELSE Without(s)

(* peek, status: the same without the refresh.                             *)
Peeked(s) == IF Live(s) THEN sessions ELSE Without(s)

StatusOf(s) ==
  IF ~Live(s) THEN [expired |-> TRUE, left |-> None]
  ELSE [expired |-> FALSE,
        left |-> IF sessions[s].limit = Never THEN None
                 ELSE sessions[s].limit - sessions[s].age]

LimitOf(st) == IF st.enabled THEN st.timeout ELSE Never

Init ==
  /\ sessions = [s \in Sessions |-> None]
  /\ settings \in [enabled : {TRUE}, timeout : Timeouts, notify : {FALSE}]
  /\ cookie = [b \in Browsers |-> None]
  /\ page = [t \in Tab |-> "login"]
  /\ left = [t \in Tab |-> None]
  /\ answer = [t \in Tab |-> None]
  /\ poll = [t \in Tab |-> 0]
  /\ pending = [t \in Tab |-> None]
  /\ mixed = FALSE
  /\ acts = MaxActs

-----------------------------------------------------------------------------
(* Pages.                                                                  *)

Act == acts > 0 /\ acts' = acts - 1

InApp(t) == page[t] \in {"app", "stopped"}

(* The page starts its countdown from the settings rendered into it, and   *)
(* polls at once.                                                          *)
ShowApp(t) ==
  /\ page' = [page EXCEPT ![t] = "app"]
  /\ left' = [left EXCEPT ![t] = IF settings.enabled THEN settings.timeout ELSE None]
  /\ answer' = [answer EXCEPT ![t] = None]
  /\ poll' = [poll EXCEPT ![t] = 0]

ShowLogin(t) ==
  /\ page' = [page EXCEPT ![t] = "login"]
  /\ left' = [left EXCEPT ![t] = None]
  /\ answer' = [answer EXCEPT ![t] = None]
  /\ poll' = [poll EXCEPT ![t] = 0]

(* GET / with whatever cookie the browser holds.                           *)
Load(t) ==
  /\ sessions' = Got(cookie[t[1]])
  /\ IF Live(cookie[t[1]]) THEN ShowApp(t) ELSE ShowLogin(t)
  /\ UNCHANGED <<settings, cookie>>

Idle(t) == pending[t] = None
Saving(t) == ~Idle(t) /\ pending[t].op = "save"

(* A tab waits for the answer to its login.                                *)
Open(t) ==
  /\ page[t] # "leaving" /\ (Idle(t) \/ Saving(t)) /\ Act
  /\ Load(t) /\ UNCHANGED requestVars

(* Any request for data.  One that finds no session only shows an error.   *)
Work(t) ==
  /\ InApp(t) /\ Act
  /\ sessions' = Got(cookie[t[1]])
  /\ UNCHANGED <<settings, cookie, tabVars, requestVars>>

-----------------------------------------------------------------------------
(* Logins and saves: the handlers wait for the database in between.        *)

Begins(t, request) ==
  /\ Idle(t)
  /\ pending' = [pending EXCEPT ![t] = request]
  /\ mixed' = (mixed \/ \E u \in Tab : ~Idle(u) /\ "save" \in {pending[u].op, request.op})

Continues(t, request) == pending' = [pending EXCEPT ![t] = request] /\ UNCHANGED mixed

Ends(t) == Continues(t, None)

(* The password is right, and the limit is read.                           *)
LoginRead(t) ==
  /\ page[t] = "login" /\ Act
  /\ Begins(t, [op |-> "login", row |-> settings])
  /\ UNCHANGED <<sessions, settings, cookie, tabVars>>

Unused(s) ==
  /\ sessions[s] = None
  /\ \A b \in Browsers : cookie[b] # s
  /\ \A t \in Tab : Saving(t) => pending[t].session # s

Login(t) ==
  /\ ~Idle(t) /\ ~Saving(t)
  /\ \E s \in Sessions :
       /\ Unused(s)
       /\ sessions' = [sessions EXCEPT ![s] = [age |-> 0, limit |-> LimitOf(pending[t].row)]]
       /\ cookie' = [cookie EXCEPT ![t[1]] = s]
  /\ ShowApp(t) /\ Ends(t)
  /\ UNCHANGED <<settings, acts>>

(* PUT /settings finds its session.  Notifications force the automatic     *)
(* logout off, whatever the row says: the panel sends all the preferences. *)
SaveSettings(t) ==
  /\ InApp(t) /\ Act
  /\ Live(cookie[t[1]])
  /\ sessions' = Got(cookie[t[1]])
  /\ \E c \in Choices :
       Begins(t, [op |-> "save", step |-> "read", session |-> cookie[t[1]], row |-> None,
                  new |-> [c EXCEPT !.enabled = @ /\ ~c.notify]])
  /\ UNCHANGED <<settings, cookie, tabVars>>

SaveRead(t) ==
  /\ Saving(t) /\ pending[t].step = "read"
  /\ Continues(t, [pending[t] EXCEPT !.step = "commit", !.row = settings])
  /\ UNCHANGED <<sessions, settings, cookie, tabVars, acts>>

(* The commit writes the columns that differ from what was read.           *)
Committed(row, new) ==
  [enabled |-> IF new.enabled # row.enabled THEN new.enabled ELSE settings.enabled,
   timeout |-> IF new.timeout # row.timeout THEN new.timeout ELSE settings.timeout,
   notify |-> IF new.notify # row.notify THEN new.notify ELSE settings.notify]

SaveCommit(t) ==
  /\ Saving(t) /\ pending[t].step = "commit"
  /\ settings' = Committed(pending[t].row, pending[t].new)
  /\ Continues(t, [pending[t] EXCEPT !.step = "apply"])
  /\ UNCHANGED <<sessions, cookie, tabVars, acts>>

(* Mutant: the limit of the live session is left as it was.                *)
SaveApply_NotLive(t) ==
  /\ Saving(t) /\ pending[t].step = "apply"
  /\ poll' \in {poll, [poll EXCEPT ![t] = IF InApp(t) THEN 0 ELSE @]}
  /\ Ends(t)
  /\ UNCHANGED <<sessions, settings, cookie, page, left, answer, acts>>

(* The session that saves gets the new limit, and its page polls when the  *)
(* answer arrives.                                                         *)
SaveApply(t) ==
  /\ Saving(t) /\ pending[t].step = "apply"
  /\ LET s == pending[t].session
     IN  sessions' = IF sessions[s] = None THEN sessions
                     ELSE [sessions EXCEPT ![s].limit = LimitOf(pending[t].new)]
  /\ poll' \in {poll, [poll EXCEPT ![t] = IF InApp(t) THEN 0 ELSE @]}
  /\ Ends(t)
  /\ UNCHANGED <<settings, cookie, page, left, answer, acts>>

-----------------------------------------------------------------------------
(* The logout.                                                             *)

(* POST /auth/logout: the session of the cookie is forgotten, whichever it *)
(* is, and the cookie is cleared.                                          *)
EndSession(t) ==
  /\ sessions' = Without(cookie[t[1]])
  /\ cookie' = [cookie EXCEPT ![t[1]] = None]
  /\ ShowLogin(t)
  /\ UNCHANGED <<settings, requestVars>>

Logout(t) == InApp(t) /\ Act /\ EndSession(t)

(* The request or its answer is lost: the page stays, and the button has   *)
(* already stopped its timers.                                             *)
LogoutFailed(t) ==
  /\ InApp(t) /\ Act
  /\ sessions' \in {sessions, Without(cookie[t[1]])}
  /\ page' = [page EXCEPT ![t] = "stopped"]
  /\ poll' = [poll EXCEPT ![t] = PollEvery]
  /\ UNCHANGED <<settings, cookie, left, answer, requestVars>>

AutoLogout(t) == page[t] = "leaving" /\ EndSession(t) /\ UNCHANGED acts

(* The request or its answer is lost; the page is loaded again even so.    *)
LogoutLost(t) ==
  /\ page[t] = "leaving" /\ Act
  /\ \/ Load(t)
     \/ sessions' = Without(cookie[t[1]]) /\ ShowLogin(t) /\ UNCHANGED <<settings, cookie>>
  /\ UNCHANGED requestVars

-----------------------------------------------------------------------------
(* The countdown.                                                          *)

(* Mutant: the question reads the session as any request does.             *)
Poll_Refreshes(t) ==
  /\ InApp(t) /\ poll[t] = 0 /\ answer[t] = None
  /\ sessions' = Got(cookie[t[1]])
  /\ poll' = [poll EXCEPT ![t] = PollEvery]
  /\ UNCHANGED <<settings, cookie, page, left, acts, requestVars>>
  /\ answer' = [answer EXCEPT ![t] = StatusOf(cookie[t[1]])']

(* GET /auth/session.                                                      *)
Poll(t) ==
  /\ InApp(t) /\ poll[t] = 0 /\ answer[t] = None
  /\ sessions' = Peeked(cookie[t[1]])
  /\ answer' = [answer EXCEPT ![t] = StatusOf(cookie[t[1]])]
  /\ poll' = [poll EXCEPT ![t] = PollEvery]
  /\ UNCHANGED <<settings, cookie, page, left, acts, requestVars>>

Answer(t) ==
  /\ InApp(t) /\ answer[t] # None
  /\ answer' = [answer EXCEPT ![t] = None]
  /\ IF answer[t].expired
     THEN page' = [page EXCEPT ![t] = "leaving"] /\ UNCHANGED left
     ELSE left' = [left EXCEPT ![t] = answer[t].left] /\ UNCHANGED page
  /\ UNCHANGED <<sessions, settings, cookie, poll, acts, requestVars>>

AnswerLost(t) ==
  /\ answer[t] # None /\ Act
  /\ answer' = [answer EXCEPT ![t] = None]
  /\ UNCHANGED <<sessions, settings, cookie, page, left, poll, requestVars>>

(* A second passes, and the timers of the tabs R run.                      *)
Ticks(R) == {t \in R : page[t] = "app" /\ left[t] # None}

Second(R) ==
  /\ ~Throttled =>
       R = Tab /\ \A t \in Tab : InApp(t) => poll[t] > 0 /\ answer[t] = None
  /\ sessions' = [s \in Sessions |->
                    IF sessions[s] # None /\ sessions[s].age < Cap
                    THEN [sessions[s] EXCEPT !.age = @ + 1] ELSE sessions[s]]
  /\ left' = [t \in Tab |-> IF t \in Ticks(R)
                            THEN IF left[t] > 0 THEN left[t] - 1 ELSE 0
                            ELSE left[t]]
  /\ page' = [t \in Tab |-> IF t \in Ticks(R) /\ left[t] <= 1 THEN "leaving" ELSE page[t]]
  /\ poll' = [t \in Tab |-> IF t \in R /\ poll[t] > 0 /\ page[t] # "stopped" THEN poll[t] - 1 ELSE poll[t]]
  /\ UNCHANGED <<settings, cookie, answer, acts, requestVars>>

(* The process restarts: its sessions and the requests it was at work on   *)
(* are gone.                                                               *)
Restart ==
  /\ sessions' = [s \in Sessions |-> None]
  /\ pending' = [t \in Tab |-> None]
  /\ UNCHANGED <<settings, cookie, tabVars, mixed, acts>>

User(t) == Open(t) \/ LoginRead(t) \/ Work(t) \/ SaveSettings(t) \/ Logout(t) \/ LogoutFailed(t)

Handler(t) == Login(t) \/ SaveRead(t) \/ SaveCommit(t) \/ SaveApply(t)

Countdown(t) == Poll(t) \/ Answer(t) \/ AnswerLost(t) \/ AutoLogout(t) \/ LogoutLost(t)

Next == \/ \E t \in Tab : User(t) \/ Handler(t) \/ Countdown(t)
        \/ \E R \in SUBSET Tab : Second(R)
        \/ Restart

(* Time passes, and the timers of each tab run sooner or later.            *)
Fairness ==
  \A t \in Tab : /\ WF_vars(Poll(t)) /\ WF_vars(Answer(t)) /\ WF_vars(AutoLogout(t))
                 /\ WF_vars(\E R \in SUBSET Tab : t \in R /\ Second(R))

Spec == Init /\ [][Next]_vars /\ Fairness
-----------------------------------------------------------------------------
(* Types.  A countdown never shows less than zero.                         *)
TypeOK ==
  /\ sessions \in [Sessions -> Entry \cup {None}]
  /\ settings \in Settings
  /\ cookie \in [Browsers -> Sessions \cup {None}]
  /\ page \in [Tab -> {"login", "app", "stopped", "leaving"}]
  /\ left \in [Tab -> Nat \cup {None}]
  /\ answer \in [Tab -> Status \cup {None}]
  /\ poll \in [Tab -> 0 .. PollEvery]
  /\ pending \in [Tab -> LoginRequest \cup SaveRequest \cup {None}]
  /\ mixed \in BOOLEAN
  /\ acts \in 0 .. MaxActs

Settled == \A t \in Tab : Idle(t)
OneBrowser == \A b, c \in Browsers : b = c
NoLimits == \A b \in Browsers : Live(cookie[b]) => sessions[cookie[b]].limit = Never

(* Notifications and automatic logout exclude each other (settings.py:     *)
(* mutually exclusive; apply the change to the live session): while they   *)
(* are on, the row has automatic logout off and, with one browser and no   *)
(* request under way, the session in use has no limit, whatever tabs,      *)
(* logouts, logins and restarts come between the steps of a save.  Not     *)
(* after a save that overlapped another save or a login: see mixed.        *)
NotifyExclusive ==
  settings.notify /\ ~mixed =>
    ~settings.enabled /\ (OneBrowser /\ Settled => NoLimits)

(* What the repository's README says of them, `for that user': no session  *)
(* of any browser has an idle limit while they are on.  It is not so even  *)
(* when requests follow one another: a save reaches the session that made  *)
(* it and no other.                                                        *)
NotificationsDisableLogout == settings.notify /\ Settled /\ ~mixed => NoLimits

(* Once users have stopped working, every tab with a countdown ends at the *)
(* login page, unless automatic logout is off: neither polls nor lost      *)
(* answers, nor other tabs or restarts, keep an idle session alive.        *)
IdleLoggedOut ==
  <>[](\A t \in Tab : page[t] = "app" =>
         Live(cookie[t[1]]) /\ sessions[cookie[t[1]]].limit = Never)

(* The countdown of a tab ends a session only when its idle limit is over: *)
(* requests of this or another tab push the logout back.                   *)
KeptWhileActive ==
  [][\A t \in Tab :
       LET s == cookie[t[1]]
       IN  AutoLogout(t) /\ Live(s) =>
             sessions[s].limit # Never /\ sessions[s].age >= sessions[s].limit]_vars
=============================================================================
