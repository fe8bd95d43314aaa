# Verification of WebCalDav

TLA+ modules that model WebCalDav (a browser client and a FastAPI server in
front of users' CalDAV servers), the TLC configurations that check them, and
proofs of the main invariants.  The reference is always the code; where the
code and its own comments or documents disagree, the model follows the code and
a run shows the disagreement.

## 1. Inventory

| Part | Code (`src/webcaldav/`) | State it keeps | Operations |
|---|---|---|---|
| Series algebra | `caldav_client.py` 539-1034 | one iCalendar resource: DTSTART, RRULE, EXDATEs, detached overrides | resolve the pivot; scoped edits (`all`, `this`, `thisfuture`) and deletes; shift, cut, split, reset |
| Event editing | `static/app.js` (modal, drag, context menu), `routers/events.py`, `caldav_client.py` 1232-1540 | the calendar on the CalDAV server; a request under way; nothing is cached on the server | drag, save, delete, create; each handler reads, rewrites, PUTs in a worker thread |
| Moves between calendars | `routers/events.py` 448-476, same in `tasks.py`, `journals.py` | the item in one calendar, in both, in neither | create on the target, delete on the source |
| Tasks | `routers/tasks.py`, `caldav_client.py` 1577-2211 | VTODO series with DUE-only anchors, per-occurrence completion | scoped edit, delete, complete, un-complete |
| Journals | `routers/journals.py`, `caldav_client.py` 2214-2490 | a single VJOURNAL | create, edit, delete, move |
| Login, passwords, data key | `routers/auth.py`, `crypto.py`, `models.py` | user row: salt, verifier, data key (DEK) wrapped by the password | login, change password |
| Sessions | `session.py`, `deps.py` | in memory: user, DEK, last seen, idle timeout, restricted | create, get (refreshes), peek, status, update, delete |
| Rate limiter | `ratelimit.py` | attempts per address | check, record, reset |
| Accounts and calendars | `routers/caldav_accounts.py`, `routers/calendars.py` | CalDAV credentials sealed with the DEK, calendars, one default | add, delete, patch |
| Shares | `shares.py`, `routers/shares.py` | share rows whose payload is sealed by the link's secret | create, extend, revoke, read, write |
| API tokens, MCP server | `tokens.py`, `routers/api_tokens.py`, `mcp_server.py` | token rows sealing a copy of the DEK | mint, revoke, resolve; tools over the same CalDAV calls |
| Settings | `routers/settings.py` | preferences in the database, the idle timeout also in the session | read, write |
| Admin commands | `admin.py` | the same database, from another process | create, reset, delete a user |
| Browser: notifications, countdown, agenda | `static/app.js` 3605-5330 | fired set, timers, loaded ranges | poll, tick, load more |
| Read-only and shell | `calendar_data.py`, `holidays.py`, `app.py`, `config.py`, `i18n.py`, `metrics.py`, templates, vendored scripts | none of their own | |

The browser talks to the routers over HTTP; a router decrypts the credentials
with the session's DEK and runs a synchronous CalDAV function in a worker
thread (`asyncio.to_thread`).  The CalDAV server is the only store of events:
any number of browser tabs, share guests, API tokens and foreign clients edit
it at once.

What is hard:

* **Recurrence algebra.**  A long sequence of legal edits (move one, move all,
  split, exclude, shorten) must keep overrides, exception dates, COUNT and
  UNTIL consistent with each other.
* **Unconditional PUTs.**  Each handler reads a resource and writes it back
  with no precondition, so two edits can both be based on the same read.
* **Two-step writes.**  A split is two PUTs, a move a PUT and a DELETE; a call
  can fail, or succeed with its answer lost.
* **Keys and sessions.**  The DEK lives in sessions, tokens, shares and
  (wrapped) in the user row, and an administrator may replace it meanwhile.

* **Scopes that name row ids.**  Tokens and shares list the ids of calendar
  rows, and SQLite gives a new row the id after the largest one, so that the id
  of a deleted row can come back, as the row of another user even.
* **Two requests for one gesture.**  The modal of a task saves, and then sends
  the status of the occurrence it was opened on.

What makes each part correct is in section 3 for the modelled parts and in
section 7 for the others.  The hazards, each with the line where it bites, are
listed in `PROJECT.json`.

## 2. Modules

| Module | Models |
|---|---|
| `Series` | the pure rewritings of one resource, and what a view shows of it |
| `SeriesEditor` | clients, handlers and CalDAV calls over `Series`; the properties |
| `Agenda` | the abstract specification: a calendar is the plain list of occurrences it shows |
| `IdleLogout` | the session store, the preferences that set its idle limits, the countdown of each tab |
| `MoveItem` | one item among several calendars: moves, edits and deletions in steps |
| `TaskSeries` | the same as `Series` for tasks: their dates, their ticks, their scoped edits (EXTENDS `Series`) |
| `TaskList` | pages, handlers and CalDAV calls over `TaskSeries` |
| `LoginThrottle` | the login limiter and the logins that pass through it |
| `KeyRing` | who holds which data key: logins, password changes, sealing, the administrator's commands |
| `Calendars` | accounts, rows of calendars, their ids, the default mark |
| `Delegation` | `Calendars` composed with tokens, shares and the requests they serve (EXTENDS `Calendars`) |
| `MCSeriesEditor`, `MCIdleLogout`, `MCMoveItem`, `MCTaskList`, `MCKeyRing`, `MCDelegation` | values for TLC |
| `SeriesProofs`, `SeriesEditorProofs` | lemmas about the operators of `Series`; theorems about `SeriesEditor` |
| `IdleLogoutProofs`, `MoveItemProofs`, `KeyRingProofs`, `DelegationProofs`, `LoginThrottleProofs`, `TaskListProofs` | theorems about the module each is named after |

### Series

A resource is a record: `start` (DTSTART), `rule` (RRULE or `NoRule`),
`exdates`, `title` (all text fields, as one value), `allDay` (whether its times
are dates or datetimes) and `overrides` (the RECURRENCE-ID components, each
with its slot `rid`, its own `time` and `title`).  Time is an integer axis whose
tick stands for any unit; DTEND follows DTSTART and is left out, as are alarms,
time zones and `sequence` numbers.  A rule has an interval, a `phase` and a
bound: `Floating` rules (daily, weekly) generate slots from DTSTART; a rule with
a phase stands for a monthly rule with BYMONTHDAY or BYDAY, whose slots stay
where they are when DTSTART moves.  `interval` and `phase` keep of months only
that their slots do not follow DTSTART.

Operators and the functions they stand for: `ShiftUntil` (`_shift_until`),
`BuildRule` (`_build_rrule`), `LastBefore`/`TruncateUntil` (`_truncate_until`),
`CountThrough`/`RemainingRule` (`_count_through`, `_remaining_rule_parts`),
`ShiftOverrides` (`_shift_override`, always called with `time_too=False` by
series edits), `ResetOverrides` (`_reset_override`), `UpsertOverride`
(`_upsert_override`), `OverridesBefore` (`_pop_overrides`), `ResolvePivot`
(`_resolve_pivot`), and `EditPlain`, `EditAll`, `EditThis`, `RewriteFirst`,
`SplitOld`/`SplitNew`, `DeleteThis`, `DeleteFuture` for the branches of
`_sync_update_event` and `_sync_delete_event`.

### SeriesEditor

| Variable | Stands for |
|---|---|
| `store` | the collection on the CalDAV server, by UID |
| `minted` | the UIDs `uuid4` has produced (it never repeats one) |
| `request[c]` | the request of client `c`, from its sending until the server reads the resource |
| `writes[c]` | the PUTs and DELETEs its worker still has to issue |
| `reply[c]`, `fault[c]` | how it was answered, and whether a CalDAV call of it failed |
| `sent` | requests so far, for the bound |

`Drag`, `Save`, `Delete`, `Create` are the gestures of `app.js`, over the
occurrences the view shows when the request is sent.  One action per branch of
the handlers reads the resource and decides on the calls (`UpdatePlain`,
`UpdateAll`, `UpdateThis`, `UpdateFirst`, `UpdateFirstRaises`, `UpdateSplit`,
`CreateEvent`, `NotFound`, `DeleteResource`, `DeleteOccurrence`, `DeleteTail`).
`Put` carries out the next call; `CallFails` and `AnswerLost` are its failures
(the handler stops and answers 502).  A request is thus exposed to every
interleaving between its read and each of its writes.

Outside `src/`, modelled from how the code uses it: a PUT replaces the whole
resource without a precondition and puts it back when it was deleted; a DELETE
of a resource already gone counts as a success; a server's expansion hides an
override whose slot is an EXDATE.

### Agenda

The state is the set of occurrences shown, each with its series, slot, time,
text and whether it was customised.  The scopes are what their names say: one
occurrence, those from a slot on, all of the series.  There are no rules, no
exception dates and no overrides in it, so `SeriesEditor => Agenda` says that
the whole machinery of RRULE rewriting is invisible to the user.

### IdleLogout

| Variable | Stands for |
|---|---|
| `sessions` | `SessionStore._sessions`: per session the seconds since `last_seen` and the idle limit (`Never` when automatic logout is off) |
| `settings` | the user's row: automatic logout, its timeout, notifications |
| `cookie[b]` | the session cookie, shared by the tabs of browser `b` |
| `page[t]` | login page, application, application whose timers were cleared (`stopped`), or on its way out after `doAutoLogout` (`leaving`) |
| `left[t]`, `poll[t]` | `_logoutRemaining`, and the seconds to the next poll |
| `answer[t]` | the answer to the last `GET /auth/session`, until it arrives |
| `pending[t]` | a login or a `PUT /settings` of the tab that its handler is at work on, with what it has read |
| `mixed` | observed: a save overlapped another save or a login |
| `acts` | what users may still do and networks may still lose, for the bound |

`Got`, `Peeked`, `StatusOf`, `Without` are the methods of the store: `get`
refreshes, `peek` and `status` do not, all three forget an expired session.
`Open` is `GET /`, `Work` any request for data.  Logins and saves are cut where
their handlers wait for the database.  A login reads the row (`LoginRead`) and
then creates a session with the limit it read (`Login`).  `PUT /settings` takes
its session (`SaveSettings`), reads the row (`SaveRead`), commits the columns
that differ from what it read (`SaveCommit`, `Committed`), and then gives the
limit of the row as *it* has it to its session (`SaveApply`).  Two saves, or a save
and a login, may so leave the row and the session with different halves.
`Logout` and `LogoutFailed` are the button, `AutoLogout` and `LogoutLost` what
`doAutoLogout` sends.  `Second(R)` lets a second pass and runs the timers of the
tabs `R`; the others are late, as a browser may do to a hidden tab.  Each
operation of the store is one step: the store holds a lock.

The limits of the code are 60 seconds and more (`MIN_AUTO_LOGOUT_SECONDS`), with
a poll every 10: in the model they are a few seconds, only their order matters.

### MoveItem

| Variable | Stands for |
|---|---|
| `held` | the calendars in which the CalDAV servers have a resource of the item's UID |
| `modal[c]` | `_currentEvent.originalCalendarId` of the modal open in page `c` |
| `job[c]` | the request page `c` waits for, and the next call of its handler (`create`, `find`, `change`) |
| `wanted`, `errors`, `overlapped` | observed: no deletion has been asked for; some request was answered 404 or 502; two requests were under way at once |

`Create`, `Find` or `Missing`, and `Change` are the calls of `put_event` and its
twins in `tasks.py` and `journals.py`, in their order; an edit or a deletion has
the last two.  `CallFails` ends a handler before or after the effect of a call;
the modal then stays open and the user may try again.  Events, tasks and
journals differ only in what the recreated item keeps, which is left out here.
A page waits for its request before it sends another.

### TaskSeries and TaskList

A task is `start`, `due` (either may be `Absent`), `rule`, `exdates`, `title`,
`done` and its overrides, which have dates and a `done` of their own.  `Anchor`
is DTSTART, or DUE where there is none: slots are counted from it.
`TickOccurrence` is `_sync_set_task_status` with a pivot, `TickWhole` without
one; `EditTask`, `EditTaskAll`, `EditTaskThis`, `RewriteTask` and
`CutTask`/`FutureTask` are the branches of `_sync_update_task`, `SkipOccurrence`
and `DropTail` those of `_sync_delete_task`.  `Items` is what the list shows.

`TaskList` has the variables of `SeriesEditor`, and `after[c]`, the status
request page `c` will send once its save is answered.  `Toggle`, `Drag`, `Save`,
`Delete` and `Create` are the gestures; `PostStatus` is the second half of
`saveTask`.  A handler reads in one action and issues its PUTs one by one
(`Put`), so that other requests run in between; `CallFails` ends it at any
call, and drops the status request that was waiting.  A drag may reset the times of
the customised occurrences; a save may reset the fields it changes (`Changed`, the
`computeChangedFields` of `app.js`), when its scope is not `this`.  A save may clear both
dates (`DatesFor`): with the recurrence taken off and the scope `thisfuture` that
leaves a rule without a date to count from, and requests about an occurrence of such
a task end in `LosesAnchor`, the KeyError of `_resolve_pivot` that is answered 502.

### LoginThrottle

`attempts[ip]` is `LoginRateLimiter._attempts`, as instants on a clock of
`Second` ticks a second; `flight[q]` is a login whose password is being checked.
`LetThrough` checks and records in one action, because no `await` separates
the two calls in `routers/auth.py`; `Refuse` is the 429 with its Retry-After, `LogIn`
resets the address.  `admitted` and `promise` observe: the attempts let through
since the last successful login, and when a refused client was told it may come
back.

### KeyRing

| Variable | Stands for |
|---|---|
| `user[u]` | the user row: the key that its password unwraps, and the one-off mark |
| `session[s]` | an entry of the session store, and whether the store still lists it: a handler keeps the object across its awaits |
| `account[a]`, `grant[g]` | what is sealed: CalDAV passwords, tokens, shares, each with the key that opens it |
| `req[r]` | a request between two of its steps, with what it has captured so far |
| `admin` | a reset in the administrator's process, with the rows it has read |
| `strained` | observed: users whose key was replaced or removed while a session, a request or a row that is not deleted still had it |

Keys are numbers, the `keys`-th is the latest generated.  Every handler is cut
at its awaits: a login between the row and the session it creates, a change of
password between row, commit and session, a sealing request between the session,
the key it takes from it and its commit.  `ResetRead`/`ResetCommit` are
`admin.py reset-password`, `DeleteUser` and `CreateUser` the other two
commands.

### Calendars and Delegation

`calendar[id]` is a row of the table by its id, `account[a]` the key with which
the password of account `a` is sealed, `key[u]` the number of the newest key of `u`.
A reset gives the user a new one and ends no session, so a session holds the
newest or any earlier key (`SessionKeys`), and seals with it: `late` observes
which accounts were connected with one already replaced.  `Connect` gives its rows the ids
after the largest one in the table (`NextId`).  A PATCH of the default mark is cut
between its reads (`DefaultRead`) and its commit (`DefaultCommit`), which writes
what differs from what it read.  `high` and `reused` observe which ids were
given out more than once; `raced` which users had two patches that set a default
overlap, or a patch of another user land on a row whose id had come back.

`Delegation` adds `grant` (tokens and shares: whose, which key, the ids they may read and
write) and `req`.  A write arrives with its scope check (`CreateTool`,
`UpdateTool`, `DeleteTool`, `JournalTool`, `ShareWrite`), looks its rows up
later (`Locate`, `LocateOrigin`) and calls the server last (`Call`, `Drop`);
a listing or an export takes its rows in one query and fetches them one by one
(`Fetch`, `FetchFails`).  `done` records what a request has touched, `stale`
whether the key it came with had been replaced before it arrived.  Grants
too are minted with the key of the session, and the owner's own listings are made with it.  The actions of
`Calendars` go on in between.

## 3. Runs

`CHECK_DEADLOCK FALSE` in all of them: a behaviour ends when `MaxRequests`
requests have been sent and served (or, in the modules without requests to
count, when ids, keys or the clock are used up).

| Run | Configuration | Shows |
|---|---|---|
| `agenda` | 1 client, 3 requests, COUNT=3 and UNTIL series, drags back and forth, failing calls | `ImplementsAgenda` (refinement), `OverridesOnGrid`, `EditsInPlace`, `SplitConserves` |
| `answered` | 2 clients, 2 requests, timed and all-day events of two occurrences, saves that ask for a monthly rule, failing calls | `UniqueOverrides` under every interleaving of reads and writes; `Answered`, under fairness |
| `idle` | 1 browser, 2 tabs, 2 sessions, timers that may be late, 3 acts, logins and saves in steps, restarts at any time | `NotifyExclusive`: notifications exclude automatic logout in the row and the limit of the session in use, unless a save overlapped another save or a login; `IdleLoggedOut` under fairness: once users stop, no tab with a countdown shows the application unless automatic logout is off |
| `throttle` | 2 addresses, 2 logins at a time, 2 attempts in 2 seconds of 2 ticks, 8 ticks, 4 attempts, restarts | `NeverFlooded`, `PromiseKept`, `NoIdleWait` |
| `keys` | 1 user, 2 sessions, 2 requests, 1 account, 1 grant, 2 keys | `KeysAgree`, `OneOffGuardsNothing` |
| `grants` | 2 users, an account of 2 calendars and one of 1, 2 patches, 1 grant, 1 request, 2 row ids, 2 items, a reset of one user | `OneDefault`, `OnlyOwn`, `WithinScope`, `SurvivorsReachLateOnly`, `ExportComplete` |
| `tasks` | 2 pages, 2 gestures (a save may be two requests), 2 titles, rules of 2 or 3 occurrences, failing calls | `OneStatusPerSlot`, `TicksInPlace`, `TicksFollow` |
| `moves` | 3 pages, 3 calendars, 4 requests, moves from each calendar to the later ones, failing calls | `NeverVanishes`; `OneCopy` |

Bounds.  `MaxRequests` bounds the requests of a behaviour: three are enough to
customise an occurrence, split or shift its series and edit the result, which is
where the data the scopes keep about each other first meet; `Uids` has one more
element than `MaxRequests`, so an edit never waits for a UID.  `Times` bounds
where gestures put occurrences, `Horizon` is wider than anything they can reach.
The series have 2 or 3 occurrences of interval 2: an edit can hit the first, a
middle and the last one, and a moved occurrence can sit between two slots or on
one.  Symmetry is used in runs without liveness only, over values that nothing
distinguishes (UIDs, clients, titles, patches, items).

In `idle` three acts are a login, one more in the same or the other tab and a
loss, or one or two changes of preference; a tab has one handler at work at
most, so two saves of the two tabs can overlap in every way.  Two sessions are needed for a tab
to hold a countdown of one that is gone while the other tab logs in again.
`Cap` is above every limit, so an expired session is told from a live one.

In `moves` three pages are the fewest with a move whose target another move
takes away while a third removes its source.  Moves go one way: if two users move
an item crosswise, each deletes the copy the other has just made and the item is
gone (take `Moves` to be all pairs and TLC shows it).  The code promises only
that a failure leaves the source intact, so this is listed as a hazard and not as
a finding.

In the `agenda` run the client is alone (with two, lost updates are the promised
behaviour of unconditional PUTs, and the refinement would say nothing), drags
leave the rule alone (`RuleEdits = {}`, `Retimes = {}`), and no plain occurrence
is edited while a moved one sits at its slot (`EditShadowed = FALSE`).  The code
needs each of these restrictions, and TLC shows what it does without them: with
`EditShadowed` an edit of a plain occurrence goes to the moved one whose time
is that slot; with `Retimes` and two titles a new title for the whole series
moves it (`KeepsAnchor`); with `RuleEdits` a shorter rule leaves overrides past
its end, and a split saved from the modal gives the new series the full COUNT:
`SplitConserves` says in its formula, not only by the configuration, that it is about
drags.  `ErrorsExplained` is left to the run `allday`: for timed events no
action of the model raises an error by itself, so a pass would say nothing.

`NotifyExclusive` needs both its exceptions.  Without `mixed` two tabs of one
browser break it: one save enables notifications while another, which read the row
before, enables automatic logout, and the row keeps both; or the session gets the limit
of the save that committed first.  With two browsers even requests that
follow one another leave a limit behind, which the run `notify` shows.
`KeptWhileActive` fails (a countdown may end a session that a request has just
refreshed).  The hazards in `PROJECT.json` say which line each comes from.

In `throttle` the window holds as many attempts as it may twice over within the
horizon, seconds are rounded (two ticks each), and a refused client comes back before and
after it was told to.  In `keys` one user is enough, since nothing one user's
requests read or write is another's; two keys are a reset; two requests are the least
in which a change of password overlaps another, or a seal a reset; an entry
taken from the store is seen through the request that keeps it.  In `keys`, users for
whom a reset or a change of password overlapped a request that holds the key
(`strained`) are excluded: the code does lose what is sealed then.

In `grants` there are fewer ids than the accounts would need together, so that ids
come back, as those of the same account connected again and of another user.  One
request and one grant suffice:
requests neither read nor write what others leave, and the owner acts at any
point between their steps.  One reset gives a session with an old key, an account
connected through it (`late`) and a share that survives.  `Focus` (a CONSTRAINT) keeps
apart what does not meet: default marks, which no grant looks at, are followed where there
is no grant and no request; the owner's own listings, which look at no grant, where
there is none; and a grant that has lapsed only while a request of it is under way,
since nothing else looks at it.  What TLC does not cover there, and the proofs do, is a
user with two accounts, of which one is sealed with an old key and one with the new.
`OneDefault` excludes users for whom two patches that set a default overlapped
(`raced`): the code then leaves two.

The first task in `tasks` is a due-only series, a series with start and due
date, a task without dates, or a completed one with a start.  Two gestures are
a save with its status request, and one more by the same or the other page in
between.  Two titles tell whose text an occurrence shows after a tick.

Runs that find the code at odds with its comments or documents:

| Run | Property violated | What happens |
|---|---|---|
| `allday` | `ErrorsExplained` | `thisfuture` on the first occurrence of an all-day series subtracts a datetime from a date: TypeError, 502 |
| `untick` | `UntickKeepsText` | unticking an occurrence whose text was edited and whose dates were not removes its override, and with it the text |
| `notify` | `NotificationsDisableLogout` | notifications enabled in one browser leave the idle limit of the user's session in another |
| `itemlinks` | `ItemLinksWriteTheirItem` | a read and write link to one item creates another item: the creation routes check no uid |

The details, with the lines quoted, are under "findings" in `PROJECT.json`.

## 4. Fairness

`WF_vars(Handle(c) \/ Put(c))` for every client: worker threads are scheduled,
and the CalDAV server answers a call that does not fail.  The code sets no
timeout on its calls, so the second half is an assumption about the server and
the network and not something the code enforces.  `CallFails` and `AnswerLost`
are not part of the fairness: failures may happen and are never counted on, so
`Answered` (every request is answered, the liveness of this module) cannot be
bought by a failure.  Nothing is assumed of the users: they may stop sending.

In `IdleLogout`: `WF` on `Poll`, `Answer` and `AutoLogout` of every tab, and on
the seconds in which its timers run.  A browser may delay the timers of a hidden
tab and does not stop them; a closed tab shows nothing.  `IdleLoggedOut` is
about what remains when users have stopped, so no fairness is put on their acts;
`acts` being finite is what makes them stop.  It leaves out tabs whose logout
button failed (`stopped`): the code has cleared their timers and nothing ends
them.

In `TaskList`: `WF` on a handler, its calls and `PostStatus`, for the same
reasons; the properties checked of it so far are safety.  `LoginThrottle`, `KeyRing`,
`Calendars` and `Delegation` state no fairness: what is checked there is what
requests may do, not that anyone makes them.

## 5. Proofs

`SeriesProofs` and `SeriesEditorProofs` are checked by TLAPS for every value of
the constants allowed by `SeriesAssumption` and `EditorAssumption`: any number
of clients, UIDs, titles, times and requests, any rules.

* `TypeCorrect == Spec => []TypeOK`.  Not a formality here: `Rule` requires
  `n >= 1` of a COUNT rule (RFC 5545), so the theorem says that the arithmetic
  of `_remaining_rule_parts` never produces COUNT=0, and that cutting a rule
  always finds an integer to cut at (`LastBeforeSpec`, `LeastNat`,
  `GreatestInt`).
* `OverridesUnique == Spec => []UniqueOverrides`, under any interleaving and
  failures.

The inductive invariant is `IInv`: `TypeOK`, and `OnePerSlot` for every
resource that is stored or waiting to be PUT.  `UniqueOverrides` alone does not
carry the induction, because an edit builds its result from a typed resource
(`OverrideTypes`, `RuleTypes`), and because the resources of `writes` must be
sound before they reach `store`.  `SeriesEditsStaySound` and
`DeletesStaySound` state once what each branch does to a sound resource:
`UpsertOverride` replaces, and `ShiftOverrides` moves all overrides of a series
by one distance, so two of them never meet (`OverridesStayUnique`); each handler
lemma of `SeriesEditorProofs` then only has to place its result in `writes`.

Those two hold for any number of clients.  What one client that drags, creates
and deletes can rely on is proved under `DragsOnly` (see "Hypotheses" below), again
for any number of requests, any times and with failing calls:

* `OverridesKeepTheirSlots`: `Spec => []OverridesOnGrid`.
* `EditsStayInPlace`: `Spec => EditsInPlace`.
* `SplitsConserve`: `Spec => SplitConserves`.  Slot by slot: the old series has exactly
  the slots before the pivot, the new one exactly the others, moved as far as the
  pivot.  About drags only: a save from the modal sends the rule, and the new
  series starts its COUNT again (line 1328).
* `ImplementsTheAgenda`: `Spec => ImplementsAgenda`, the refinement.

Invariant.  All four come from one invariant, `DragInv(G)`, in which `G` is a set
of resources that is `Closed`: it has the series that can be created, and with a
resource everything that one PUT of a scoped edit, a split or a deletion may
replace it by.  The store stays within `G`, a request under way was made from the
resource as it is stored now (`Fresh`: with one client nothing comes between), and
calls still to be issued are those of one rewrite or of one split of it
(`Planned`).  Induction is thus done once, and each theorem only has to name a
closed set: `Tidy`, series with unique overrides, at slots the rule has, none
of them excluded (`TidyClosed`), or `Reached(W)`, those of them whose slots
lie within `W` of a time a gesture can use (`ReachedClosed`).  `SeriesProofs` has what
these need of the rules: shifting the start shifts the slots, a COUNT keeps
counting from the same one, cutting a rule before a pivot leaves exactly the slots
before it, and the rest of the count starts at the pivot (`SlotsOf`, `Kept`).

Refinement.  The items shown of a series are one per slot that is not excluded
(`ItemAt`, `ShownItems`).  There is one lemma per operation of the code (`PlainStep`,
`AllStep`, `ThisStep`, `FirstStep`, `RemoveStep`, `CutStep`, `SplitStep`,
`CreateStep`, `RemoveSeriesStep`) that says which operation of the agenda it is;
`RewriteStep` gathers those that take one PUT.  `Steps`, `ReplaceStep` and
`ReplaceTwo` carry a step from the items of one series to all that is shown.
Sends and answers show nothing new (`SentUnseen`, `HandledUnseen`).  A split is two
PUTs: `Halfway` says what is shown between them, `FirstCallSeen` that the step of
the agenda is taken at the first, `CallSeen` that nothing changes at the second,
and `FailureSeen` that a second PUT that fails is the removal of the new series.

Hypotheses.  `DragsOnly` is what the run `agenda` assumes, and section 3 says
what TLC shows without it: one client, no saves that change title and time apart
(`Retimes`), and rules that the start follows (no day of month).  `EditsStayInPlace`
and `ImplementsTheAgenda` assume `Unshadowed` as well: no edit of a plain occurrence
at whose slot a moved one sits.  Without it such an edit reaches the moved one, even
one deleted since, for `_resolve_pivot` looks at overrides and not at exception
dates.  Three requests are too few to see what that does to the refinement; the proof
asks for it, and with four TLC shows it: move an occurrence onto the slot of another,
delete it, move a third, then edit the one whose slot it was with "this and
future".  The series is split at the deleted slot, and the new one starts with a
customised occurrence where the agenda has the edited one.  The other two
theorems hold with such edits too.  `BoundedWindow` says there is a span that no
series exceeds and that the window reaches so far from every time of a gesture;
in `agenda` it is 4.  `WideWindow` also allows a window of all integers,
for series without an end.  `ImplementsTheAgenda` assumes it: with a window that hides
slots an `all` edit may bring into view occurrences that the agenda never had.

`IdleLogoutProofs`, for any browsers, tabs, sessions and limits allowed by
`IdleAssumption`:

* `IdleTypes == Spec => []TypeOK`; `StatusTyped` is the part that matters: the
  seconds left are a natural number although the store expires a session only
  when strictly more than its limit has passed.
* `NotifyExclusiveSerial == Spec => []NotifyExclusive`.  The inductive invariant
  is `Off`: as long as nothing is mixed, a save under way is the only request at work
  (`Alone`), so the row it read is still the row when it commits, and what it
  committed is still the row when it reaches its session (`Current`); with one
  browser that session is the one in use (`InUse`).  Between commit and session the
  limit may lag behind the row (`Applying`), which is why the property speaks of the
  session only when no request is under way.  Every other step forgets sessions
  at most and changes no limit (`LimitsKept`).

`MoveItemProofs`, for any pages, calendars and moves allowed by `MoveAssumption`:

* `NeverLost`: if every move goes to a calendar with a greater number,
  `Spec => []NeverVanishes`.  The inductive invariant `Kept` says that behind
  every move that has passed its `create` the item is held *somewhere* further
  up than its source: not necessarily at its target, which another move may
  have emptied since, but then in favour of a calendar further up still.
* `OneCopyLeft == Spec => []OneCopy`, without that restriction.  `Tidy` fixes
  what the calendars hold at each stage of a request that runs alone.

`MoveTypes == Spec => []TypeOK` is proved there as well.

`KeyRingProofs`, for any users, sessions, requests, accounts, grants and keys:

* `KeyTypes`, and `KeysAlwaysAgree == Spec => []KeysAgree`: outside the overlaps
  that `strained` records, every copy of a user's key is the one the password
  unwraps.  `KeysAgree` speaks of what is sealed, of sessions and of requests under
  way alike, which is what makes it inductive: a request seals with the key it
  has kept.  `Rooted` adds that a request that keeps a session entry keeps one that
  is there and belongs to its own user, so that a change of password re-keys the
  entry it means.
* `NothingBehindOneOff == Spec => []OneOffGuardsNothing`.  `OneOff` and
  `Restrained` add what keeps it true: the sessions of a user with a one-off
  password are restricted, and no request that seals is under way for one.

`LoginThrottleProofs`, for any limit, window, addresses and logins under way:

* `FloodGuard == Spec => []NeverFlooded`: `Recorded` says the limiter's list has
  every attempt let through that a window could still contain, so that a window
  with more of them would have been refused.
* `ThrottleTypes == Spec => [](TypeOK /\ ListsSound)`: besides the types, no
  address has more attempts in its list than the limit and none lies in the future.
* `PromisesKept == Spec => []PromiseKept` and `NoWaitIsIdle == Spec =>
  []NoIdleWait`: `Promised` says a promise was made with a full list and lies within
  a second after the oldest attempt of it leaves the window.

`DelegationProofs`, for any users, accounts, grants, requests and row ids:

* `OnlyOwnCalendars`, `ScopesHold`, `OldKeysReachLateOnly`, `ExportsComplete`:
  four invariants of the run `grants`.  The inductive invariant has a
  part for each table and one for requests: `Rows` (every row is a calendar of its
  account, and its id was given out), `Sealed` (an account opens with the newest key
  of its user, or it is in `late`), `SoundGrants` (an id in a scope still stands for
  what was ticked, unless it is in `reused`; no key in a grant is newer than its user's) and
  `SoundRequests` (what a request has located is within its scope, and one with a
  replaced key has only got past the look-up of rows of `late` accounts).  A reset
  deletes all accounts of the user, which is why a share it forgets reaches
  nothing of what was there; a session it forgets may connect an account the share then
  reaches.  `ScopesHold` says nothing of items created through an item link (run
  `itemlinks`), nor of rows whose id has come back.
* `AtMostOneDefault == Spec => []OneDefault`: users with overlapping patches that set a
  default are excluded by `raced`, which the property names.  `OneDefault` says nothing
  of the patches under way, so
  `DefaultsInv` adds two parts: outside `raced` at most one patch of a user is
  about to set a default (`OneSetter`), and every default there is, is one it
  has read and will clear, or its own row (`SettersClear`).  Rows that go away while
  it waits only make that easier; a connect adds none.  It is an invariant of
  `CalendarsSpec`, and every step of `Delegation` is one of `Calendars` or leaves its
  variables alone (`StepsOfCalendars`).

`TaskListProofs`, for any pages, tasks, rules and gestures:

* `TaskTypes` and `OneStatus == Spec => []OneStatusPerSlot`: as in the editor, the
  invariant speaks of the tasks stored and of those about to be PUT
  (`SoundTask`); one lemma per operation of `TaskSeries` says that it makes
  sound tasks of sound ones.  A series may have lost its dates (`LosesAnchor`), so
  the lemmas about occurrences are stated for `DatedSeries`, and a handler gets there
  only through its own look-up (`FoundOccurrence`).
* `TickedInPlace == Spec => TicksInPlace`: `TickTouches` says a tick changes the
  overrides of one slot; `OthersStay`, `TickKeepsDates` and `TickTells` read
  off what the page shows then: the other occurrences the same in every respect, the
  one at the pivot with its dates, and with its text if it was ticked.  That overrides
  are unique is needed here: the code looks at the first it finds.  Unticking may
  show the text of the series (run `untick`), and a task that was done before it
  recurred stays done (line 2164).
* `TicksCarried == Spec => TicksFollow`, from `CarriedTicks` (rebinding and
  resetting keep the ticks, shifted), applied to an edit of the whole series
  (`EditAllCarries`), to the rewrite in place of a whole series from its first
  occurrence (`RewriteCarries`) and to the two halves of a split (`CutKeepsEarlier`,
  `FutureTakesLater`).  The tick at the pivot is left open; so are edits of this and
  the future occurrences that give the task a start or a due date it did not have,
  or take one away.

Model-checked only: liveness (`Answered`, `IdleLoggedOut`), which rests on
fairness and so on ENABLED, out of the prover's reach.  The four properties of the
runs that expect a violation are of course not proved.  Every other property of the runs
is stated by a theorem.  Facts that need induction over what a recursive
function computes were avoided: occurrences are sets of integers and not lists.

`SUBSET` and `UNION` are written with parentheses throughout, as in
`(SUBSET S) \ {{}}`: TLC and TLAPS group them differently next to `\` and `\cup`.

## 6. Not modelled, and why

* Data no property speaks about: resizing an event, reminders, priorities,
  names and colours, time zones (times are integers), wording and layout.
* Conversion of a series between all-day and timed; drags of monthly series with
  scope `all` or `thisfuture` (they move DTSTART off the rule's slots, and what
  is shown then is the CalDAV server's choice).
* Foreign CalDAV clients: their edits are those of one more page, as far as they
  write what the application writes.
* What a move keeps of a series or of a completed task (`MoveItem` knows only
  where the item is).
* In `Delegation`: the tools that list journals and the names of calendars (they
  read what the listing reads), the window of time of a share (it narrows what
  is shown within a calendar), and revocation during a request (the context was
  resolved when it arrived, as in the code).
* In `KeyRing`: the cryptography itself, which is what key opens what; wrong
  passwords, which change nothing there and are in `LoginThrottle`.
* In `LoginThrottle`: a clock that is set back (the limiter reads
  `datetime.now(UTC)`, which is not monotonic), and the memory that addresses take
  which never ask again (an address is pruned only when it does).
* Browser notifications and the agenda's incremental loading, holidays, export
  text, application shell, templates and vendored scripts: their reasons are
  with the components of `PROJECT.json`.

## 7. What is left

1. Browser notifications: each trigger fires at most once, and once if the tab
   lives; the agenda's incremental loading against a full load.
2. Moves composed with `TaskSeries`: what a recurring or completed task keeps.
3. Liveness of `TaskList` (both requests of a save are answered), which
   needs an instance without symmetry.
4. Proofs: the agenda with saves that change the rule (`RuleEdits`), which needs an
   `Agenda` in which a series can be made anew from a slot on.
