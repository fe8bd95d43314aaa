------------------------------ MODULE Delegation ------------------------------
(***************************************************************************)
(* Who may do what with whose calendars: the owner in a session, an        *)
(* assistant with an API token (src/webcaldav/tokens.py, mcp_server.py)    *)
(* and the holder of a share link (shares.py, routers/shares.py), while    *)
(* the owner connects and deletes accounts, resets the password and        *)
(* revokes grants.  A grant carries its data key and the ids of calendar   *)
(* rows; a request checks them when it arrives, looks the rows up later    *)
(* and calls the CalDAV server last.  What the call does to the calendar   *)
(* is modelled elsewhere (SeriesEditor, MoveItem, TaskList): here it is    *)
(* what it touched.                                                        *)
(***************************************************************************)
EXTENDS Calendars

CONSTANTS Grants, Requests,
          Uids,         \* items
          New           \* the uid of an item a request creates

(* A context, of a session or of a grant: whose, the key, the ids that may *)
(* be read and written - all of them for an unscoped token - and the only  *)
(* item of an item share.  Observed: the collections that were ticked.     *)
Context == [user : Users, key : Nat, kind : {"owner", "token", "range", "item"},
            reads : SUBSET Ids, writes : SUBSET Ids, uid : Uids \cup {None},
            ticked : SUBSET Collections]

(* A grant that has expired or is revoked is not live; its context stays   *)
(* with the requests under way.                                            *)
GrantRow == [ctx : Context, live : BOOLEAN]

(* What a request did to an item, or showed of a calendar.                 *)
Trace == [id : Ids, coll : Collections, what : {"create", "change", "delete", "read"},
          uid : Uids \cup {New, None}]

(* A write: the rows it found, its target's and - for a move - its         *)
(* origin's.  A listing: the rows still to fetch and those it missed.      *)
(* Observed: that its key had been replaced by a reset when it arrived.    *)
Write == [by : Grants, stale : BOOLEAN, done : SUBSET Trace,
          op : {"create", "change", "delete", "move"}, step : {"target", "origin", "call", "drop"},
          id : Ids, from : Ids \cup {None}, uid : Uids \cup {New},
          target : Collections \cup {None}, origin : Collections \cup {None}]
Listing == [by : Grants \cup Users, stale : BOOLEAN, done : SUBSET Trace,
            op : {"list", "export"}, step : {"fetch", "answered"},
            rows : [Ids -> Collections \cup {None}], asked : SUBSET Ids]

ASSUME DelegationAssumption ==
  /\ None \notin Uids \cup {New} \cup Collections /\ New \notin Uids
  /\ None \notin GrantRow \cup Write \cup Listing
  /\ Grants \cap Users = {}

VARIABLES grant, req

vars == <<calendarVars, grant, req>>

Init ==
  /\ CalendarsInit
  /\ grant = [g \in Grants |-> None]
  /\ req = [r \in Requests |-> None]

(* The calendars of a user's accounts, and those of the late ones.         *)
CollsOf(u) == UNION {Holds[a] : a \in {b \in Accounts : Owner[b] = u}}
LateColls(u) == UNION {Holds[a] : a \in {b \in late : Owner[b] = u}}

-----------------------------------------------------------------------------
(* Grants, minted by a session and sealed with its key.                    *)

Live(g) == grant[g] # None /\ grant[g].live

Issue(g, ctx) ==
  /\ grant[g] = None
  /\ grant' = [grant EXCEPT ![g] = [ctx |-> ctx, live |-> TRUE]]
  /\ UNCHANGED <<calendarVars, req>>

TickedIn(ids) == {calendar[id].coll : id \in ids}

(* An API token for all calendars or for some of the user's.               *)
MintToken(g, u) ==
  \E rw \in BOOLEAN, ids \in ((SUBSET OwnedIds(u)) \ {{}}) \cup {Ids}, k \in SessionKeys(u) :
    Issue(g, [user |-> u, key |-> k, kind |-> "token", reads |-> ids,
              writes |-> IF rw THEN ids ELSE {}, uid |-> None,
              ticked |-> IF ids = Ids THEN CollsOf(u) ELSE TickedIn(ids)])

(* A share of a grid or an agenda, with the calendars that may be written. *)
MintShare(g, u) ==
  \E ids \in (SUBSET OwnedIds(u)) \ {{}}, k \in SessionKeys(u) : \E writable \in SUBSET ids :
    Issue(g, [user |-> u, key |-> k, kind |-> "range", reads |-> ids,
              writes |-> writable, uid |-> None, ticked |-> TickedIn(ids)])

(* A share of one item.                                                    *)
MintItemShare(g, u) ==
  \E rw \in BOOLEAN, id \in OwnedIds(u), uid \in Uids, k \in SessionKeys(u) :
    Issue(g, [user |-> u, key |-> k, kind |-> "item", reads |-> {id},
              writes |-> IF rw THEN {id} ELSE {}, uid |-> uid, ticked |-> TickedIn({id})])

Lapses(g) == grant' = [grant EXCEPT ![g].live = FALSE]

Expire(g) == Live(g) /\ Lapses(g) /\ UNCHANGED <<calendarVars, req>>

(* Its owner revokes it.                                                   *)
Revoke(g) == Live(g) /\ Lapses(g) /\ UNCHANGED <<calendarVars, req>>

(* The administrator's reset deletes the user's accounts and tokens; the   *)
(* shares stay.                                                            *)
ResetPassword(u) ==
  /\ NewKey(u)
  /\ grant' = [g \in Grants |->
       IF Live(g) /\ grant[g].ctx.user = u /\ grant[g].ctx.kind = "token"
       THEN [grant[g] EXCEPT !.live = FALSE] ELSE grant[g]]
  /\ UNCHANGED req

-----------------------------------------------------------------------------
(* Arriving: the secret is resolved and the scope checked at once.         *)

ResolveToken(g) == Live(g) /\ grant[g].ctx.kind = "token"
ResolveShare(g) == Live(g) /\ grant[g].ctx.kind # "token"

(* A session's context has the whole of what the user owns.                *)
OwnerContext(u, k) ==
  [user |-> u, key |-> k, kind |-> "owner", reads |-> Ids, writes |-> Ids,
   uid |-> None, ticked |-> CollsOf(u)]

(* Once a session has asked, its key is not looked at again.               *)
Ctx(by) == IF by \in Users THEN OwnerContext(by, key[by]) ELSE grant[by].ctx

Stale(ctx) == ctx.key # key[ctx.user]

(* The scope check of the assistant's tools.                               *)
TokenMayWrite(ctx, id) == id \in ctx.writes

(* Mutant: the calendar an item is moved from is not checked.              *)
ShareMayWrite_NoOrigin(ctx, id, from, uid) ==
  /\ id \in ctx.writes
  /\ ctx.kind = "item" /\ uid # New => uid = ctx.uid

ShareMayWrite(ctx, id, from, uid) ==
  /\ id \in ctx.writes
  /\ from # None => from \in ctx.writes
  /\ ctx.kind = "item" /\ uid # New => uid = ctx.uid

Arrives(r, request) ==
  /\ req[r] = None
  /\ req' = [req EXCEPT ![r] = request]
  /\ UNCHANGED <<calendarVars, grant>>

AskWrite(r, g, op, id, from, uid) ==
  Arrives(r, [by |-> g, stale |-> Stale(grant[g].ctx), done |-> {},
              op |-> op, step |-> "target", id |-> id, from |-> from, uid |-> uid,
              target |-> None, origin |-> None])

(* The tools that create events and tasks, those that change them and      *)
(* those that delete them.                                                 *)
CreateTool(r, g, id) ==
  /\ ResolveToken(g) /\ TokenMayWrite(grant[g].ctx, id)
  /\ AskWrite(r, g, "create", id, None, New)

UpdateTool(r, g, id, uid) ==
  /\ ResolveToken(g) /\ TokenMayWrite(grant[g].ctx, id)
  /\ AskWrite(r, g, "change", id, None, uid)

DeleteTool(r, g, id, uid) ==
  /\ ResolveToken(g) /\ TokenMayWrite(grant[g].ctx, id)
  /\ AskWrite(r, g, "delete", id, None, uid)

(* The journal tools: the same checks for all three.                       *)
JournalTool(r, g, op, id, uid) ==
  /\ ResolveToken(g) /\ TokenMayWrite(grant[g].ctx, id)
  /\ uid = New <=> op = "create"
  /\ AskWrite(r, g, op, id, None, uid)

(* The share page's writes; saving may name the calendar the item was in.  *)
ShareWrite(r, g, op, id, from, uid) ==
  /\ ResolveShare(g) /\ ShareMayWrite(grant[g].ctx, id, from, uid)
  /\ uid = New <=> op = "create"
  /\ from # None <=> op = "move"
  /\ from # id
  /\ AskWrite(r, g, op, id, from, uid)

(* A listing takes the rows it will fetch in one query.                    *)
AskListing(r, by, ctx, op, ids) ==
  Arrives(r, [by |-> by, stale |-> Stale(ctx), done |-> {}, op |-> op,
              step |-> "fetch", asked |-> ids,
              rows |-> [id \in Ids |-> IF id \in ids THEN calendar[id].coll ELSE None]])

Enabled(ids) == {id \in ids : calendar[id].enabled}

(* Can every account of these rows be opened with the context's key?       *)
Opens(ctx, ids) == \A id \in ids : account[calendar[id].account] = ctx.key

(* The assistant lists the enabled calendars of its scope, of these the    *)
(* ones it asks for; one account it cannot open fails the whole request.   *)
ListTool(r, g) ==
  /\ ResolveToken(g)
  /\ \E wanted \in SUBSET (Enabled(OwnedIds(grant[g].ctx.user)) \cap grant[g].ctx.reads) :
       /\ Opens(grant[g].ctx, wanted)
       /\ AskListing(r, g, grant[g].ctx, "list", wanted)

(* One item's details: all of its calendar is fetched, enabled or not.     *)
DetailsTool(r, g, id) ==
  /\ ResolveToken(g) /\ id \in grant[g].ctx.reads
  /\ Owns(grant[g].ctx.user, id) /\ Opens(grant[g].ctx, {id})
  /\ AskListing(r, g, grant[g].ctx, "export", {id})

ReadableCalendars(ctx) == OwnedIds(ctx.user) \cap ctx.reads

ShareItems(r, g) ==
  /\ ResolveShare(g) /\ Opens(grant[g].ctx, ReadableCalendars(grant[g].ctx))
  /\ AskListing(r, g, grant[g].ctx, "list", ReadableCalendars(grant[g].ctx))

ShareExport(r, g) ==
  /\ ResolveShare(g) /\ Opens(grant[g].ctx, ReadableCalendars(grant[g].ctx))
  /\ AskListing(r, g, grant[g].ctx, "export", ReadableCalendars(grant[g].ctx))

(* The owner: the calendar's data, the change tokens, an export.           *)
OwnerData(r, u, k) ==
  /\ Opens(OwnerContext(u, k), Enabled(OwnedIds(u)))
  /\ AskListing(r, u, OwnerContext(u, k), "list", Enabled(OwnedIds(u)))

OwnerExport(r, u, k) ==
  \E ids \in (SUBSET OwnedIds(u)) \ {{}} :
    /\ Opens(OwnerContext(u, k), ids)
    /\ AskListing(r, u, OwnerContext(u, k), "export", ids)

-----------------------------------------------------------------------------
(* Answering.                                                              *)

Answer(r) == req' = [req EXCEPT ![r] = None] /\ UNCHANGED <<calendarVars, grant>>

Goes(r, step) ==
  /\ req' = [req EXCEPT ![r] = step]
  /\ UNCHANGED <<calendarVars, grant>>

(* Mutant: the row is looked up by its id alone.                           *)
Found_Anyones(ctx, id) == calendar[id] # None /\ account[calendar[id].account] = ctx.key

(* The row is there, its account is the context's user's, and the password *)
(* opens; otherwise the request is refused.                                *)
Found(ctx, id) == Owns(ctx.user, id) /\ account[calendar[id].account] = ctx.key

(* Mutant: a move does not look its origin up.                             *)
Locate_SkipsOrigin(r) ==
  /\ req[r] # None /\ req[r].step = "target"
  /\ IF Found(Ctx(req[r].by), req[r].id)
     THEN Goes(r, [req[r] EXCEPT !.target = calendar[req[r].id].coll, !.step = "call"])
     ELSE Answer(r)

Locate(r) ==
  /\ req[r] # None /\ req[r].step = "target"
  /\ IF Found(Ctx(req[r].by), req[r].id)
     THEN Goes(r, [req[r] EXCEPT !.target = calendar[req[r].id].coll,
                                 !.step = IF req[r].op = "move" THEN "origin" ELSE "call"])
     ELSE Answer(r)

LocateOrigin(r) ==
  /\ req[r] # None /\ req[r].step = "origin"
  /\ IF Found(Ctx(req[r].by), req[r].from)
     THEN Goes(r, [req[r] EXCEPT !.origin = calendar[req[r].from].coll, !.step = "call"])
     ELSE Answer(r)

Did(r, what) ==
  [id |-> req[r].id, coll |-> req[r].target, what |-> what, uid |-> req[r].uid]

(* The call to the server: for a move it creates the item on the target.   *)
Call(r) ==
  /\ req[r] # None /\ req[r].step = "call" /\ req[r].done = {}
  /\ LET what == IF req[r].op = "move" THEN "create" ELSE req[r].op
     IN  Goes(r, [req[r] EXCEPT !.done = {Did(r, what)},
                                !.step = IF req[r].op = "move" THEN "drop" ELSE "call"])

(* And then deletes it on the origin.                                      *)
Drop(r) ==
  /\ req[r] # None /\ req[r].step = "drop"
  /\ Goes(r, [req[r] EXCEPT !.done = @ \cup
                {[id |-> req[r].from, coll |-> req[r].origin, what |-> "delete",
                  uid |-> req[r].uid]}, !.step = "call"])

(* A call fails, or all are done.                                          *)
WriteEnds(r) ==
  /\ req[r] # None /\ req[r].step \in {"call", "drop"}
  /\ Answer(r)

Left(r) == {id \in Ids : req[r].rows[id] # None}
Shown(r) == {t.id : t \in req[r].done}

Fetch(r, id) ==
  /\ req[r] # None /\ req[r].step = "fetch" /\ id \in Left(r)
  /\ Goes(r, [req[r] EXCEPT !.rows[id] = None, !.done = @ \cup
       {[id |-> id, coll |-> req[r].rows[id], what |-> "read", uid |-> Ctx(req[r].by).uid]}])

(* Mutant: an export leaves out a calendar it could not fetch.             *)
FetchFails_Skips(r, id) ==
  /\ req[r] # None /\ req[r].step = "fetch" /\ id \in Left(r)
  /\ Goes(r, [req[r] EXCEPT !.rows[id] = None])

(* A listing leaves out a calendar it could not fetch, an export is an     *)
(* error then.                                                             *)
FetchFails(r, id) ==
  /\ req[r] # None /\ req[r].step = "fetch" /\ id \in Left(r)
  /\ IF req[r].op = "list"
     THEN Goes(r, [req[r] EXCEPT !.rows[id] = None])
     ELSE Answer(r)

ListingAnswers(r) ==
  /\ req[r] # None /\ req[r].step = "fetch" /\ Left(r) = {}
  /\ Goes(r, [req[r] EXCEPT !.step = "answered"])

ListingEnds(r) == req[r] # None /\ req[r].step = "answered" /\ Answer(r)

-----------------------------------------------------------------------------

Granting ==
  \/ \E g \in Grants, u \in Users : MintToken(g, u) \/ MintShare(g, u) \/ MintItemShare(g, u)
  \/ \E g \in Grants : Expire(g) \/ Revoke(g)
  \/ \E u \in Users : ResetPassword(u)

Asking(r) ==
  \/ \E u \in Users : \E k \in SessionKeys(u) : OwnerData(r, u, k) \/ OwnerExport(r, u, k)
  \/ \E g \in Grants :
       \/ ListTool(r, g) \/ ShareItems(r, g) \/ ShareExport(r, g)
       \/ \E id \in Ids :
            \/ CreateTool(r, g, id) \/ DetailsTool(r, g, id)
            \/ \E uid \in Uids : UpdateTool(r, g, id, uid) \/ DeleteTool(r, g, id, uid)
            \/ \E op \in {"create", "change", "delete"}, uid \in Uids \cup {New} :
                 JournalTool(r, g, op, id, uid)
            \/ \E op \in {"create", "change", "delete", "move"}, from \in Ids \cup {None},
                  uid \in Uids \cup {New} : ShareWrite(r, g, op, id, from, uid)

Answering(r) ==
  \/ Locate(r) \/ LocateOrigin(r) \/ Call(r) \/ Drop(r) \/ WriteEnds(r)
  \/ \E id \in Ids : Fetch(r, id) \/ FetchFails(r, id)
  \/ ListingAnswers(r) \/ ListingEnds(r)

Next ==
  \/ (Owning \/ Patching) /\ UNCHANGED <<grant, req>>
  \/ Granting
  \/ \E r \in Requests : Asking(r) \/ Answering(r)

Spec == Init /\ [][Next]_vars

-----------------------------------------------------------------------------

(* Types; what a request touched is a calendar it has looked up.           *)
TypeOK ==
  /\ CalendarsTypeOK
  /\ grant \in [Grants -> GrantRow \cup {None}]
  /\ req \in [Requests -> Write \cup Listing \cup {None}]

(* What a grant's request shows or does is in a calendar that was ticked   *)
(* when the grant was made, writes only where it may, and an item share    *)
(* changes and deletes only its item (tokens.py, shares.py,                *)
(* routers/shares.py _authorize_write), whatever the owner does between    *)
(* the check and the call.  Two things it lets through that the documents  *)
(* do not: a row that got the id of a deleted one is taken for it, though  *)
(* it was added after the grant was made (MCP.md: never ones added         *)
(* afterward), and an item share may create items, which                   *)
(* ItemLinksWriteTheirItem is about.                                       *)
WithinScope ==
  \A r \in Requests : req[r] # None =>
    LET ctx == Ctx(req[r].by)
    IN  \A t \in req[r].done :
          /\ t.coll \in ctx.ticked \/ t.id \in reused
          /\ t.what = "read" => t.id \in ctx.reads
          /\ t.what # "read" => t.id \in ctx.writes
          /\ ctx.kind = "item" /\ t.what \in {"change", "delete"} => t.uid = ctx.uid

(* An item share writes to its item only (SHARING.md: a single-item link   *)
(* only to that one item; the check of _authorize_write is given no uid    *)
(* when an item is created).                                               *)
ItemLinksWriteTheirItem ==
  \A r \in Requests : req[r] # None /\ Ctx(req[r].by).kind = "item" =>
    \A t \in req[r].done : t.what # "read" => t.uid = Ctx(req[r].by).uid

(* No context ever reaches a calendar of another user, not even when a row *)
(* id it names has come back as a row of that user (events.py              *)
(* _calendar_for and the joins on the account's user).                     *)
OnlyOwn ==
  \A r \in Requests : req[r] # None =>
    \A t \in req[r].done : t.coll \in CollsOf(Ctx(req[r].by).user)

(* A share, token or session with a key that a reset has replaced reaches  *)
(* only calendars of late accounts, those that a session which outlived    *)
(* the reset has connected - not what was stored before the reset, nor     *)
(* what is stored with the newer key, though its ids may by then name such *)
(* rows (admin.py _reset_user deletes the accounts and replaces the data   *)
(* key, but ends no session and no share; caldav_accounts.py seals with    *)
(* the key of the session).                                                *)
SurvivorsReachLateOnly ==
  \A r \in Requests : req[r] # None /\ req[r].stale =>
    \A t \in req[r].done : t.coll \in LateColls(Ctx(req[r].by).user)

(* An export that is answered has every calendar there was in its scope    *)
(* when it was asked for: a server that fails makes it an error, never a   *)
(* file with something missing (caldav_client.py export_range_ics).        *)
ExportComplete ==
  \A r \in Requests :
    req[r] # None /\ req[r].op = "export" /\ req[r].step = "answered"
      => Shown(r) = req[r].asked
=============================================================================
