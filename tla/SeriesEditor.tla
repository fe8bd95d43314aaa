---------------------------- MODULE SeriesEditor ----------------------------
(***************************************************************************)
(* Editing recurring events through the web client.  A client (a browser   *)
(* tab) shows the occurrences of the calendar and sends one request at a   *)
(* time: a drag, a save of the event modal, a delete, or a creation.  The  *)
(* handler runs in a worker thread: it reads the resource from the CalDAV  *)
(* server, rewrites it (module Series) and PUTs the result, with no        *)
(* precondition.  Splitting a series takes two PUTs.  Between the read and *)
(* the PUTs other requests run, and each call to the server can fail.      *)
(***************************************************************************)
EXTENDS Series, Sequences

CONSTANTS Clients, Uids, NoResource, NoRequest, NoPivot,
          Times,          \* the times a gesture can put an occurrence at
          Starts,         \* the times events are created at
          Horizon,        \* the window the calendar is shown in
          InitialRules,   \* the rules of the events the calendar starts with
          AllDays,        \* whether they are all-day events
          Drags,          \* by how much a drag moves an occurrence
          Retimes,        \* by how much a modal save moves one
          RuleEdits,      \* the rules a modal save or a creation can ask for
          EditShadowed,   \* may clients edit an occurrence at whose slot a moved one sits?
          Faults,         \* may calls to the CalDAV server fail?
          MaxRequests     \* bound: the requests of a behaviour

ASSUME EditorAssumption ==
  /\ InitialRules \subseteq Rule \cup {NoRule}
  /\ RuleEdits \subseteq Rule
  /\ AllDays \subseteq BOOLEAN /\ EditShadowed \in BOOLEAN /\ Faults \in BOOLEAN
  /\ Times \subseteq Int /\ Starts \subseteq Times /\ Horizon \subseteq Int /\ NoPivot \notin Int
  /\ Drags \subseteq Int /\ Retimes \subseteq Int
  /\ MaxRequests \in Nat
  /\ NoResource \notin Resource

VARIABLES store,     \* the calendar on the CalDAV server: UID -> resource
          minted,    \* the UIDs uuid4 has produced
          request,   \* the request a client waits on, until the server reads for it
          writes,    \* the PUTs and DELETEs its worker has still to issue
          reply,     \* how its last request was answered
          fault,     \* whether a server call of that request failed
          sent       \* the requests sent so far

vars == <<store, minted, request, writes, reply, fault, sent>>

Scopes == {"this", "thisfuture", "all"}

Edit == [start : Int, title : Titles, rule : Rule \cup {NoRule},
         reset : SUBSET Fields, changed : SUBSET Fields]

Request ==
  [op : {"edit"}, uid : Uids, scope : Scopes, rid : Int \cup {NoPivot}, edit : Edit]
    \cup [op : {"delete"}, uid : Uids, scope : Scopes, rid : Int \cup {NoPivot}]
    \cup [op : {"create"}, uid : Uids, edit : Edit, allDay : BOOLEAN]

(* One call that changes the calendar; `follows' marks the second PUT of a *)
(* split.                                                                  *)
Write == [uid : Uids, res : Resource \cup {NoResource}, follows : BOOLEAN]

Put1(uid, res) == [uid |-> uid, res |-> res, follows |-> FALSE]
Put2(uid, res) == [uid |-> uid, res |-> res, follows |-> TRUE]

Live == {u \in Uids : store[u] # NoResource}

Idle(c) == request[c] = NoRequest /\ writes[c] = <<>>

NewResource(start, title, rule, allDay) ==
  [start |-> start, title |-> title, rule |-> rule, allDay |-> allDay,
   exdates |-> {}, overrides |-> {}]

Init ==
  /\ \E u \in Uids, start \in Starts, title \in Titles, rule \in InitialRules, allDay \in AllDays :
       /\ store = [v \in Uids |-> IF v = u THEN NewResource(start, title, rule, allDay)
                                  ELSE NoResource]
       /\ minted = {u}
  /\ request = [c \in Clients |-> NoRequest]
  /\ writes = [c \in Clients |-> <<>>]
  /\ reply = [c \in Clients |-> "none"]
  /\ fault = [c \in Clients |-> FALSE]
  /\ sent = 0

-----------------------------------------------------------------------------
(* The client.                                                             *)

Send(c, q) ==
  /\ Idle(c) /\ sent < MaxRequests
  /\ sent' = sent + 1
  /\ request' = [request EXCEPT ![c] = q]
  /\ reply' = [reply EXCEPT ![c] = "none"]
  /\ fault' = [fault EXCEPT ![c] = FALSE]
  /\ UNCHANGED <<store, writes>>

Recurs(uid) == store[uid].rule # NoRule

(* A moved occurrence sits at the slot of the plain occurrence i.          *)
Shadowed(uid, i) ==
  ~i.custom /\ \E o \in store[uid].overrides : o.time = i.slot

(* An edit of the occurrence i of uid.  A series asks for the scope and is *)
(* given the slot as its pivot; the reset box lists the changed fields.    *)
SendEdit(c, uid, i, start, title, rule) ==
  LET changed == (IF start # i.time THEN {"time"} ELSE {})
                   \cup (IF title # i.title THEN {"title"} ELSE {})
      E(reset) == [start |-> start, title |-> title, rule |-> rule,
                   reset |-> reset, changed |-> changed]
  IN  /\ start \in Times
      /\ EditShadowed \/ ~Shadowed(uid, i)
      /\ \/ /\ Recurs(uid)
            /\ \E scope \in Scopes, reset \in {{}, changed} :
                 /\ scope = "this" => reset = {}
                 /\ Send(c, [op |-> "edit", uid |-> uid, scope |-> scope,
                             rid |-> i.slot, edit |-> E(reset)])
         \/ /\ ~Recurs(uid)
            /\ Send(c, [op |-> "edit", uid |-> uid, scope |-> "all",
                        rid |-> NoPivot, edit |-> E({})])
      /\ UNCHANGED minted

Drag(c) ==
  \E uid \in Live : \E i \in Occurrences(store[uid], Horizon), d \in Drags :
    SendEdit(c, uid, i, i.time + d, i.title, NoRule)

(* The modal sends the rule its editor shows, changed or not; the `repeats' *)
(* box of a series cannot be cleared, that of a single event can be set.   *)
Save(c) ==
  \E uid \in Live : \E i \in Occurrences(store[uid], Horizon), d \in Retimes,
     title \in Titles,
     rule \in {store[uid].rule} \cup RuleEdits :
    SendEdit(c, uid, i, i.time + d, title, rule)

Delete(c) ==
  \E uid \in Live : \E i \in Occurrences(store[uid], Horizon), scope \in Scopes :
    /\ Send(c, [op |-> "delete", uid |-> uid, scope |-> IF Recurs(uid) THEN scope ELSE "all",
                rid |-> IF Recurs(uid) THEN i.slot ELSE NoPivot])
    /\ UNCHANGED minted

Create(c) ==
  \E uid \in Uids \ minted, start \in Starts, title \in Titles,
     rule \in RuleEdits \cup {NoRule}, allDay \in AllDays :
    /\ Send(c, [op |-> "create", uid |-> uid, allDay |-> allDay,
                edit |-> [start |-> start, title |-> title, rule |-> rule,
                          reset |-> {}, changed |-> {}]])
    /\ minted' = minted \cup {uid}

-----------------------------------------------------------------------------
(* The handler: read the resource and decide on the calls.                 *)

Plan(c, todo) ==
  /\ request' = [request EXCEPT ![c] = NoRequest]
  /\ writes' = [writes EXCEPT ![c] = todo]
  /\ UNCHANGED <<store, reply, fault, sent>>

Fail(c, answer) ==
  /\ request' = [request EXCEPT ![c] = NoRequest]
  /\ writes' = [writes EXCEPT ![c] = <<>>]
  /\ reply' = [reply EXCEPT ![c] = answer]
  /\ UNCHANGED <<store, minted, sent>>

Asks(c, op) == request[c] # NoRequest /\ request[c].op = op

(* What the handler of c works on: the resource, as it is when it is read,  *)
(* and a scoped request on a series (anything else counts as scope "all"). *)
Target(c) == store[request[c].uid]

Scoped(c) == Target(c).rule # NoRule /\ request[c].rid # NoPivot

Finds(c, op) == Asks(c, op) /\ Target(c) # NoResource

FindsScoped(c, op, scope) ==
  Finds(c, op) /\ Scoped(c) /\ request[c].scope = scope

Pivots(c) == ResolvePivot(Target(c), request[c].rid)

(* Mutant: a delete of a resource that is gone is not answered.            *)
NotFound_EditOnly(c) ==
  /\ Asks(c, "edit")
  /\ Target(c) = NoResource
  /\ Fail(c, "notfound")
  /\ UNCHANGED fault

NotFound(c) ==
  /\ Asks(c, "edit") \/ Asks(c, "delete")
  /\ Target(c) = NoResource
  /\ Fail(c, "notfound")
  /\ UNCHANGED fault

CreateEvent(c) ==
  /\ Asks(c, "create")
  /\ LET e == request[c].edit
         rule == IF e.rule = NoRule THEN NoRule ELSE BuildRule(e.rule, e.start)
     IN  Plan(c, <<Put1(request[c].uid,
                        NewResource(e.start, e.title, rule, request[c].allDay))>>)
  /\ UNCHANGED minted

UpdatePlain(c) ==
  /\ Finds(c, "edit") /\ ~Scoped(c)
  /\ Plan(c, <<Put1(request[c].uid, EditPlain(Target(c), request[c].edit))>>)
  /\ UNCHANGED minted

UpdateAll(c) ==
  /\ FindsScoped(c, "edit", "all")
  /\ \E pivot \in Pivots(c) :
       Plan(c, <<Put1(request[c].uid, EditAll(Target(c), request[c].edit, pivot))>>)
  /\ UNCHANGED minted

UpdateThis(c) ==
  /\ FindsScoped(c, "edit", "this")
  /\ \E pivot \in Pivots(c) :
       Plan(c, <<Put1(request[c].uid, EditThis(Target(c), request[c].edit, pivot))>>)
  /\ UNCHANGED minted

UpdateFirst(c) ==
  /\ FindsScoped(c, "edit", "thisfuture") /\ ~RewriteRaises(Target(c))
  /\ \E pivot \in Pivots(c) :
       /\ pivot <= Target(c).start
       /\ Plan(c, <<Put1(request[c].uid,
                         RewriteFirst(Target(c), request[c].edit, pivot))>>)
  /\ UNCHANGED minted

UpdateFirstRaises(c) ==
  /\ FindsScoped(c, "edit", "thisfuture") /\ RewriteRaises(Target(c))
  /\ \E pivot \in Pivots(c) : pivot <= Target(c).start
  /\ Fail(c, "error")
  /\ UNCHANGED fault

UpdateSplit(c) ==
  /\ FindsScoped(c, "edit", "thisfuture")
  /\ \E pivot \in Pivots(c), new \in Uids \ minted :
       /\ pivot > Target(c).start
       /\ minted' = minted \cup {new}
       /\ Plan(c, <<Put1(request[c].uid, SplitOld(Target(c), pivot)),
                    Put2(new, SplitNew(Target(c), request[c].edit, pivot))>>)

(* Deletes take the pivot as it comes.                                     *)
DeleteResource(c) ==
  /\ Finds(c, "delete")
  /\ \/ ~Scoped(c)
     \/ request[c].scope = "all"
     \/ request[c].scope = "thisfuture" /\ request[c].rid <= Target(c).start
  /\ Plan(c, <<Put1(request[c].uid, NoResource)>>)
  /\ UNCHANGED minted

DeleteOccurrence(c) ==
  /\ FindsScoped(c, "delete", "this")
  /\ Plan(c, <<Put1(request[c].uid, DeleteThis(Target(c), request[c].rid))>>)
  /\ UNCHANGED minted

DeleteTail(c) ==
  /\ FindsScoped(c, "delete", "thisfuture") /\ request[c].rid > Target(c).start
  /\ Plan(c, <<Put1(request[c].uid, DeleteFuture(Target(c), request[c].rid))>>)
  /\ UNCHANGED minted

-----------------------------------------------------------------------------
(* The calls to the CalDAV server.                                         *)

Apply(w) == store' = [store EXCEPT ![w.uid] = w.res]

Put(c) ==
  /\ writes[c] # <<>>
  /\ Apply(Head(writes[c]))
  /\ writes' = [writes EXCEPT ![c] = Tail(@)]
  /\ reply' = IF Len(writes[c]) = 1 THEN [reply EXCEPT ![c] = "ok"] ELSE reply
  /\ UNCHANGED <<minted, request, fault, sent>>

(* The server refuses the call, or cannot be reached: 502, and the worker  *)
(* issues nothing more.                                                    *)
CallFails(c) ==
  /\ Faults /\ ~Idle(c)
  /\ Fail(c, "error")
  /\ fault' = [fault EXCEPT ![c] = TRUE]

(* The server carries the call out and the answer is lost.                 *)
AnswerLost(c) ==
  /\ Faults /\ writes[c] # <<>>
  /\ Apply(Head(writes[c]))
  /\ writes' = [writes EXCEPT ![c] = <<>>]
  /\ reply' = [reply EXCEPT ![c] = "error"]
  /\ fault' = [fault EXCEPT ![c] = TRUE]
  /\ UNCHANGED <<minted, request, sent>>

Handle(c) ==
  \/ NotFound(c) \/ CreateEvent(c)
  \/ UpdatePlain(c) \/ UpdateAll(c) \/ UpdateThis(c)
  \/ UpdateFirst(c) \/ UpdateFirstRaises(c) \/ UpdateSplit(c)
  \/ DeleteResource(c) \/ DeleteOccurrence(c) \/ DeleteTail(c)

Server(c) == Handle(c) \/ Put(c) \/ CallFails(c) \/ AnswerLost(c)

Next == \E c \in Clients : Drag(c) \/ Save(c) \/ Delete(c) \/ Create(c) \/ Server(c)

(* Worker threads run, and the CalDAV server answers a call it does not    *)
(* fail.                                                                   *)
Fairness == \A c \in Clients : WF_vars(Handle(c) \/ Put(c))

Spec == Init /\ [][Next]_vars /\ Fairness
-----------------------------------------------------------------------------
(* Types.                                                                  *)
TypeOK ==
  /\ store \in [Uids -> Resource \cup {NoResource}]
  /\ minted \subseteq Uids
  /\ request \in [Clients -> Request \cup {NoRequest}]
  /\ writes \in [Clients -> Seq(Write)]
  /\ reply \in [Clients -> {"none", "ok", "notfound", "error"}]
  /\ fault \in [Clients -> BOOLEAN]
  /\ sent \in 0 .. MaxRequests

Pending == UNION {{writes[c][k].res : k \in DOMAIN writes[c]} : c \in Clients}

Resources == ({store[u] : u \in Uids} \cup Pending) \ {NoResource}

(* No resource, stored or on its way to the server, ever has two overrides *)
(* of the same slot, whatever clients interleave and whatever calls fail:  *)
(* an upsert replaces the override it finds, and rebinding overrides to a  *)
(* shifted or split series never makes two of them meet.                   *)
UniqueOverrides == \A r \in Resources : OnePerSlot(r.overrides)

(* A request fails only when the CalDAV server or the way to it did.  In   *)
(* particular `this and future' works on the first occurrence as on any    *)
(* other.                                                                  *)
ErrorsExplained == \A c \in Clients : reply[c] = "error" => fault[c]

(* No override is left behind: each one stands for a slot of its series,   *)
(* and goes where that slot goes when the series is moved, split or cut.   *)
OverridesOnGrid ==
  \A u \in Live : \A o \in store[u].overrides :
    IsSlot(store[u].start, store[u].rule, o.rid)

(* The slots at which the two resources show something different.          *)
Differ(r, s) ==
  LET shown(x) == Occurrences(x, Horizon)
  IN  {i.slot : i \in (shown(r) \ shown(s)) \cup (shown(s) \ shown(r))}

(* An edit of one occurrence changes that occurrence in place: whatever    *)
(* other occurrences were moved to, it leaves the rest of its series alone *)
(* and never answers for another slot.                                     *)
EditsInPlace ==
  [][\A c \in Clients :
       UpdateThis(c) => Differ(Target(c), writes'[c][1].res) \subseteq {request[c].rid}]_vars

(* A slot of a resource that is not excluded.                              *)
Remains(r, t) == IsSlot(r.start, r.rule, t) /\ t \notin r.exdates

(* Dragging this and the following occurrences cuts the series cleanly:    *)
(* the old resource keeps exactly the slots before the pivot, and the new  *)
(* one has exactly the others, each moved by as much as the pivot was;     *)
(* none is lost at the seam, shown twice, or back after it was deleted.    *)
(* Only a drag leaves the rule out of its request: the modal sends it, and *)
(* the new resource then starts the whole COUNT again (FutureRule), a case *)
(* this says nothing about.                                                *)
SplitConserves ==
  [][\A c \in Clients :
       (UpdateSplit(c) /\ request[c].edit.rule = NoRule) =>
         \E pivot \in Pivots(c) :
           LET delta == request[c].edit.start - pivot
           IN  \A t \in Horizon :
                 /\ Remains(writes'[c][1].res, t) <=> Remains(Target(c), t) /\ t < pivot
                 /\ Remains(writes'[c][2].res, t + delta)
                      <=> Remains(Target(c), t) /\ t >= pivot]_vars

(* An edit of a whole series that changes no time leaves its DTSTART, and  *)
(* so every slot, where it was.                                            *)
KeepsAnchor ==
  [][\A c \in Clients :
       (UpdateAll(c) /\ "time" \notin request[c].edit.changed) =>
         writes'[c][1].res.start = Target(c).start]_vars

(* Every request is answered.                                              *)
Answered == \A c \in Clients : ~Idle(c) ~> Idle(c)

-----------------------------------------------------------------------------
(* The calendar implements the plain agenda: every PUT, whichever scope    *)
(* and whatever overrides and exclusions the series has gathered, is one   *)
(* of the agenda's operations on the occurrences shown.  The new part of a *)
(* split counts as shown from the first PUT on; when its own PUT fails it  *)
(* is removed.                                                             *)
ShownOf(u, r) ==
  IF r = NoResource THEN {}
  ELSE {[series |-> u, slot |-> i.slot, time |-> i.time, title |-> i.title,
         custom |-> i.custom] : i \in Occurrences(r, Horizon)}

Shown ==
  (UNION {ShownOf(u, store[u]) : u \in Uids})
    \cup (UNION {ShownOf(w.uid, w.res) :
                   w \in {Head(writes[c]) : c \in {d \in Clients :
                            writes[d] # <<>> /\ Head(writes[d]).follows}}})

A == INSTANCE Agenda WITH
       SeriesIds <- Uids, Slots <- Times, items <- Shown,
       Deltas <- {a - b : a \in Times, b \in Horizon}

ImplementsAgenda == A!Spec
=============================================================================
