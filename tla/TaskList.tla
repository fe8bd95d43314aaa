------------------------------ MODULE TaskList ------------------------------
(***************************************************************************)
(* Ticking, editing and deleting tasks through the web client              *)
(* (src/webcaldav/routers/tasks.py and the functions it calls in a worker  *)
(* thread).  A request names an occurrence as its page shows it; the       *)
(* handler reads the resource, rewrites it (module TaskSeries) and PUTs    *)
(* the result, and other requests run in between.  A save whose `done' box *)
(* was clicked is two requests, the second sent when the first is answered.*)
(***************************************************************************)
EXTENDS TaskSeries, Sequences

CONSTANTS Clients, Uids, NoTask, NoRequest, NoPivot,
          Window,         \* the slots the list is shown for
          FirstTasks,     \* the tasks the list can start with
          Moves,          \* by how much a gesture moves a date
          NewRules,       \* the rules a save or a creation can ask for
          Faults,         \* may calls to the CalDAV server fail?
          MaxRequests     \* bound: the gestures of a behaviour

ASSUME TaskListAssumption ==
  /\ FirstTasks \subseteq {r \in Task : OnePerSlot(r.overrides)} /\ NewRules \subseteq Rule
  /\ Window \subseteq Int /\ Moves \subseteq Int
  /\ Faults \in BOOLEAN /\ MaxRequests \in Nat
  /\ NoPivot \notin Int /\ NoTask \notin Task

VARIABLES store,    \* the tasks on the CalDAV server: UID -> task
          minted,   \* the UIDs uuid4 has produced
          request,  \* what a client waits on, until the server reads for it
          after,    \* the status request its save still has to send
          writes,   \* the PUTs and DELETEs its worker has still to issue
          reply,    \* how its last request was answered
          sent      \* the gestures so far

vars == <<store, minted, request, after, writes, reply, sent>>

Scopes == {"this", "thisfuture", "all"}

(* A recurring task needs a start or due date.                             *)
Edit ==
  {e \in [start : Date, due : Date, title : Titles, rule : Rule \cup {NoRule},
          reset : SUBSET Fields] : e.rule # NoRule => Anchor(e) # Absent}

StatusRequest == [op : {"status"}, uid : Uids, rid : Int \cup {NoPivot}, done : BOOLEAN]

Request ==
  StatusRequest
    \cup [op : {"edit"}, uid : Uids, scope : Scopes, rid : Int \cup {NoPivot}, edit : Edit]
    \cup [op : {"delete"}, uid : Uids, scope : Scopes, rid : Int \cup {NoPivot}]
    \cup [op : {"create"}, uid : Uids, edit : Edit]

Write == [uid : Uids, res : Task \cup {NoTask}]

Live == {u \in Uids : store[u] # NoTask}

(* A client that waits for nothing; the bound on gestures.                 *)
Idle(c) ==
  /\ request[c] = NoRequest /\ after[c] = NoRequest /\ writes[c] = <<>>
  /\ sent < MaxRequests

Init ==
  /\ \E u \in Uids, first \in FirstTasks :
       /\ store = [v \in Uids |-> IF v = u THEN first ELSE NoTask]
       /\ minted = {u}
  /\ request = [c \in Clients |-> NoRequest]
  /\ after = [c \in Clients |-> NoRequest]
  /\ writes = [c \in Clients |-> <<>>]
  /\ reply = [c \in Clients |-> "none"]
  /\ sent = 0

-----------------------------------------------------------------------------
(* The client: the gestures on an item of the list.                        *)

Send(c, q, then) ==
  /\ sent' = sent + 1
  /\ request' = [request EXCEPT ![c] = q]
  /\ after' = [after EXCEPT ![c] = then]
  /\ reply' = [reply EXCEPT ![c] = "none"]
  /\ UNCHANGED <<store, writes>>

(* The pivot a page sends for an item: its slot, if its task recurs.  An   *)
(* item without dates has none.                                            *)
PivotOf(uid, i) ==
  IF IsRecurring(store[uid]) /\ i.slot # Absent THEN i.slot ELSE NoPivot

Status(uid, i, done) == [op |-> "status", uid |-> uid, rid |-> PivotOf(uid, i), done |-> done]

EditRequest(uid, i, scope, e) ==
  [op |-> "edit", uid |-> uid, scope |-> scope, rid |-> PivotOf(uid, i), edit |-> e]

DatesMoved(i, d) == [start |-> Plus(i.start, d), due |-> Plus(i.due, d)]

ScopesOf(uid) == IF IsRecurring(store[uid]) THEN Scopes ELSE {"all"}

Toggle(c) ==
  /\ Idle(c)
  /\ \E uid \in Live : \E i \in Items(store[uid], Window) :
       Send(c, Status(uid, i, ~i.done), NoRequest)
  /\ UNCHANGED minted

(* A drag moves both dates and sends no rule; the box resets the times.    *)
Drag(c) ==
  /\ Idle(c)
  /\ \E uid \in Live : \E i \in Items(store[uid], Window), d \in Moves, scope \in ScopesOf(uid),
        reset \in {{}, {"time"}} :
       /\ i.slot # Absent
       /\ (scope = "this" \/ ~IsRecurring(store[uid])) => reset = {}
       /\ LET to == DatesMoved(i, d)
          IN  Send(c, EditRequest(uid, i, scope,
                        [start |-> to.start, due |-> to.due, title |-> i.title,
                         rule |-> NoRule, reset |-> reset]), NoRequest)
  /\ UNCHANGED minted

Undated == [start |-> Absent, due |-> Absent]

(* The dates a save can give an item: its own, moved ones, a start as well *)
(* as a due date, none; and a due date where there was none.               *)
DatesFor(i) ==
  {DatesMoved(i, d) : d \in Moves \cup {0}} \cup {[start |-> i.due, due |-> i.due], Undated}
    \cup {[start |-> Absent, due |-> d] : d \in {e \in Moves : i.slot = Absent}}

(* What a save changes of what its modal opened with.                      *)
Changed(i, to, title) ==
  {f \in Fields : \/ f = "time" /\ to # [start |-> i.start, due |-> i.due]
                  \/ f = "title" /\ title # i.title}

(* The modal sends every field, the rule its editor shows among them (a    *)
(* rule needs a date; without one it was taken off, as in a drag), and     *)
(* then the status when the `done' box differs from what it opened with.   *)
(* The reset box lists the changed fields.  The server ignores a rule with *)
(* scope `this'.                                                           *)
Save(c) ==
  /\ Idle(c)
  /\ \E uid \in Live : \E i \in Items(store[uid], Window), title \in Titles,
        scope \in ScopesOf(uid), tick \in BOOLEAN : \E to \in DatesFor(i) :
       \E rule \in IF to = Undated THEN {NoRule} ELSE {store[uid].rule} \cup NewRules,
          reset \in {{}, Changed(i, to, title)} :
         /\ (scope = "this" \/ ~IsRecurring(store[uid])) => reset = {}
         /\ Send(c, EditRequest(uid, i, scope,
                   [start |-> to.start, due |-> to.due, title |-> title,
                    rule |-> IF scope = "this" THEN NoRule ELSE rule, reset |-> reset]),
                 IF tick THEN Status(uid, i, ~i.done) ELSE NoRequest)
  /\ UNCHANGED minted

Delete(c) ==
  /\ Idle(c)
  /\ \E uid \in Live : \E i \in Items(store[uid], Window), scope \in ScopesOf(uid) :
       Send(c, [op |-> "delete", uid |-> uid, scope |-> scope, rid |-> PivotOf(uid, i)], NoRequest)
  /\ UNCHANGED minted

Create(c) ==
  /\ Idle(c)
  /\ \E uid \in Uids \ minted, first \in FirstTasks, rule \in NewRules \cup {NoRule} :
       /\ Anchor(first) = Absent => rule = NoRule
       /\ Send(c, [op |-> "create", uid |-> uid,
                   edit |-> [start |-> first.start, due |-> first.due, title |-> first.title,
                             rule |-> rule, reset |-> {}]], NoRequest)
       /\ minted' = minted \cup {uid}

(* The save was answered: the modal posts the status.                      *)
PostStatus(c) ==
  /\ after[c] # NoRequest /\ reply[c] = "ok"
  /\ request' = [request EXCEPT ![c] = after[c]]
  /\ after' = [after EXCEPT ![c] = NoRequest]
  /\ reply' = [reply EXCEPT ![c] = "none"]
  /\ UNCHANGED <<store, minted, writes, sent>>

-----------------------------------------------------------------------------
(* The handlers: read the task and decide on the calls.                    *)

Plan(c, todo) ==
  /\ request' = [request EXCEPT ![c] = NoRequest]
  /\ writes' = [writes EXCEPT ![c] = todo]
  /\ UNCHANGED <<store, after, reply, sent>>

PutOf(uid, res) == [uid |-> uid, res |-> res]

Replace(c, res) == Plan(c, <<PutOf(request[c].uid, res)>>) /\ UNCHANGED minted

(* Mutant: the save goes on to its second request when the first fails.    *)
Fail_KeepsAfter(c, answer) ==
  /\ request' = [request EXCEPT ![c] = NoRequest]
  /\ writes' = [writes EXCEPT ![c] = <<>>]
  /\ reply' = [reply EXCEPT ![c] = answer]
  /\ UNCHANGED <<store, minted, after, sent>>

Fail(c, answer) ==
  /\ request' = [request EXCEPT ![c] = NoRequest]
  /\ after' = [after EXCEPT ![c] = NoRequest]
  /\ writes' = [writes EXCEPT ![c] = <<>>]
  /\ reply' = [reply EXCEPT ![c] = answer]
  /\ UNCHANGED <<store, minted, sent>>

Asks(c, op) == request[c] # NoRequest /\ request[c].op = op

Target(c) == store[request[c].uid]

Finds(c, op) == Asks(c, op) /\ Target(c) # NoTask

(* Without a rule or a pivot a request is about the whole task.            *)
Whole(c) == ~IsRecurring(Target(c)) \/ request[c].rid = NoPivot

(* A pivot is read against the dates of the task.                          *)
FindsOccurrence(c, op) == Finds(c, op) /\ ~Whole(c) /\ Anchor(Target(c)) # Absent

FindsScoped(c, op, scope) == FindsOccurrence(c, op) /\ request[c].scope = scope

Pivots(c) == ResolveTaskPivot(Target(c), request[c].rid)

NotFound(c) ==
  /\ \E op \in {"edit", "delete", "status"} : Asks(c, op)
  /\ Target(c) = NoTask
  /\ Fail(c, "notfound")

(* A recurring task that has lost its dates has none to read it against:   *)
(* KeyError, answered 502, except where all of it is deleted.              *)
LosesAnchor(c) ==
  /\ \E op \in {"edit", "delete", "status"} : Finds(c, op)
  /\ ~Whole(c) /\ Anchor(Target(c)) = Absent
  /\ request[c].op = "delete" => request[c].scope # "all"
  /\ Fail(c, "error")

CreateTask(c) ==
  /\ Asks(c, "create")
  /\ LET e == request[c].edit
     IN  Replace(c, [start |-> e.start, due |-> e.due, title |-> e.title, done |-> FALSE,
                     rule |-> IF e.rule = NoRule THEN NoRule ELSE BuildRule(e.rule, Anchor(e)),
                     exdates |-> {}, overrides |-> {}])

UpdateTask(c) ==
  /\ Finds(c, "edit") /\ Whole(c)
  /\ Replace(c, EditTask(Target(c), request[c].edit))

UpdateTaskAll(c) ==
  /\ FindsScoped(c, "edit", "all")
  /\ \E pivot \in Pivots(c) : Replace(c, EditTaskAll(Target(c), request[c].edit, pivot))

UpdateTaskThis(c) ==
  /\ FindsScoped(c, "edit", "this")
  /\ \E pivot \in Pivots(c) : Replace(c, EditTaskThis(Target(c), request[c].edit, pivot))

UpdateTaskFirst(c) ==
  /\ FindsScoped(c, "edit", "thisfuture")
  /\ \E pivot \in Pivots(c) :
       /\ pivot <= Anchor(Target(c))
       /\ Replace(c, RewriteTask(Target(c), request[c].edit, pivot))

UpdateTaskSplit(c) ==
  /\ FindsScoped(c, "edit", "thisfuture")
  /\ \E pivot \in Pivots(c), new \in Uids \ minted :
       /\ pivot > Anchor(Target(c))
       /\ Plan(c, <<PutOf(request[c].uid, CutTask(Target(c), pivot)),
                    PutOf(new, FutureTask(Target(c), request[c].edit, pivot))>>)
       /\ minted' = minted \cup {new}

(* Deletes take the pivot as it comes.                                     *)
DeleteTask(c) ==
  /\ Finds(c, "delete")
  /\ \/ Whole(c)
     \/ request[c].scope = "all"
     \/ FindsScoped(c, "delete", "thisfuture") /\ request[c].rid <= Anchor(Target(c))
  /\ Replace(c, NoTask)

DeleteOccurrence(c) ==
  /\ FindsScoped(c, "delete", "this")
  /\ Replace(c, SkipOccurrence(Target(c), request[c].rid))

DeleteTail(c) ==
  /\ FindsScoped(c, "delete", "thisfuture") /\ request[c].rid > Anchor(Target(c))
  /\ Replace(c, DropTail(Target(c), request[c].rid))

SetStatus(c) ==
  /\ Finds(c, "status") /\ Whole(c)
  /\ Replace(c, TickWhole(Target(c), request[c].done))

SetOccurrenceStatus(c) ==
  /\ FindsOccurrence(c, "status")
  /\ \E pivot \in Pivots(c) : Replace(c, TickOccurrence(Target(c), pivot, request[c].done))

Handle(c) ==
  \/ NotFound(c) \/ LosesAnchor(c) \/ CreateTask(c)
  \/ UpdateTask(c) \/ UpdateTaskAll(c) \/ UpdateTaskThis(c)
  \/ UpdateTaskFirst(c) \/ UpdateTaskSplit(c)
  \/ DeleteTask(c) \/ DeleteOccurrence(c) \/ DeleteTail(c)
  \/ SetStatus(c) \/ SetOccurrenceStatus(c)

(* The calls to the CalDAV server.                                         *)
Put(c) ==
  /\ writes[c] # <<>>
  /\ store' = [store EXCEPT ![Head(writes[c]).uid] = Head(writes[c]).res]
  /\ writes' = [writes EXCEPT ![c] = Tail(@)]
  /\ reply' = IF Len(writes[c]) = 1 THEN [reply EXCEPT ![c] = "ok"] ELSE reply
  /\ UNCHANGED <<minted, request, after, sent>>

(* The server cannot be reached, or refuses: 502, nothing more is issued.  *)
CallFails(c) ==
  /\ Faults /\ (request[c] # NoRequest \/ writes[c] # <<>>)
  /\ Fail(c, "error")

Next ==
  \E c \in Clients : \/ Toggle(c) \/ Drag(c) \/ Save(c) \/ Delete(c) \/ Create(c)
                     \/ PostStatus(c) \/ Handle(c) \/ Put(c) \/ CallFails(c)

(* Worker threads run, and a page goes on when its request is answered.    *)
Fairness == \A c \in Clients : WF_vars(Handle(c) \/ Put(c) \/ PostStatus(c))

Spec == Init /\ [][Next]_vars /\ Fairness
-----------------------------------------------------------------------------
(* Types; a status request waits only behind a save that has not failed.   *)
TypeOK ==
  /\ store \in [Uids -> Task \cup {NoTask}]
  /\ minted \subseteq Uids
  /\ request \in [Clients -> Request \cup {NoRequest}]
  /\ after \in [Clients -> StatusRequest \cup {NoRequest}]
  /\ writes \in [Clients -> Seq(Write)]
  /\ reply \in [Clients -> {"none", "ok", "notfound", "error"}]
  /\ sent \in 0 .. MaxRequests
  /\ \A c \in Clients : after[c] # NoRequest => reply[c] \in {"none", "ok"}

Pending == UNION {{writes[c][k].res : k \in DOMAIN writes[c]} : c \in Clients}

(* No task, stored or on its way to the server, has two overrides of one   *)
(* slot: ticking, editing and rebinding never make an occurrence both done *)
(* and not done.                                                           *)
OneStatusPerSlot ==
  \A r \in ({store[u] : u \in Uids} \cup Pending) \ {NoTask} : OnePerSlot(r.overrides)

(* The same occurrence, with the dates it had.                             *)
SameDates(k, i) == k.slot = i.slot /\ k.start = i.start /\ k.due = i.due

(* A tick or an untick changes the one occurrence it names: the others     *)
(* stay as they are in every respect.  That one, if it is of the series'   *)
(* dates, keeps its own dates, and its text when it is ticked; unticked,   *)
(* it may go back to the text of the series (which UntickKeepsText is      *)
(* about).  It is then done or not as was asked, also when the page was    *)
(* out of date, except that an occurrence of a task that was done before   *)
(* it was made to recur cannot be unticked.                                *)
TicksInPlace ==
  [][\A c \in Clients : SetOccurrenceStatus(c) =>
       LET r == Target(c)
           s == writes'[c][1].res
           done == request[c].done
       IN  \E pivot \in Pivots(c) :
             /\ \A i \in Items(r, Window) : i.slot # pivot => i \in Items(s, Window)
             /\ \A i \in Items(s, Window) : i.slot # pivot => i \in Items(r, Window)
             /\ \A i \in Items(r, Window) :
                  (i.slot = pivot /\ pivot \in Window /\ IsSlot(Anchor(r), r.rule, pivot)) =>
                     \E k \in Items(s, Window) :
                       SameDates(k, i) /\ (k.title = i.title \/ (~done /\ k.title = r.title))
             /\ \A i \in Items(s, Window) : i.slot = pivot =>
                  IF done THEN i.done ELSE i.done => r.done]_vars

Ticked(r) == {o.rid : o \in {p \in r.overrides : p.done}}

(* Has an edit given a start and a due date where there were, only there?  *)
KeepsDates(r, e) == (r.start = Absent) = (e.start = Absent) /\ (r.due = Absent) = (e.due = Absent)

(* All of the ticks `must', and none but of `may', moved by one distance.  *)
TakesAlong(s, must, may, delta) ==
  Shift(must, delta) \subseteq Ticked(s) /\ Ticked(s) \subseteq Shift(may, delta)

(* An edit of one occurrence leaves every tick where it is.  One of the    *)
(* whole series takes every tick with its occurrence to the new grid.  One *)
(* of this and future occurrences takes those after the pivot along and    *)
(* leaves those before it, whether it splits the series or rewrites it in  *)
(* place; what becomes of the tick at the pivot is left open, and so are   *)
(* edits that give the task a start or a due date it did not have, or take *)
(* one away: the handler moves their ticks by the wrong distance.          *)
TicksFollow ==
  [][\A c \in Clients :
       LET r == Target(c)
           e == request[c].edit
           s(k) == writes'[c][k].res
       IN  /\ UpdateTaskThis(c) => Ticked(s(1)) = Ticked(r)
           /\ UpdateTaskAll(c) =>
                /\ Ticked(s(1)) = Shift(Ticked(r), Anchor(s(1)) - Anchor(r))
                /\ s(1).done = r.done
           /\ (UpdateTaskFirst(c) /\ KeepsDates(r, e)) =>
                \E pivot \in Pivots(c) :
                  TakesAlong(s(1), Ticked(r) \ {pivot}, Ticked(r), Anchor(s(1)) - Anchor(r))
           /\ (UpdateTaskSplit(c) /\ KeepsDates(r, e)) =>
                \E pivot \in Pivots(c) :
                  /\ Ticked(s(1)) = {t \in Ticked(r) : t < pivot}
                  /\ TakesAlong(s(2), {t \in Ticked(r) : t > pivot}, {t \in Ticked(r) : t >= pivot},
                             Anchor(s(2)) - pivot)]_vars

(* Unticking an occurrence keeps the text it was given, as it keeps its    *)
(* dates.                                                                  *)
UntickKeepsText ==
  [][\A c \in Clients : SetOccurrenceStatus(c) =>
       \A i \in CustomItems(Target(c)) :
         i.title \in {k.title : k \in {l \in Items(writes'[c][1].res, Window) :
                                         l.slot = i.slot}}]_vars
=============================================================================
