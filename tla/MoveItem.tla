------------------------------ MODULE MoveItem ------------------------------
(***************************************************************************)
(* One event, task or journal among the calendars of its user.  A move is  *)
(* a save whose calendar picker was changed: the handler creates the item  *)
(* on the target and then deletes it from the source                       *)
(* (src/webcaldav/routers/events.py, tasks.py, journals.py).  A calendar   *)
(* is its number; all that matters of it here is whether it holds the item *)
(***************************************************************************)
EXTENDS Integers

CONSTANTS Clients,     \* open pages, each with its modal
          Calendars,
          None,        \* no modal, no request
          Moves,       \* <<from, to>>: the moves users make
          MaxRequests  \* bound: requests sent

(* A request and what its handler does next.                               *)
Job == [kind : {"move", "edit", "delete"}, from : Calendars, to : Calendars,
        pc : {"create", "find", "change"}]

ASSUME MoveAssumption ==
  /\ Calendars \subseteq Int /\ None \notin Calendars \cup Job
  /\ Moves \subseteq Calendars \X Calendars
  /\ \A m \in Moves : m[1] # m[2]
  /\ MaxRequests \in Nat

VARIABLES held,        \* the calendars with a resource of the item's UID
          modal,       \* the calendar of the item each modal was opened on
          job,         \* the request each client waits for
          sent,        \* bound: requests so far
          wanted,      \* observed: has nobody asked to delete the item?
          errors,      \* observed: was a request answered by an error?
          overlapped   \* observed: were two requests ever under way at once?

vars == <<held, modal, job, sent, wanted, errors, overlapped>>

Init ==
  /\ \E k \in Calendars : held = {k}
  /\ modal = [c \in Clients |-> None]
  /\ job = [c \in Clients |-> None]
  /\ sent = 0
  /\ wanted = TRUE /\ errors = FALSE /\ overlapped = FALSE

-----------------------------------------------------------------------------
(* The browser.                                                            *)

(* Opens a modal on what a view shows, which may be old when it is used.   *)
Open(c) ==
  /\ job[c] = None
  /\ \E k \in held : modal' = [modal EXCEPT ![c] = k]
  /\ UNCHANGED <<held, job, sent, wanted, errors, overlapped>>

Send(c, j) ==
  /\ job[c] = None /\ sent < MaxRequests
  /\ job' = [job EXCEPT ![c] = j]
  /\ sent' = sent + 1
  /\ overlapped' = (overlapped \/ \E d \in Clients : job[d] # None)
  /\ UNCHANGED <<held, modal, errors>>

SendMove(c) ==
  \E m \in Moves :
    /\ modal[c] = m[1]
    /\ Send(c, [kind |-> "move", from |-> m[1], to |-> m[2], pc |-> "create"])
    /\ UNCHANGED wanted

(* Mutant: a save without an item in the modal.                            *)
SendEdit_NoModal(c) ==
  /\ Send(c, [kind |-> "edit", from |-> modal[c], to |-> modal[c], pc |-> "find"])
  /\ UNCHANGED wanted

SendEdit(c) ==
  /\ modal[c] # None
  /\ Send(c, [kind |-> "edit", from |-> modal[c], to |-> modal[c], pc |-> "find"])
  /\ UNCHANGED wanted

(* The modal's button names the calendar its picker shows.                 *)
SendDelete(c) ==
  /\ modal[c] # None
  /\ \E k \in {modal[c]} \cup {m[2] : m \in {n \in Moves : n[1] = modal[c]}} :
       Send(c, [kind |-> "delete", from |-> k, to |-> k, pc |-> "find"])
  /\ wanted' = FALSE

-----------------------------------------------------------------------------
(* The handlers.                                                           *)

(* What the next call does to the calendars once it reaches the server:    *)
(* a PUT puts the resource there whether or not it was, a DELETE of one    *)
(* that is gone is no error.                                               *)
Effect(j) ==
  IF j.pc = "create" THEN held \cup {j.to}
  ELSE IF j.pc = "find" THEN held
  ELSE IF j.kind = "edit" THEN held \cup {j.from}
  ELSE held \ {j.from}

Done(c) ==
  /\ job' = [job EXCEPT ![c] = None]
  /\ modal' = [modal EXCEPT ![c] = None]
  /\ UNCHANGED <<sent, wanted, errors, overlapped>>

(* 404 or 502.  The modal stays open on what it showed.                    *)
Fail(c) ==
  /\ job' = [job EXCEPT ![c] = None]
  /\ errors' = TRUE
  /\ UNCHANGED <<modal, sent, wanted, overlapped>>

Proceed(c, pc) ==
  /\ job' = [job EXCEPT ![c].pc = pc]
  /\ UNCHANGED <<modal, sent, wanted, errors, overlapped>>

(* Mutant: the source is given up before the target has the item.          *)
Create_DeletesFirst(c) ==
  /\ job[c] # None /\ job[c].pc = "create"
  /\ held' = held \ {job[c].from}
  /\ Proceed(c, "find")

Create(c) ==
  /\ job[c] # None /\ job[c].pc = "create"
  /\ held' = Effect(job[c])
  /\ Proceed(c, "find")

Find(c) ==
  /\ job[c] # None /\ job[c].pc = "find" /\ job[c].from \in held
  /\ Proceed(c, "change")
  /\ UNCHANGED held

(* Mutant: an item that is not there any more is no error.                 *)
Missing_Ignored(c) ==
  /\ job[c] # None /\ job[c].pc = "find" /\ job[c].from \notin held
  /\ Done(c)
  /\ UNCHANGED held

(* EventNotFoundError.                                                     *)
Missing(c) ==
  /\ job[c] # None /\ job[c].pc = "find" /\ job[c].from \notin held
  /\ Fail(c)
  /\ UNCHANGED held

(* The DELETE of a move or a deletion, or the PUT of an edit.              *)
Change(c) ==
  /\ job[c] # None /\ job[c].pc = "change"
  /\ held' = Effect(job[c])
  /\ Done(c)

(* The next call fails, before or after its effect.                        *)
CallFails(c) ==
  /\ job[c] # None
  /\ held' \in {held, Effect(job[c])}
  /\ Fail(c)

Browser(c) == Open(c) \/ SendMove(c) \/ SendEdit(c) \/ SendDelete(c)

Handler(c) == Create(c) \/ Find(c) \/ Missing(c) \/ Change(c) \/ CallFails(c)

Next == \E c \in Clients : Browser(c) \/ Handler(c)

Spec == Init /\ [][Next]_vars
-----------------------------------------------------------------------------
(* Types.                                                                  *)
TypeOK ==
  /\ held \subseteq Calendars
  /\ modal \in [Clients -> Calendars \cup {None}]
  /\ job \in [Clients -> Job \cup {None}]
  /\ sent \in 0 .. MaxRequests
  /\ wanted \in BOOLEAN /\ errors \in BOOLEAN /\ overlapped \in BOOLEAN

(* Moves and edits never lose the item, whichever calls fail, whatever old *)
(* views they start from and however they overlap, as long as all moves go *)
(* the same way: some calendar holds it until somebody asks to delete it.  *)
NeverVanishes == wanted => held # {}

(* Requests made one after the other and all answered with success leave   *)
(* exactly one copy, or none after a deletion, even from old views: a move *)
(* or an edit of what is not there any more is refused.                    *)
OneCopy ==
  (\A c \in Clients : job[c] = None) /\ ~errors /\ ~overlapped =>
    IF wanted THEN \E k \in Calendars : held = {k} ELSE held = {}
=============================================================================
