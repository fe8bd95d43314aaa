----------------------------- MODULE MCMoveItem -----------------------------
(* Small instances of MoveItem.                                            *)
EXTENDS MoveItem

(* All moves from a calendar to a later one.                               *)
Upwards == {m \in Calendars \X Calendars : m[1] < m[2]}
=============================================================================
