------------------------------ MODULE MCCursor ------------------------------
(* Cursor with at most six pointer events. *)
EXTENDS Cursor

MCSizes == {<<50, 50>>}
=============================================================================
