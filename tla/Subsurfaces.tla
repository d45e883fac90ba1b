----------------------------- MODULE Subsurfaces -----------------------------
(***************************************************************************)
(* subsurfaces: one click selects a subsurface, the next puts it above or  *)
(* below the surface under the pointer.  The handlers are functions of     *)
(* what they keep, c, which Startup runs for the events it dispatches: the *)
(* surface under the pointer and the selected subsurface.                  *)
(***************************************************************************)
EXTENDS Sequences, SequencesExt

Subsurface == {"red", "green", "blue"}

(* From the bottom: the order in which they are created. *)
FirstStack == <<"main", "red", "green", "blue">>

pointer_handle_enter(c, e) == [c EXCEPT !.current = e.surface]

pointer_handle_leave(c) == [c EXCEPT !.current = "none"]

(* A release, with nothing selected; the main surface cannot be. *)
Selects(c, e) == /\ e.released
                 /\ c.selected = "none"
                 /\ c.current \in Subsurface

(* A release that uses the selection up. *)
Places(c, e) == /\ e.released
                /\ c.selected # "none"
                /\ c.current \notin {"none", c.selected}

pointer_handle_button(c, e) ==
  IF Selects(c, e) THEN [c EXCEPT !.selected = c.current]
  ELSE IF Places(c, e) THEN [c EXCEPT !.selected = "none"]
  ELSE c

Place(how, s, ref) == [type |-> "place", how |-> how, surface |-> s, ref |-> ref]

Reordered(c, e) ==
  IF e.button = "middle" THEN <<>>
  ELSE <<Place(IF e.button = "left" THEN "above" ELSE "below",
               c.selected, c.current)>>

(* The order is double-buffered state of the parent, hence the commit, which *)
(* comes for the middle button too.  The mutant forgets it.                  *)
Placed_pending(c, e) == Reordered(c, e)

Placed(c, e) == Reordered(c, e) \o <<[type |-> "commit"]>>

(* wl_subsurface.place_above and place_below. *)
PositionOf(stack, s) == CHOOSE k \in DOMAIN stack : stack[k] = s

Moved(stack, how, s, ref) ==
  LET rest == Remove(stack, s)
      k == PositionOf(rest, ref)
  IN  InsertAt(rest, IF how = "above" THEN k + 1 ELSE k, s)
==============================================================================
