------------------------------- MODULE Resizor -------------------------------
(***************************************************************************)
(* resizor: dragging with the left button moves the left and the top edge  *)
(* of the window, with the right button all four.  Both axes are modelled, *)
(* with the same lines for each: they meet in get_next_buffer, which takes *)
(* a slot of another shape when the number of bytes is the same.           *)
(*                                                                         *)
(* A motion carries the surface-local coordinates of the time it was sent, *)
(* and the window moves under the pointer while frames are on their way:   *)
(* any coordinates may come next.  Frames reach the compositor in order,   *)
(* and drawn is what it shows when it has read them all.                   *)
(***************************************************************************)
EXTENDS BufferPool

CONSTANTS MIN_SIZE, MAX_SIZE,   (* 50 and 1000 in the program               *)
          Start,                (* what surface_init sets: 300 and 400      *)
          Buttons,              (* the buttons in use                       *)
          Points,               (* coordinates of the pointer               *)
          Far                   (* bound on the sizes a drag leads to       *)

Axes == 1 .. 2
Vectors == [Axes -> Int]

ASSUME ResizorAssumption ==
  /\ MIN_SIZE \in Nat \ {0} /\ MAX_SIZE \in Nat /\ MIN_SIZE <= MAX_SIZE
  /\ Start \in [Axes -> Nat \ {0}]
  /\ Buttons \subseteq {"BTN_LEFT", "BTN_RIGHT", "BTN_MIDDLE"}
  /\ Points \subseteq Vectors /\ Sizes \subseteq [Axes -> Nat] /\ Far \in Nat

VARIABLES pos, last, resizing,   (* pointer_state: x and y, last_x and last_y *)
          size, attach,          (* of toplevel.surface                       *)
          drawn,                 (* the size of the wl_buffer on screen       *)
          moved, steady          (* history, see AnchorStays                  *)

pointer_state == <<pos, last, resizing>>
resizorVars == <<pointer_state, slots, size, attach, drawn, moved, steady>>

Origin == [a \in Axes |-> 0]

-------------------------------------------------------------------------------
(* A slot was committed; it was, and with a wl_buffer. *)
Committed == \E i \in Slots : ~slots[i].busy /\ slots'[i].busy
Displayed == \E i \in Slots : /\ ~slots[i].busy /\ slots'[i].busy
                              /\ slots'[i].buffer # NULL

(* What is on screen after a commit: a wl_buffer of the slot's size, or       *)
(* nothing when the slot has none.                                            *)
Content(slot) == IF slot.buffer = NULL THEN Origin
                 ELSE [a \in Axes |-> IF a = 1 THEN slot.width ELSE slot.height]

(* surface_render with the size and offset the surface has got: without a     *)
(* buffer nothing is drawn and the offset stays.                              *)
surface_render(offset) ==
  /\ \/ PoolRender(size'[1], size'[2])
     \/ FreeSlots = {} /\ UNCHANGED slots
  /\ attach' = IF Committed THEN Origin ELSE offset
  /\ drawn' = IF Committed THEN Content(slots'[NextSlot]) ELSE drawn

(* A drag begins, or its anchor is let go: from here on its moves are counted *)
(* if the frame on screen is the one that was asked for.                      *)
Restarted == /\ moved' = Origin
             /\ steady' = (resizing' # "NONE" /\ drawn' = size' /\ drawn' # Origin)

-------------------------------------------------------------------------------
pointer_handle_enter ==
  /\ pos' \in Points
  /\ UNCHANGED <<last, resizing, slots, size, attach, drawn, moved, steady>>

(* How far the left (upper) edge goes: as far as the size stays in range.  The *)
(* mutant stops at one end only.                                               *)
Clamped_below(s, d) == IF s - d < MIN_SIZE THEN s - MIN_SIZE ELSE d

Clamped(s, d) == IF s - d < MIN_SIZE THEN s - MIN_SIZE
                 ELSE IF s - d > MAX_SIZE THEN s - MAX_SIZE
                 ELSE d

(* By how many times that the size shrinks; the mutant forgets the centre. *)
Factor_same == 1

Factor == IF resizing = "ANCHORED_TO_CENTER" THEN 2 ELSE 1

(* How far the right (lower) edge, or twice the middle, goes on screen in a   *)
(* frame whose offset is dx.                                                  *)
AnchorMove(dx, a) ==
  (IF resizing = "ANCHORED_TO_CENTER" THEN 2 * dx[a] ELSE dx[a])
    + drawn'[a] - drawn[a]

Resized(dx) ==
  /\ size' = [a \in Axes |-> size[a] - Factor * dx[a]]
  /\ \A a \in Axes : size'[a] \in -Far .. Far
  /\ surface_render(dx)
  /\ last' = [a \in Axes |-> pos'[a] - dx[a]]
  /\ steady' = (steady /\ Displayed)
  /\ moved' = IF steady' THEN [a \in Axes |-> moved[a] + AnchorMove(dx, a)] ELSE Origin

pointer_handle_motion ==
  /\ pos' \in Points
  /\ UNCHANGED resizing
  /\ IF resizing # "NONE"
       THEN Resized([a \in Axes |-> Clamped(size[a], pos'[a] - last[a])])
       ELSE UNCHANGED <<last, slots, size, attach, drawn, moved, steady>>

Anchor(button) == CASE button = "BTN_LEFT"  -> "ANCHORED_TO_BOTTOM_RIGHT"
                    [] button = "BTN_RIGHT" -> "ANCHORED_TO_CENTER"
                    [] OTHER -> resizing

(* Any button released ends the drag. *)
pointer_handle_button(button, pressed) ==
  /\ resizing' = IF pressed THEN Anchor(button) ELSE "NONE"
  /\ last' = pos
  /\ UNCHANGED <<pos, slots, size, attach, drawn>>
  /\ Restarted

(* The two configure handlers of client.c, one after the other. *)
handle_configure(z) ==
  /\ size' = IF z[1] = 0 \/ z[2] = 0 THEN size ELSE z
  /\ surface_render(attach)
  /\ UNCHANGED pointer_state
  /\ Restarted

buffer_handle_release(i) ==
  /\ PoolRelease(i)
  /\ UNCHANGED <<pointer_state, size, attach, drawn, moved, steady>>

(* The first frame, which answers the first configure, has been drawn. *)
ResizorInit ==
  /\ pos = Origin /\ last = Origin /\ resizing = "NONE"
  /\ size = Start /\ attach = Origin /\ drawn = Start
  /\ moved = Origin /\ steady = FALSE
  /\ \E b \in Buffers :
       slots = [i \in Slots |->
                  IF i = 1 THEN [buffer |-> b, width |-> Start[1],
                                 height |-> Start[2], busy |-> TRUE]
                  ELSE EmptySlot]

ResizorNext == \/ pointer_handle_enter
               \/ pointer_handle_motion
               \/ \E button \in Buttons, pressed \in BOOLEAN :
                    pointer_handle_button(button, pressed)
               \/ \E z \in Sizes : handle_configure(z)
               \/ \E i \in Slots : buffer_handle_release(i)

ResizorSpec == ResizorInit /\ [][ResizorNext]_resizorVars

-------------------------------------------------------------------------------
(* A drag with the left button ends between MIN_SIZE and MAX_SIZE, from wherever
   a configure event has put the size.  With the right button the change is
   doubled after it has been cut down to that: half-way between the old and the
   new size is in range, and the new one may be zero or negative. *)
DragInRange ==
  [][pointer_handle_motion => \A a \in Axes :
       /\ resizing = "ANCHORED_TO_BOTTOM_RIGHT" => size'[a] \in MIN_SIZE .. MAX_SIZE
       /\ resizing = "ANCHORED_TO_CENTER" =>
            size[a] + size'[a] \in 2 * MIN_SIZE .. 2 * MAX_SIZE]_resizorVars

(* From the moment a drag begins, with the frame on screen that was asked for,
   until a frame is skipped or a configure event changes the size: whenever the
   frame on screen has the size asked for again, the right and the lower edge,
   or the middle, are where they were, whatever frames of another shape
   get_next_buffer has supplied in between.  A frame of another shape moves the
   edges while it is shown; a skipped one moves them for good, since the size
   has changed and the offset that belongs to it is overwritten. *)
AnchorStays == \A a \in Axes : steady /\ drawn[a] = size[a] => moved[a] = 0
================================================================================
