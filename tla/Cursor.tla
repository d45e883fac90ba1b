-------------------------------- MODULE Cursor --------------------------------
(***************************************************************************)
(* cursor: the surface of this module is cursor_surface.  A click moves    *)
(* the hotspot between two corners of the cursor, by the offset the next   *)
(* buffer is attached with; entering the window sets it outright.          *)
(***************************************************************************)
EXTENDS Surface

CONSTANT MaxInput    (* bound on the pointer events ever sent *)

ASSUME CursorAssumption == MaxInput \in Nat

VARIABLES entered_loop,   (* main has drawn the first cursor and dispatches *)
          inversed,
          inputs,         (* pointer events sent                            *)
          inside,         (* the pointer is over the toplevel               *)
          role,           (* the surface has been made a cursor             *)
          hotspot,        (* where the compositor places it                 *)
          lost            (* a frame was skipped since the last set_cursor  *)

cursorVars == <<entered_loop, inversed, lost>>
pointerVars == <<inputs, inside, role, hotspot>>

allCursorVars == <<surfaceVars, cursorVars, pointerVars>>

cursor_size == 50

(* main, up to its loop; the toplevel has requests and events of its own. *)
main ==
  /\ ~entered_loop
  /\ entered_loop' = TRUE
  /\ \E r \in surface_render(surface) :
       /\ slots' = r.slots
       /\ surface' = r.surface
       /\ Send(r.sent)
  /\ UNCHANGED <<events, compositorVars, inversed, lost, pointerVars>>

pointer_handle_enter ==
  /\ Receive("enter", 1)
  /\ entered_loop
  /\ Send(<<[type |-> "set_cursor",
             hotspot |-> IF inversed THEN cursor_size ELSE 0]>>)
  /\ lost' = FALSE
  /\ UNCHANGED <<clientVars, compositorVars, entered_loop, inversed,
                 pointerVars>>

(* The handlers of leave and motion do nothing. *)
pointer_handle_leave ==
  /\ Receive("leave", 0)
  /\ entered_loop
  /\ UNCHANGED <<clientVars, requests, compositorVars, cursorVars, pointerVars>>

(* The way to the other corner; the mutant uses inversed as it will be. *)
Offset_turned == (IF inversed THEN -1 ELSE 1) * cursor_size

Offset == (IF inversed THEN 1 ELSE -1) * cursor_size

pointer_handle_button ==
  /\ Receive("button", 1)
  /\ entered_loop
  /\ IF ~Head(events).released
       THEN UNCHANGED <<clientVars, requests, cursorVars>>
       ELSE /\ inversed' = ~inversed
            /\ \E r \in surface_render([surface EXCEPT !.attach = Offset]) :
                 /\ slots' = r.slots
                 /\ surface' = r.surface
                 /\ Send(r.sent)
                 /\ lost' = (lost \/ r.sent = <<>>)
            /\ UNCHANGED entered_loop
  /\ UNCHANGED <<compositorVars, pointerVars>>

-------------------------------------------------------------------------------
(* The compositor: set_cursor makes the surface a cursor and places it; the *)
(* offset of every later commit is subtracted from the hotspot.             *)
ReceiveSetCursor ==
  /\ CompositorReceive("set_cursor")
  /\ role' = TRUE
  /\ hotspot' = Head(requests).hotspot
  /\ UNCHANGED <<ready, acked, held, shown, frames, cursorVars, inputs, inside>>

ReceiveCursor ==
  /\ ReceiveCommit
  /\ hotspot' = IF role THEN hotspot - Head(requests).offset ELSE hotspot
  /\ UNCHANGED <<cursorVars, inputs, inside, role>>

Input(e) == /\ inputs < MaxInput
            /\ inputs' = inputs + 1
            /\ Len(events) < MaxEvents
            /\ events' = Append(events, e)
            /\ UNCHANGED <<clientVars, requests, compositorVars, cursorVars,
                           role, hotspot>>

(* The toplevel is on screen only once its configure has been dispatched. *)
Enter == /\ entered_loop
         /\ ~inside
         /\ inside' = TRUE
         /\ Input([type |-> "enter"])

Leave == inside /\ inside' = FALSE /\ Input([type |-> "leave"])

Button(released) ==
  inside /\ UNCHANGED inside /\ Input([type |-> "button", released |-> released])

CursorInit == /\ PoolInit
              /\ surface = [width |-> cursor_size, height |-> cursor_size, attach |-> 0]
              /\ requests = <<>>
              /\ events = <<>>
              /\ ready = FALSE
              /\ serial = 0
              /\ wanted = [s \in 0 .. MaxSerial |-> <<0, 0>>]
              /\ acked = 0
              /\ held = {}
              /\ shown = Nothing
              /\ frames = 0
              /\ entered_loop = FALSE
              /\ inversed = FALSE
              /\ inputs = 0
              /\ inside = FALSE
              /\ role = FALSE
              /\ hotspot = 0
              /\ lost = FALSE

CursorDispatch == \/ main
                  \/ pointer_handle_enter
                  \/ pointer_handle_leave
                  \/ pointer_handle_button
                  \/ entered_loop /\ buffer_handle_release
                       /\ UNCHANGED <<cursorVars, pointerVars>>

CursorCompositor == \/ ReceiveSetCursor
                    \/ ReceiveCursor
                    \/ \E b \in held : Release(b) /\ UNCHANGED <<cursorVars, pointerVars>>
                    \/ Enter
                    \/ Leave
                    \/ \E released \in BOOLEAN : Button(released)

CursorNext == CursorDispatch \/ CursorCompositor

CursorSpec == CursorInit /\ [][CursorNext]_allCursorVars

-------------------------------------------------------------------------------
(* The corner the program has in mind. *)
Corner == IF inversed THEN cursor_size ELSE 0

Arrived == role /\ requests = <<>>

(* Both ends agree on the hotspot once every request has been read, however
   clicks, entries and releases interleave: the offset of each commit and
   inversed move together and an entry starts from what inversed says.  The
   exception is a frame surface_render had to skip. *)
HotspotFollowsFrames == (Arrived /\ ~lost) => hotspot = Corner

==============================================================================
